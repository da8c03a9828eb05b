----------------------------- MODULE MCVerdict -----------------------------
(***************************************************************************)
(* Instances of Verdict for TLC: one config of every connector, between    *)
(* them every way to write, to check and to notify.                        *)
(***************************************************************************)
EXTENDS Verdict, TLC

orders == <<"main", "orders">>
clients == <<"crm", "clients">>
internal == <<"pg_catalog", "orders">>
MCTables == {orders, clients, internal}
MCColumns == (orders :> {"at", "made", "id"} @@ clients :> {} @@ internal :> {})
MCType == ("at" :> "date" @@ "made" :> "date" @@ "id" :> "number")

\* Row 1 is of the day before yesterday in UTC and of yesterday in Tashkent, row
\* 4 of yesterday in UTC and of today in Tashkent.  Row 2 is not there at first.
MCRows == 1..4
MCFirst == <<4, 3, 1>>
MCHour == <<20, 30, 31, 44>>
MCHome == <<orders, orders, orders, clients>>
MCNull == {4}
MCResource == <<"resource">>

Plain == [kind |-> "uzum", picked |-> <<>>, settings |-> <<>>,
          common |-> [column |-> None, initial |-> None],
          days |-> 1, pages |-> 1, files |-> FALSE, write |-> "append",
          checks |-> {}, minimum |-> 1, table |-> None, alerts |-> {}]

Uzum == [Plain EXCEPT !.write = "merge", !.checks = {"row_count", "no_duplicates"},
                      !.alerts = {"on_failure"}]
Payme == [Plain EXCEPT !.kind = "payme", !.checks = {"freshness"}]
Click == [Plain EXCEPT !.kind = "click", !.files = TRUE, !.checks = {"row_count"},
                       !.alerts = {"on_success"}]
Didox == [Plain EXCEPT !.kind = "didox", !.picked = <<orders, clients>>, !.write = "merge",
                       !.checks = {"not_null"}, !.alerts = {"on_failure", "on_success"}]
Rest == [Plain EXCEPT !.kind = "rest", !.pages = 2, !.write = "replace",
                      !.checks = {"row_count", "no_duplicates"}, !.minimum = 2]
Whole == [Plain EXCEPT !.kind = "sql", !.picked = <<Label(orders), Label(clients)>>,
                       !.write = "replace", !.checks = {"row_count", "not_null"}]
Since == [Plain EXCEPT !.kind = "sql", !.picked = <<Label(clients), Label(orders)>>,
                       !.settings = (Label(orders) :> [column |-> "at", initial |-> None]),
                       !.common = [column |-> "made",
                                   initial |-> [form |-> "date", at |-> 31]],
                       !.checks = {"freshness", "no_duplicates"}]
Later == [Plain EXCEPT !.kind = "sql", !.picked = <<Label(orders), Label(clients)>>,
                       !.common = [column |-> "at", initial |-> [form |-> "year", at |-> 25]],
                       !.write = "merge", !.checks = {"row_count"}, !.table = Bare(orders)]
Mistyped == [Later EXCEPT !.common.column = "id"]
Missing == [Later EXCEPT !.common.column = "gone"]
MCConfigs == {Uzum, Payme, Click, Didox, Rest, Whole, Since, Later, Mistyped, Missing}
=============================================================================
