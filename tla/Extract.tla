------------------------------ MODULE Extract ------------------------------
(***************************************************************************)
(* How a run reads its source: the connectors (payme_uz, click_uz,         *)
(* uzum_market, didox, rest_api, sql_database) and core/retry_policy.py.   *)
(*                                                                         *)
(* A source is read part by part: a day at a time (Payme), a type of       *)
(* document at a time (Didox), a table at a time (SQL) or as one.  A       *)
(* service lists the rows of a part in pages of Size, and its list may     *)
(* change between two requests: a new row shifts the others onto later     *)
(* pages, a row that vanishes shifts them onto earlier ones.  The service  *)
(* is external, as is the database, which answers a query at once; so is   *)
(* dlt, which keeps the highest value of a cursor that was extracted, and  *)
(* keeps what it had when the extraction fails.                            *)
(***************************************************************************)
EXTENDS SqlSource, Integers, FiniteSets

CONSTANTS Rows,       \* the rows the source ever has
          First,      \* those it has at first, in the order they are listed
          Hour,       \* when a row is created: hours since day 0 began in UTC
          Home,       \* the table of a row, or the type of a document
          Today,      \* the day of the runs in Tashkent, five hours ahead of UTC
          Size,       \* PAGE_SIZE
          Configs,    \* the pipelines' configs
          MaxRuns,    \* bound: runs
          MaxChanges  \* bound: changes of the source

Among(items) == {items[i] : i \in 1..Len(items)}
Attempts == 3
Kinds == {"payme", "click", "uzum", "didox", "rest", "sql"}

ASSUME ExtractAssumption ==
  /\ First \in Seq(Rows)
  /\ Hour \in [Rows -> Nat]
  /\ Home \in [Rows -> Tables]
  /\ Today \in Nat /\ Size \in Nat \ {0} /\ MaxRuns \in Nat /\ MaxChanges \in Nat
  /\ \A k \in Configs :
       /\ k.kind \in Kinds
       /\ k.picked \in Seq(IF k.kind = "sql" THEN Offered ELSE Tables)
       /\ k.days \in Int /\ k.pages \in Nat \ {0}
       /\ \A setting \in {k.common} \cup {k.settings[label] : label \in DOMAIN k.settings} :
            setting.initial # None => setting.initial.at \in Nat

VARIABLES c,       \* the pipeline's config
          phase,   \* the step of its run
          held,    \* the source: its rows, as it lists them
          part,    \* the part being read
          page,    \* the page of it to ask for
          tries,   \* failed attempts at this page
          seen,    \* how often this run extracted a row; 2: twice or more
          mark,    \* the highest cursor value extracted from a table; -1 at first
          runs,    \* bound: runs so far
          changes, \* bound: changes so far
          due,     \* auxiliary: the rows this run is to load
          odd      \* auxiliary: this run's pages cannot add up to the list

source == <<c, part, page, tries, seen, mark, runs, held, changes, due, odd>>

Listed == Among(held)
Nowhere == [r \in Rows |-> 0]
Incremental(r) ==
  /\ c.kind = "sql" /\ c.write # "replace"
  /\ \E i \in 1..Len(c.picked) :
       TableOf(c.picked[i]) = Home[r] /\ Cursor(c, c.picked[i]) # None
Passed(r) == Incremental(r) /\ Hour[r] <= mark[Home[r]]
-----------------------------------------------------------------------------
\* PaymeConnector.build_dlt_source: whole days in Tashkent, up to yesterday.
FirstHour == 24 * (Today - c.days) - 5
LastHour == 24 * Today - 6

\* _receipts: whole days in UTC around them.
StartHour_NotMidnight == FirstHour
StartHour == (FirstHour \div 24) * 24
EndHour == (LastHour \div 24) * 24 + 23
DayEnd(i) == LET current == StartHour + 24 * (i - 1)
             IN  IF (current \div 24) * 24 + 23 < EndHour
                 THEN (current \div 24) * 24 + 23 ELSE EndHour
Day(i) == StartHour + 24 * (i - 1) .. DayEnd(i)

Parts == CASE c.kind = "payme"           -> (EndHour - StartHour) \div 24 + 1
           [] c.kind \in {"didox", "sql"} -> Len(c.picked)
           [] OTHER                       -> 1

InPart(r, i) == CASE c.kind = "payme" -> Hour[r] \in Day(i)
                  [] c.kind = "didox" -> Home[r] = c.picked[i]
                  [] OTHER            -> TRUE

\* A table with a setting of its own starts where that says; the common initial
\* value is for the tables loaded by the common column.
Excluded(r, label) ==
  LET own    == IF label \in DOMAIN c.settings THEN c.settings[label] ELSE NoSetting
      common == c.common.column # None /\ own.column \in {None, c.common.column}
      from   == IF own.initial # None THEN own.initial
                ELSE IF common THEN c.common.initial ELSE None
  IN  from # None /\ Hour[r] < from.at

\* A table without a setting takes the one under its bare name, which may be that
\* of another schema's table.
Borrows(label) == label \notin DOMAIN c.settings /\ Bare(label) \in DOMAIN c.settings

\* The rows the user asked for: those of the days, types and tables in the
\* config; nothing is said of a table that borrows its setting.  A row that the
\* cursor passed before it had arrived is not asked for again.  A service whose
\* connector names dates is taken to list those alone.
AskedFor(r) ==
  CASE c.kind = "payme" -> Hour[r] \in FirstHour..LastHour
    [] c.kind = "didox" -> \E i \in 1..Len(c.picked) : Home[r] = c.picked[i]
    [] c.kind = "sql"   -> \E i \in 1..Len(c.picked) :
                             /\ Label(Home[r]) = c.picked[i]
                             /\ ~Borrows(c.picked[i]) /\ ~Excluded(r, c.picked[i])
    [] OTHER            -> TRUE

\* The run is in the guard.
Begin(arrived) ==
  /\ phase = "idle"
  /\ runs < MaxRuns
  /\ phase' = "source"
  /\ runs' = runs + 1
  /\ due' = {r \in Listed : AskedFor(r) /\ (Passed(r) => r \in arrived)}
  /\ odd' = FALSE
  /\ UNCHANGED <<c, part, page, tries, seen, mark, held, changes>>

\* What the run has of its source is gone.
Forget ==
  /\ part' = 1 /\ page' = 0 /\ tries' = 0
  /\ seen' = Nowhere

Raise ==
  /\ phase' = "raised"
  /\ Forget
  /\ UNCHANGED <<c, mark, runs, held, changes, due, odd>>
-----------------------------------------------------------------------------
\* The first page of a part, as the connector counts, and as the service does.
Origin == IF c.kind = "click" THEN 1 ELSE 0
ServiceOrigin == IF c.kind = "click" THEN 1 ELSE 0

\* build_dlt_source.
Build ==
  /\ phase = "source"
  /\ c.kind = "sql" => CanRead(c)
  /\ phase' = "fetch"
  /\ part' = 1 /\ page' = Origin
  /\ UNCHANGED <<c, tries, seen, mark, runs, held, changes, due, odd>>

\* _preflight_sqlite: the file of an SQLite source may be missing.
NoFile == phase = "source" /\ c.kind = "sql" /\ Raise

NoColumn == phase = "source" /\ c.kind = "sql" /\ ~CanRead(c) /\ Raise

\* _get_token: Didox may refuse the login, which is not tried again.
NoToken == phase = "source" /\ c.kind = "didox" /\ Raise

\* build_dlt_pipeline: the destination's driver may be missing, or refuse.
NoDestination == phase = "source" /\ Raise

BuildFails == NoFile \/ NoColumn \/ NoToken \/ NoDestination

\* The service's list of this part: the place of a row in it, and how many rows it
\* has.  A page begins after the rows of the pages before, and is full if there
\* are rows enough.
Place(i) == Cardinality({j \in 1..i : InPart(held[j], part)})
Total == Place(Len(held))
Before == (page - ServiceOrigin) * Size
Page == [rows  |-> {held[i] : i \in {j \in 1..Len(held) :
                      InPart(held[j], part) /\ Place(j) \in Before + 1..Before + Size}},
         count |-> IF Total <= Before THEN 0
                   ELSE IF Total < Before + Size THEN Total - Before ELSE Size]
TotalPages == (Total + Size - 1) \div Size

\* Whether this answer ends the part: a page that is not full (Payme, Click and
\* Uzum), the last one the answer speaks of, or the last one the user wants.
ShortPage(answer) == answer.count < Size
LastOfDidox(total) == page + 1 >= total
LastOfRest == page + 1 >= c.pages

Stops(answer, total) ==
  answer.count = 0 \/ CASE c.kind = "didox" -> LastOfDidox(total)
                         [] c.kind = "rest"  -> LastOfRest
                         [] OTHER            -> ShortPage(answer)

More(r, again) == IF again /\ seen[r] < 2 THEN seen[r] + 1 ELSE seen[r]

NextPage_Same == page
NextPage == page + 1

Take(answer, total) ==
  /\ seen' = [r \in Rows |-> More(r, r \in answer.rows)]
  /\ tries' = 0
  /\ IF Stops(answer, total)
     THEN part' = part + 1 /\ page' = Origin
     ELSE page' = NextPage /\ UNCHANGED part
  /\ UNCHANGED <<c, phase, mark, runs, held, changes, due>>

Asking == phase = "fetch" /\ c.kind # "sql" /\ part <= Parts

Answer ==
  /\ Asking
  /\ Take(Page, TotalPages)
  /\ odd' = (odd \/ (c.kind = "rest" /\ page + 1 = c.pages /\ c.pages < TotalPages))

\* _extract_payments and its like: an answer of another shape is an empty page.
Shapeless == [rows |-> {}, count |-> 0]

\* _total_pages: an answer that does not say how many pages there are has one.
Unsaid == 1

OddAnswer ==
  /\ Asking /\ ~odd
  /\ \/ Take(Shapeless, Unsaid)
     \/ (c.kind = "didox" /\ Take(Page, Unsaid))
  /\ odd' = TRUE

\* uz_api_retry: what may pass is asked for again, at most Attempts times.  The
\* REST source is dlt's, which does much the same.
Retry ==
  /\ Asking /\ tries + 1 < Attempts
  /\ tries' = tries + 1
  /\ UNCHANGED <<c, phase, part, page, seen, mark, runs, held, changes, due, odd>>

\* The last attempt fails, or the service refuses: 4xx, or an error field.
RequestFails == Asking /\ Raise

\* sql_table: the rows beyond the cursor, once each.
Beyond(r, label) ==
  \/ Cursor(c, label) = None
  \/ (Hour[r] > mark[TableOf(label)] /\ Hour[r] >= From(c, label))

Query ==
  /\ phase = "fetch" /\ c.kind = "sql" /\ part <= Parts
  /\ Comparable(c, c.picked[part])
  /\ seen' = [r \in Rows |->
                More(r, /\ r \in Listed /\ Home[r] = TableOf(c.picked[part])
                        /\ Beyond(r, c.picked[part]))]
  /\ part' = part + 1
  /\ UNCHANGED <<c, phase, page, tries, mark, runs, held, changes, due, odd>>

QueryFails ==
  /\ phase = "fetch" /\ c.kind = "sql" /\ part <= Parts
  /\ Raise

\* Everything is read, and dlt advances the cursors to the highest values.
Highest(h, values) == h \in values /\ \A v \in values : v <= h
Values(t) ==
  {mark[t]}
    \cup {Hour[r] : r \in {s \in Rows : seen[s] > 0 /\ Home[s] = t /\ Incremental(s)}}

Extracted ==
  /\ phase = "fetch" /\ part > Parts
  /\ phase' = "load"
  /\ part' = 1 /\ page' = 0
  /\ mark' \in {m \in [Tables -> {-1} \cup {Hour[r] : r \in Rows}] :
                 \A t \in Tables : Highest(m[t], Values(t))}
  /\ UNCHANGED <<c, tries, seen, runs, held, changes, due, odd>>

Read == \/ Build \/ BuildFails \/ Answer \/ OddAnswer \/ Retry \/ RequestFails
        \/ Query \/ QueryFails \/ Extracted
-----------------------------------------------------------------------------
\* The source changes: a row appears at either end of the list, or vanishes.
Change ==
  /\ changes < MaxChanges
  /\ changes' = changes + 1
  /\ UNCHANGED <<c, phase, part, page, tries, seen, mark, runs>>

Appear(r) ==
  /\ r \notin Listed /\ Change
  /\ held' \in {<<r>> \o held, Append(held, r)}
  /\ UNCHANGED <<due, odd>>

Vanish(i) ==
  /\ Change
  /\ held' = SubSeq(held, 1, i - 1) \o SubSeq(held, i + 1, Len(held))
  /\ due' = due \ {held[i]}
  /\ odd' = (odd \/ (phase = "fetch" /\ c.kind # "sql"))

SourceInit ==
  /\ c \in Configs
  /\ phase = "idle"
  /\ held = First
  /\ part = 1 /\ page = 0 /\ tries = 0
  /\ seen = Nowhere
  /\ mark = [t \in Tables |-> -1]
  /\ runs = 0 /\ changes = 0
  /\ due = {} /\ odd = FALSE

SourceTypeOK ==
  /\ c \in Configs
  /\ held \in Seq(Rows)
  /\ part \in Nat /\ page \in Nat /\ tries \in Nat /\ runs \in Nat /\ changes \in Nat
  /\ seen \in [Rows -> 0..2]
  /\ mark \in [Tables -> Nat \cup {-1}]
  /\ due \subseteq Rows
  /\ odd \in BOOLEAN
=============================================================================
