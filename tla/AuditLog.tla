------------------------------- MODULE AuditLog -------------------------------
(***************************************************************************)
(* What the audit log keeps (src/audit.rs): requests that append rows, the *)
(* master's retention window, and prunes by the master's requests          *)
(* (src/web/mod.rs) and by the background task of src/main.rs, statement   *)
(* by statement, against a clock.  Which requests append a row is the      *)
(* subject of Handlers.                                                    *)
(*                                                                         *)
(* A row is its timestamp: rows of one instant are kept or deleted alike.  *)
(* A tick is a quarter of a day, and with two binary digits after the      *)
(* point a timestamp has all the shapes of the real one: chrono leaves out *)
(* a fraction that is zero, and trailing groups of zeros in the others.    *)
(* Signatures are left out: a row is signed with the only master key there *)
(* ever is (SealLifecycle).                                                *)
(*                                                                         *)
(* Definitions marked "mutant" are no part of the specification: each is a *)
(* plausible mistake in the definition that follows it, put in its place   *)
(* to see that a property notices.                                         *)
(***************************************************************************)
EXTENDS Integers, Sequences, FiniteSets

CONSTANTS
  Procs,   \* requests that may be in flight at once
  MaxDays, \* longest retention window, in days, the clock can subtract
  MaxRows, \* bound: rows of different instants in the log at once
  MaxTime  \* bound: the clock stops here

Pruner == "pruner" \* the background task
ASSUME PrunerAssumption == Pruner \notin Procs

TicksPerDay == 4
ASSUME BoundsAssumption ==
  /\ MaxDays \in Nat \ {0} /\ MaxRows \in Nat
  /\ MaxTime \in Nat /\ MaxTime >= MaxDays * TicksPerDay

Start == MaxDays * TicksPerDay \* late enough for every cutoff to have a date
Time == Start..MaxTime

Forever == 0            \* the setting that keeps every row
Absurd == MaxDays + 1   \* a setting whose cutoff chrono cannot compute
Windows == Forever..Absurd

VARIABLES
  now,    \* the clock
  log,    \* timestamps of the rows of audit_log
  window, \* the retention setting, in days
  op      \* op[q]: what request or task q is about to do

vars == <<now, log, window, op>>

Actors == Procs \cup {Pruner}
Step == {"idle", "insert", "store", "read", "cut", "delete", "dead"}
Request == [step : Step, time : 0..MaxTime, days : Windows]
Idle == [step |-> "idle", time |-> 0, days |-> Forever]
At(q, step) == op[q].step = step
Begin(q, request) == op[q] = Idle /\ op' = [op EXCEPT ![q] = request]
Goto(q, step) == op' = [op EXCEPT ![q] = [Idle EXCEPT !.step = step]]
Finish(q) == op' = [op EXCEPT ![q] = Idle]

\* The background task prunes at startup.
Init ==
  /\ now = Start
  /\ log = {}
  /\ window = Forever
  /\ op = [q \in Actors |->
             IF q = Pruner THEN [Idle EXCEPT !.step = "read"] ELSE Idle]

-----------------------------------------------------------------------------
(* Timestamps as text                                                       *)

\* Characters, in the order in which SQLite compares them.
Plus == 0
Dot == 1
Digit(n) == 2 + n
Letter == 2 + MaxTime

Fraction(time) ==
  LET half == (time \div 2) % 2
      quarter == time % 2 IN
  IF quarter = 1 THEN <<Dot, Digit(half), Digit(1)>>
  ELSE IF half = 1 THEN <<Dot, Digit(1)>>
  ELSE <<>>

\* to_rfc3339: the date, the fraction, and the offset "+00:00".
StampZ(time) == <<Digit(time \div TicksPerDay)>> \o Fraction(time) \o <<Letter>> \* mutant
Stamp(time) == <<Digit(time \div TicksPerDay)>> \o Fraction(time) \o <<Plus>>

\* timestamp < ? on TEXT: lexicographic.
Precedes(s, t) ==
  \E n \in 0..Len(s) :
    /\ n < Len(t)
    /\ \A i \in 1..n : s[i] = t[i]
    /\ n = Len(s) \/ s[n + 1] < t[n + 1]

-----------------------------------------------------------------------------
(* Appending                                                                *)

\* record stamps the row ...
RecordBegin(p) ==
  /\ Begin(p, [Idle EXCEPT !.step = "insert", !.time = now])
  /\ UNCHANGED <<now, log, window>>

\* ... and inserts it later.  When the INSERT fails the row is lost (Fail).
Insert(p) ==
  /\ At(p, "insert")
  /\ Cardinality(log) < MaxRows
  /\ log' = log \cup {op[p].time}
  /\ Finish(p)
  /\ UNCHANGED <<now, window>>

-----------------------------------------------------------------------------
(* The retention window                                                     *)

\* parse, unwrap_or(0) and max(0): what the master's input comes to.
ParsedOnly(input) == input \* mutant
Parsed(input) == IF input \in Windows THEN input ELSE Forever

\* audit_retention_set, with a number of days or something else.
SetBegin(p, input) ==
  /\ Begin(p, [Idle EXCEPT !.step = "store", !.days = Parsed(input)])
  /\ UNCHANGED <<now, log, window>>

\* set_retention_days; the handler prunes next.
Store(p) ==
  /\ At(p, "store")
  /\ window' = op[p].days
  /\ Goto(p, "read")
  /\ UNCHANGED <<now, log>>

\* audit_prune_now.
PruneBegin(p) ==
  /\ Begin(p, [Idle EXCEPT !.step = "read"])
  /\ UNCHANGED <<now, log, window>>

-----------------------------------------------------------------------------
(* prune                                                                    *)

\* With the window Forever, prune does nothing.
NoneIsForever(days) == FALSE \* mutant
Keeps(days) == days = Forever

NextRound(q) == Idle

\* retention_days, in one statement ...
ReadWindow(q) ==
  /\ At(q, "read")
  /\ op' = [op EXCEPT ![q] = IF Keeps(window) THEN NextRound(q)
                             ELSE [Idle EXCEPT !.step = "cut", !.days = window]]
  /\ UNCHANGED <<now, log, window>>

\* ... the cutoff, a window before the time it is by then ...
Cut(q) ==
  /\ At(q, "cut")
  /\ op[q].days # Absurd
  /\ op' = [op EXCEPT ![q].step = "delete",
                      ![q].time = now - op[q].days * TicksPerDay]
  /\ UNCHANGED <<now, log, window>>

\* ... which panics if the window is absurdly long: the end of a request, and
\* of the background task until the process starts again ...
Panic(q) ==
  /\ At(q, "cut")
  /\ op[q].days = Absurd
  /\ IF q = Pruner THEN Goto(q, "dead") ELSE Finish(q)
  /\ UNCHANGED <<now, log, window>>

\* ... and the DELETE, in another.
Delete(q) ==
  /\ At(q, "delete")
  /\ log' = {row \in log : ~Precedes(Stamp(row), Stamp(op[q].time))}
  /\ op' = [op EXCEPT ![q] = NextRound(q)]
  /\ UNCHANGED <<now, window>>

\* Six hours later the task prunes again.
Wake ==
  /\ Begin(Pruner, [Idle EXCEPT !.step = "read"])
  /\ UNCHANGED <<now, log, window>>

-----------------------------------------------------------------------------
(* Time and failures                                                        *)

Tick ==
  /\ now < MaxTime
  /\ now' = now + 1
  /\ UNCHANGED <<log, window, op>>

\* A statement fails, or a request is cut off; the task goes on to sleep.
Fail(q) ==
  /\ op[q].step \notin {"idle", "dead"}
  /\ Finish(q)
  /\ UNCHANGED <<now, log, window>>

\* The process stops and starts again; the task starts with a prune.
Restart ==
  /\ op' = [q \in Actors |->
              IF q = Pruner THEN [Idle EXCEPT !.step = "read"] ELSE Idle]
  /\ UNCHANGED <<now, log, window>>

-----------------------------------------------------------------------------
PruneStep(q) == ReadWindow(q) \/ Cut(q) \/ Panic(q) \/ Delete(q)

RequestStep(p) ==
  \/ RecordBegin(p) \/ Insert(p)
  \/ \E input \in -1..Absurd : SetBegin(p, input)
  \/ Store(p) \/ PruneBegin(p) \/ PruneStep(p)

Disturbance == Restart \/ \E q \in Actors : Fail(q)

Next ==
  \/ \E p \in Procs : RequestStep(p)
  \/ PruneStep(Pruner) \/ Wake
  \/ Tick
  \/ Disturbance

Spec == Init /\ [][Next]_vars

\* The runtime wakes the task after its sleep and runs it.
FairSpec == Spec /\ WF_vars(PruneStep(Pruner)) /\ WF_vars(Wake)

-----------------------------------------------------------------------------
\* Every variable has its type, and nothing carries a time to come.
TypeOK ==
  /\ now \in Time
  /\ log \subseteq Start..now
  /\ window \in Windows
  /\ op \in [Actors -> Request]
  /\ \A q \in Actors : op[q].time <= now

\* A row goes only in a prune that read a retention window, and only when it
\* is really older than that window, however the DELETE compares text and
\* however the window changes under way; with the window Forever, and with one
\* too long to compute, none goes (prune in audit.rs).
OnlyOldRowsGo ==
  [][\A row \in log \ log' : \E q \in Actors :
       /\ Delete(q)
       /\ op[q].days \notin {Forever, Absurd}
       /\ row < now - op[q].days * TicksPerDay]_vars

\* The rows that can be overdue before the clock stops.
Aging == {row \in Time : row < MaxTime - TicksPerDay}

Overdue ==
  {row \in log : window # Forever /\ row < now - window * TicksPerDay}

===============================================================================
