------------------------------- MODULE ConnQueue -------------------------------
(* Conn of engine/sqlite.ts: every touch of the one wa-sqlite connection goes *)
(* through a promise lane, #tail; a statement may throw.  close() queues      *)
(* crsql_finalize(), awaits it, and only then queues the close itself, so     *)
(* statements called meanwhile run in between.                                *)
EXTENDS Naturals, Sequences

CONSTANTS
    Task,       \* handlers that use the connection; one of them may close it
    MaxCall     \* bound: statements called

Params == MaxCall \in Nat

VARIABLES
    lane,       \* the jobs chained on #tail and not settled, oldest first
    use,        \* the first of them: not started, running, or never to be left
    handle,     \* the connection: open, finalized or closed
    closing,    \* where close() is
    calls,      \* statements called so far
    missed      \* history: statements called before close() and not run, or run too late

vars == <<lane, use, handle, closing, calls, missed>>

\* early: called before close() was.
Job(by, does) == [by |-> by, does |-> does, early |-> closing = "no"]

Waits(t) == \E i \in DOMAIN lane : lane[i].by = t

\* One invariant for the shape of the state.
TypeOK ==
    /\ lane \in Seq([by : Task, does : {"statement", "finalize", "close"}, early : BOOLEAN])
    /\ use \in {"free", "busy", "stuck"}
    /\ handle \in {"open", "finalized", "closed"}
    /\ closing \in {"no", "finalizing", "closing", "done"}
    /\ calls \in 0 .. MaxCall /\ missed \in Nat

Init ==
    /\ lane = << >> /\ use = "free"
    /\ handle = "open" /\ closing = "no"
    /\ calls = 0 /\ missed = 0

\* exec, run, all and scalar: #lock chains one job; the caller awaits it.
Call(t) ==
    /\ ~Waits(t)
    /\ calls < MaxCall /\ calls' = calls + 1
    /\ lane' = Append(lane, Job(t, "statement"))
    /\ UNCHANGED <<use, handle, closing, missed>>

\* Mutant: crsql_finalize() does not go through the lane.
CloseAtOnce(t) ==
    /\ ~Waits(t) /\ closing = "no"
    /\ closing' = "closing" /\ handle' = "finalized"
    /\ lane' = Append(lane, Job(t, "close"))
    /\ UNCHANGED <<use, calls, missed>>

\* close(): finalize() is queued.
Close(t) ==
    /\ ~Waits(t) /\ closing = "no"
    /\ closing' = "finalizing"
    /\ lane' = Append(lane, Job(t, "finalize"))
    /\ UNCHANGED <<use, handle, calls, missed>>

\* The job before it has settled: the oldest one starts.
Start ==
    /\ lane # << >> /\ use = "free"
    /\ use' = "busy"
    /\ missed' = IF lane[1].does = "statement" /\ lane[1].early /\ handle # "open"
                 THEN missed + 1 ELSE missed
    /\ UNCHANGED <<lane, handle, closing, calls>>

\* Mutant: the lane is released only by a job that succeeds.
ThrowHolds ==
    /\ use = "busy" /\ use' = "stuck"
    /\ lane[1].does = "statement"
    /\ lane' = Tail(lane)
    /\ UNCHANGED <<handle, closing, calls, missed>>

\* A statement throws: its caller gets the error, and #tail is resolved.
Throw ==
    /\ use = "busy" /\ use' = "free"
    /\ lane[1].does = "statement"
    /\ lane' = Tail(lane)
    /\ UNCHANGED <<handle, closing, calls, missed>>

\* The job ends.  After crsql_finalize(), whose error is ignored, close() goes
\* on and queues the close.
Settle ==
    /\ use = "busy" /\ use' = "free"
    /\ \/ /\ lane[1].does = "statement"
          /\ lane' = Tail(lane)
          /\ UNCHANGED <<handle, closing>>
       \/ /\ lane[1].does = "finalize"
          /\ handle' = "finalized" /\ closing' = "closing"
          /\ lane' = Append(Tail(lane), Job(lane[1].by, "close"))
       \/ /\ lane[1].does = "close"
          /\ handle' = "closed" /\ closing' = "done"
          /\ lane' = Tail(lane)
    /\ UNCHANGED <<calls, missed>>

Next == \/ \E t \in Task : Call(t) \/ Close(t)
        \/ Start \/ Throw \/ Settle

Spec == Init /\ [][Next]_vars

\* Every statement of SQLite ends or throws, and the promise callbacks run;
\* nothing makes a handler call.
Steps == WF_vars(Start \/ Throw \/ Settle)

--------------------------------------------------------------------------------

\* "Execute one or more statements" (engine/sqlite.ts:56): what was called before
\* close() runs, on an open connection that has not been finalized, although
\* other statements throw and close() overtakes nobody.
EarlyCallsRun == missed = 0

\* Once the calls stop everybody has an answer: no statement that throws and no
\* close() leaves the lane blocked, whatever was queued behind it.
CallsAnswered == lane # << >> ~> lane = << >>

================================================================================
