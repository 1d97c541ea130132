----------------------------- MODULE DeclareLoop -----------------------------
(* How the queue comes to know the worker types: the API's handlers declare    *)
(* one when they store it, and a loop (lib/main.js, declare) declares all of   *)
(* them again every 24 hours, as declarations end after 36.  A round of the    *)
(* loop that fails is not repeated before the next one is due.                 *)
(*                                                                             *)
(* The unit of time is 12 hours; calls and rounds take no time beside it.      *)
EXTENDS WorkerTypeApi

CONSTANT Period     \* of the rounds, in units of time (24 of 12 hours)

ASSUME PeriodAssumption == Period \in Nat

VARIABLES
    wait,           \* units until the next round is due
    round,          \* "none", or "scanning" the table
    unread,         \* names the scan has not reached
    sends           \* declarations of the loop on their way to the queue

loopVars == <<wait, round, unread, sends>>
vars     == <<apiVars, loopVars>>

Quiet == (\A c \in Client : call[c] = NoCall) /\ round = "none" /\ sends = {}

Init ==
    /\ ApiInit
    /\ wait = 0 /\ round = "none" /\ unread = {} /\ sends = {}

-----------------------------------------------------------------------------
(* A round begins and the provisioner itself is declared.                      *)
StartRound ==
    /\ round = "none" /\ wait = 0
    /\ round' = "scanning" /\ unread' = Name
    /\ UNCHANGED <<apiVars, wait, sends>>

(* Mutant: worker types the queue knows of are left alone.                     *)
ScanUndeclared(n) ==
    /\ round = "scanning" /\ n \in unread
    /\ unread' = unread \ {n}
    /\ sends' = IF table[n] = Absent \/ queue[n].left > 0 THEN sends
                ELSE sends \cup {[name |-> n, entity |-> table[n]]}
    /\ UNCHANGED <<apiVars, wait, round>>

(* The scan reaches an entity, and its handler declares it as it was read.     *)
Scan(n) ==
    /\ round = "scanning" /\ n \in unread
    /\ unread' = unread \ {n}
    /\ sends' = IF table[n] = Absent THEN sends
                ELSE sends \cup {[name |-> n, entity |-> table[n]]}
    /\ UNCHANGED <<apiVars, wait, round>>

Land(s) == queue' = [queue EXCEPT ![s.name] = Declaration(s.entity)]

SendLands(s) ==
    /\ s \in sends
    /\ sends' = sends \ {s}
    /\ Land(s)
    /\ UNCHANGED <<file, table, call, calls, faults, failed,
                   wait, round, unread>>

EndRound == round' = "none" /\ unread' = {} /\ wait' = Period

RoundDone ==
    /\ round = "scanning" /\ unread = {} /\ sends = {}
    /\ EndRound
    /\ UNCHANGED <<apiVars, sends>>

(* A call of the round fails, declaring the provisioner, scanning or declaring *)
(* a worker type, carried out or not.  The round ends; declarations under way  *)
(* go on.                                                                      *)
RoundFault ==
    /\ round = "scanning" /\ Fault
    /\ EndRound
    /\ failed' = TRUE
    /\ \/ UNCHANGED <<queue, sends>>
       \/ \E s \in sends :
             /\ sends' = sends \ {s}
             /\ Land(s) \/ UNCHANGED queue
    /\ UNCHANGED <<file, table, call, calls>>

(* The process dies and is started again, and a round is due at once.          *)
Crash ==
    /\ Fault
    /\ round' = "none" /\ unread' = {} /\ wait' = 0
    /\ sends' \in SUBSET sends
    /\ UNCHANGED <<file, table, call, queue, calls, failed>>

(* Time passes, and declarations end.                                          *)
Tick ==
    /\ Quiet /\ wait > 0
    /\ wait' = wait - 1
    /\ queue' = [n \in Name |->
                   IF queue[n].left <= 1 THEN Unknown
                   ELSE [queue[n] EXCEPT !.left = @ - 1]]
    /\ UNCHANGED <<file, table, call, calls, faults, failed,
                   round, unread, sends>>

Loop ==
    \/ StartRound \/ RoundDone
    \/ \E n \in Name : Scan(n)
    \/ \E s \in sends : SendLands(s)

Next ==
    \/ ApiNext /\ UNCHANGED loopVars
    \/ Loop \/ RoundFault \/ Crash \/ Tick

(* Calls go on until they are answered, the loop goes round, time passes.      *)
Spec ==
    /\ Init /\ [][Next]_vars
    /\ \A c \in Client : WF_vars(Proceed(c) /\ UNCHANGED loopVars)
    /\ WF_vars(Loop) /\ WF_vars(Tick)

-----------------------------------------------------------------------------
TypeOK ==
    /\ ApiTypeOK
    /\ wait \in 0 .. Period
    /\ round \in {"none", "scanning"}
    /\ unread \subseteq Name
    /\ sends \subseteq [name : Name, entity : Entity]

(* As long as nothing failed, the queue knows every stored worker type: the    *)
(* period, the lifetime, the handlers' declarations and restarts fit together. *)
(* (Let one declaration or one round fail, and there may be a gap.)            *)
LapsesOnlyAfterFailure ==
    ~failed /\ (\A c \in Client : call[c] = NoCall) =>
        \A n \in Name : table[n] # Absent => queue[n].left > 0

(* Once calls and failures stop, the queue comes to know each worker type by   *)
(* the description stored for it, and those that were removed no more, however *)
(* stale the declarations were that came in last.                              *)
QueueCatchesUp ==
    <>[](\A n \in Name :
            IF table[n] = Absent THEN queue[n] = Unknown
            ELSE queue[n].left > 0 /\ queue[n].description = table[n].description)
=============================================================================
