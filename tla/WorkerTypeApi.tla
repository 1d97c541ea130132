---------------------------- MODULE WorkerTypeApi ----------------------------
(* The worker type table between the API's handlers (lib/api-v1.js): create,   *)
(* update and remove are chains of awaited operations on the table, the pulse  *)
(* publisher and the queue, and the chains of several callers interleave.  An  *)
(* operation that fails may have been carried out.                             *)
(*                                                                             *)
(* A client's calls carry the definition in its file, as those of the command  *)
(* line client do (lib/manage.js).  A request is dated when it arrives, to the *)
(* millisecond and by the clock of the process that serves it: two may have    *)
(* the same date, and a later one an earlier date.                             *)
EXTENDS LaunchSpec

CONSTANTS
    Client, Name,
    Body,           \* what a file may hold: definition, minCapacity, description
    Files,          \* which files the clients may have
    Omitted,        \* a minCapacity that was not given
    Date,           \* what new Date() may say when a request arrives
    Lifetime,       \* of a declaration, in units of time (36 of 12 hours)
    MaxCalls,       \* bound: requests that arrive
    MaxFaults       \* bound: operations that fail

ASSUME ApiAssumption ==
    /\ \A b \in Body :
          /\ b = [definition |-> b.definition, minCapacity |-> b.minCapacity,
                  description |-> b.description]
          /\ b.definition \in Definitions
    /\ Files \subseteq [Client -> Body] /\ Date \subseteq Nat \ {0}
    /\ Lifetime \in Nat /\ MaxCalls \in Nat /\ MaxFaults \in Nat

VARIABLES
    file,           \* what each client submits: never changed
    table,          \* the WorkerType table: an entity or none for each name
    call,           \* how far the call of each client is, or its answer
    queue,          \* the queue's record of each worker type
    calls, faults,
    failed          \* history: whether anything failed

apiVars == <<file, table, call, queue, calls, faults, failed>>

Absent == [lastModified |-> 0]
NoCall == [at |-> "none"]
Unknown == [description |-> "", left |-> 0]

Entity ==
    [definition : Definitions, minCapacity : {b.minCapacity : b \in Body},
     description : {b.description : b \in Body}, lastModified : Date]
Op    == {"create", "update", "remove"}
Await == {"insert", "load", "modify", "remove", "publish", "declare"}

ApiInit ==
    /\ file \in Files
    /\ table = [n \in Name |-> Absent]
    /\ call = [c \in Client |-> NoCall]
    /\ queue = [n \in Name |-> Unknown]
    /\ calls = 0 /\ faults = 0 /\ failed = FALSE

Fault == faults < MaxFaults /\ faults' = faults + 1

Answer(c, status, entity) ==
    call' = [call EXCEPT ![c] = [at |-> "reply", status |-> status, entity |-> entity]]

Advance(c, at) == call' = [call EXCEPT ![c].at = at]

(* Entity.create and modify, as far as the row is concerned.                   *)
Store(n, entity) == table' = [table EXCEPT ![n] = entity]

-----------------------------------------------------------------------------
(* A request arrives and is dated; its definition is validated before anything *)
(* is written.                                                                 *)
Receive(c, op, n, date) ==
    /\ call[c] = NoCall /\ calls < MaxCalls
    /\ op = "remove" \/ WorkerTypeCanLaunch(file[c].definition)
    /\ calls' = calls + 1
    /\ call' = [call EXCEPT ![c] =
                  [op |-> op, name |-> n, date |-> date, entity |-> Absent,
                   at |-> CASE op = "create" -> "insert"
                            [] op = "update" -> "load"
                            [] op = "remove" -> "remove"]]
    /\ UNCHANGED <<file, table, queue, faults, failed>>

(* InputError.                                                                 *)
Reject(c) ==
    /\ call[c] = NoCall
    /\ ~WorkerTypeCanLaunch(file[c].definition)
    /\ Answer(c, "error", Absent)
    /\ UNCHANGED <<file, table, queue, calls, faults, failed>>

(* Mutant: the date is left to the table.                                      *)
NewUndated(c) == Assign(file[c], [lastModified |-> 0])

New(c) == Assign(file[c], [lastModified |-> call[c].date])

(* createWorkerType: the entity is inserted, unless a property it needs is     *)
(* missing; if the name is taken, what is there is loaded in a second step ... *)
Insert(c) ==
    LET n == call[c].name IN
    /\ call[c].at = "insert"
    /\ \/ /\ file[c].minCapacity = Omitted
          /\ Answer(c, "error", Absent) /\ UNCHANGED table
       \/ /\ file[c].minCapacity # Omitted /\ table[n] = Absent
          /\ Store(n, New(c))
          /\ call' = [call EXCEPT ![c].at = "publish", ![c].entity = New(c)]
       \/ /\ file[c].minCapacity # Omitted /\ table[n] # Absent
          /\ Advance(c, "load") /\ UNCHANGED table
    /\ UNCHANGED <<file, queue, calls, faults, failed>>

Matches(entity, body) ==
    /\ entity.definition = body.definition
    /\ entity.minCapacity = body.minCapacity

(* Mutant: the name's being taken by this very call is taken for granted.      *)
CompareNothing(c) ==
    LET found == table[call[c].name] IN
    /\ call[c].at = "load" /\ call[c].op = "create"
    /\ IF found = Absent THEN Answer(c, "error", Absent)
       ELSE call' = [call EXCEPT ![c].at = "publish", ![c].entity = found]
    /\ UNCHANGED <<file, table, queue, calls, faults, failed>>

(* ... and compared, but for description, owner and date; it may be gone.      *)
Compare(c) ==
    LET found == table[call[c].name] IN
    /\ call[c].at = "load" /\ call[c].op = "create"
    /\ \/ found = Absent /\ Answer(c, "error", Absent)
       \/ /\ found # Absent /\ ~Matches(found, file[c])
          /\ Answer(c, "conflict", Absent)
       \/ /\ found # Absent /\ Matches(found, file[c])
          /\ call' = [call EXCEPT ![c].at = "publish", ![c].entity = found]
    /\ UNCHANGED <<file, table, queue, calls, faults, failed>>

(* updateWorkerType: the entity is loaded ...                                  *)
Load(c) ==
    /\ call[c].at = "load" /\ call[c].op = "update"
    /\ IF table[call[c].name] = Absent THEN Answer(c, "error", Absent)
       ELSE Advance(c, "modify")
    /\ UNCHANGED <<file, table, queue, calls, faults, failed>>

(* Key by key, so that a key that was not given keeps its value.               *)
Modified(c, old) ==
    Assign([file[c] EXCEPT !.minCapacity = IF @ = Omitted THEN old.minCapacity ELSE @],
           [lastModified |-> call[c].date])

(* ... and modified: modify() starts again from what is there if it changed.   *)
Modify(c) ==
    LET n == call[c].name
        old == table[n]
    IN  /\ call[c].at = "modify"
        /\ IF old = Absent THEN Answer(c, "error", Absent) /\ UNCHANGED table
           ELSE /\ Store(n, Modified(c, old))
                /\ call' = [call EXCEPT ![c].at = "publish",
                                        ![c].entity = Modified(c, old)]
        /\ UNCHANGED <<file, queue, calls, faults, failed>>

(* removeWorkerType, which minds not whether there was one.                    *)
Remove(c) ==
    /\ call[c].at = "remove"
    /\ table' = [table EXCEPT ![call[c].name] = Absent]
    /\ Advance(c, "publish")
    /\ UNCHANGED <<file, queue, calls, faults, failed>>

(* The pulse message.                                                          *)
Publish(c) ==
    /\ call[c].at = "publish"
    /\ IF call[c].op = "remove" THEN Answer(c, "ok", Absent)
       ELSE Advance(c, "declare")
    /\ UNCHANGED <<file, table, queue, calls, faults, failed>>

(* Mutant: declarations end before the loop comes round.                       *)
DeclarationForADay(entity) ==
    [description |-> entity.description, left |-> Lifetime - 1]

(* declareWorkerType, of the entity as the caller holds it.                    *)
Declaration(entity) == [description |-> entity.description, left |-> Lifetime]

Declare(c) ==
    /\ call[c].at = "declare"
    /\ queue' = [queue EXCEPT ![call[c].name] = Declaration(call[c].entity)]
    /\ Answer(c, "ok", call[c].entity)
    /\ UNCHANGED <<file, table, calls, faults, failed>>

(* The answer is on its way.                                                   *)
Reply(c) ==
    /\ call[c].at = "reply"
    /\ call' = [call EXCEPT ![c] = NoCall]
    /\ UNCHANGED <<file, table, queue, calls, faults, failed>>

(* An operation fails, carried out or not, and with it the call.               *)
CallFault(c) ==
    LET n == call[c].name IN
    /\ call[c].at \in Await /\ Fault
    /\ Answer(c, "error", Absent)
    /\ failed' = TRUE
    /\ \/ UNCHANGED <<table, queue>>
       \/ /\ call[c].at = "insert" /\ table[n] = Absent
          /\ file[c].minCapacity # Omitted
          /\ Store(n, New(c)) /\ UNCHANGED queue
       \/ /\ call[c].at = "modify" /\ table[n] # Absent
          /\ Store(n, Modified(c, table[n])) /\ UNCHANGED queue
       \/ /\ call[c].at = "remove"
          /\ table' = [table EXCEPT ![n] = Absent] /\ UNCHANGED queue
       \/ /\ call[c].at = "declare"
          /\ queue' = [queue EXCEPT ![n] = Declaration(call[c].entity)]
          /\ UNCHANGED table
    /\ UNCHANGED <<file, calls>>

Proceed(c) ==
    \/ Insert(c) \/ Compare(c) \/ Load(c) \/ Modify(c) \/ Remove(c)
    \/ Publish(c) \/ Declare(c) \/ Reply(c)

ApiNext ==
    \E c \in Client :
        \/ \E op \in Op, n \in Name, date \in Date : Receive(c, op, n, date)
        \/ Reject(c) \/ Proceed(c) \/ CallFault(c)

-----------------------------------------------------------------------------
ApiTypeOK ==
    /\ file \in [Client -> Body]
    /\ table \in [Name -> Entity \cup {Absent}]
    /\ \A c \in Client :
          \/ call[c] = NoCall
          \/ /\ call[c].at = "reply"
             /\ call[c].status \in {"ok", "conflict", "error"}
             /\ call[c].entity \in Entity \cup {Absent}
          \/ /\ call[c].op \in Op /\ call[c].name \in Name
             /\ call[c].date \in Date /\ call[c].at \in Await
             /\ call[c].entity \in Entity \cup {Absent}
    /\ queue \in [Name -> [description : {b.description : b \in Body} \cup {""},
                           left : 0 .. Lifetime]]
    /\ calls \in 0 .. MaxCalls /\ faults \in 0 .. MaxFaults
    /\ failed \in BOOLEAN

(* Every bid for a stored definition has a launch specification, whichever     *)
(* calls it came through: a definition is tested for one zone per region when  *)
(* it lists none, while its bids may be in any.  A bid without a specification *)
(* fails in spawn(), iteration after iteration, and its capacity never comes.  *)
(* Excepted (FallbackInPlace) are definitions that list a region's zone "a"    *)
(* under another region: the one zone tested passes, and other bids fail.      *)
StoredLaunches ==
    \A n \in Name :
        table[n] # Absent /\ FallbackInPlace(table[n].definition) =>
            \A bid \in BidsFor(table[n].definition) :
                CanCreate(table[n].definition, bid)

(* What an instance of a stored definition is launched from was looked up in   *)
(* the account before the definition was stored, for instances in any zone,    *)
(* unless (ZonesNeutral) a zone has an image or groups of its own: then only   *)
(* the zone listed last was looked at.  FallbackInPlace as above.              *)
StoredFromChecked ==
    \A n \in Name :
        table[n] # Absent => FromChecked(table[n].definition)

(* The calls as the abstract table has them: one is done when its effect on    *)
(* the table is, and then publishes and declares.                              *)
AbstractCall(c) ==
    IF call[c] = NoCall THEN [phase |-> "none"]
    ELSE IF call[c].at \in {"publish", "declare"}
         THEN [phase |-> "done", status |-> "ok", entity |-> call[c].entity]
    ELSE IF call[c].at = "reply"
         THEN [phase |-> "done", status |-> call[c].status, entity |-> call[c].entity]
         ELSE [phase |-> "called", op |-> call[c].op, name |-> call[c].name,
               body |-> file[c], date |-> call[c].date]

Table == INSTANCE DefinitionTable WITH call <- [c \in Client |-> AbstractCall(c)]

(* However the chains of operations of several callers interleave and fail,    *)
(* each call takes effect at one instant, and its answer tells what it met.    *)
KeepsTable == Table!Spec
=============================================================================
