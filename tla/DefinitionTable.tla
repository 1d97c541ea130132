--------------------------- MODULE DefinitionTable ---------------------------
(* What the worker type API promises its callers, whatever their number: each  *)
(* call takes effect on the table at one instant between request and answer,   *)
(* and an answer other than an error says what the table was at that instant.  *)
EXTENDS Integers

CONSTANTS
    Client, Name,
    Body,           \* what a request carries
    Omitted         \* a minimum capacity that was not given

VARIABLES
    table,          \* the definition stored under each name, or none
    call            \* the call of each client: none, called, or done

vars == <<table, call>>

Absent  == [lastModified |-> 0]
NoCall  == [phase |-> "none"]
Request == [phase : {"called"}, op : {"create", "update", "remove"}, name : Name,
            body : Body, date : Nat \ {0}]

Init ==
    /\ table = [n \in Name |-> Absent]
    /\ call = [c \in Client |-> NoCall]

Done(c, status, entity) ==
    call' = [call EXCEPT ![c] = [phase |-> "done", status |-> status, entity |-> entity]]

(* The definition a request stores; an update that does not give the minimum   *)
(* keeps the one there was.                                                    *)
Stored(r, old) ==
    [definition   |-> r.body.definition,
     minCapacity  |-> IF r.op = "update" /\ r.body.minCapacity = Omitted
                      THEN old.minCapacity ELSE r.body.minCapacity,
     description  |-> r.body.description,
     lastModified |-> r.date]

Agrees(entity, r) ==
    /\ entity.definition = r.body.definition
    /\ entity.minCapacity = r.body.minCapacity

(* What a call makes of the entity it finds.                                   *)
Effect(r, old) ==
    CASE r.op = "remove"                    -> Absent
      [] r.op = "create" /\ old # Absent    -> old
      [] OTHER                              -> Stored(r, old)

-----------------------------------------------------------------------------
Call(c) ==
    /\ call[c] = NoCall
    /\ call'[c] \in Request
    /\ call' = [call EXCEPT ![c] = call'[c]]
    /\ UNCHANGED table

(* A create finds nothing or a definition that agrees, an update finds one.    *)
TakeEffect(c) ==
    LET r == call[c]
        old == table[r.name]
    IN  /\ r.phase = "called"
        /\ r.op = "create" => old = Absent \/ Agrees(old, r)
        /\ r.op = "update" => old # Absent
        /\ table' = [table EXCEPT ![r.name] = Effect(r, old)]
        /\ Done(c, "ok", Effect(r, old))

(* A create finds a definition that does not agree.                            *)
Refuse(c) ==
    /\ call[c].phase = "called" /\ call[c].op = "create"
    /\ table[call[c].name] # Absent /\ ~Agrees(table[call[c].name], call[c])
    /\ Done(c, "conflict", Absent)
    /\ UNCHANGED table

(* The client gets its answer.                                                 *)
Return(c) ==
    /\ call[c].phase = "done"
    /\ call' = [call EXCEPT ![c] = NoCall]
    /\ UNCHANGED table

(* An error says nothing: the call may have taken effect.                      *)
GiveUp(c) ==
    /\ \/ UNCHANGED table
       \/ /\ call[c].phase = "called"
          /\ call[c].op = "update" => table[call[c].name] # Absent
          /\ table' = [table EXCEPT ![call[c].name] =
                         Effect(call[c], table[call[c].name])]
    /\ Done(c, "error", Absent)

Next ==
    \E c \in Client :
        Call(c) \/ TakeEffect(c) \/ Refuse(c) \/ Return(c) \/ GiveUp(c)

Spec == Init /\ [][Next]_vars
=============================================================================
