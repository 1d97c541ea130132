---------------------------- MODULE SecretStore ----------------------------
(* The secrets handed to instances: the provisioner's spawn() stores a secret  *)
(* under a fresh token and then requests the instance that carries the token   *)
(* (lib/provision.js); workers fetch and remove it through the API's handlers  *)
(* (lib/api-v1.js), each a chain of operations on single rows of the Secret    *)
(* table.  Handlers of several callers interleave between any two operations,  *)
(* and an operation that fails may have been carried out; one that stores a    *)
(* secret, or requests an instance, may be carried out later.                  *)
EXTENDS Integers, Functions

CONSTANTS
    Client,         \* callers of the API
    SpawnToken,     \* tokens spawn() draws, which nobody else makes up
    ApiToken,       \* tokens that callers of createSecret choose
    Content,        \* what a secret holds
    MaxFaults       \* bound: operations that fail

ASSUME SecretStoreAssumption ==
    /\ SpawnToken \cap ApiToken = {}
    /\ MaxFaults \in Nat

Token == SpawnToken \cup ApiToken

VARIABLES
    store,          \* the Secret table: tokens to contents
    expired,        \* tokens whose secret is past its expiration
    spawn,          \* how far spawn() is with a token
    wanted,         \* the content spawn() stores under it
    instances,      \* tokens that an instance carries
    late,           \* tokens whose request was given up, to be carried out yet
    arriving,       \* secrets whose storing was given up, to be carried out yet
    call,           \* the API call each client waits for
    reply,          \* the last reply it got
    taken,          \* history: secrets handed over, removed or hit by a fault
    spent,          \* history: tokens whose secret a client was told is gone
    handed,         \* history: how often each was handed over
    faults

secrets == <<store, taken, spent, handed>>
spawns  == <<spawn, wanted, instances, late>>
clients == <<call, reply>>
vars    == <<secrets, arriving, expired, spawns, clients, faults>>

Idle   == [op |-> "none"]
Gets   == [op : {"get"}, token : Token, content : Content]
Puts   == [op : {"create"}, token : Token, content : Content]
Rows   == [token : Token, content : Content]

Init ==
    /\ store = <<>>
    /\ expired = {}
    /\ spawn = [t \in SpawnToken |-> "fresh"]
    /\ wanted \in [SpawnToken -> Content]
    /\ instances = {} /\ late = {} /\ arriving = {}
    /\ call = [c \in Client |-> Idle]
    /\ reply = [c \in Client |-> "none"]
    /\ taken = {} /\ spent = {}
    /\ handed = [t \in Token |-> 0]
    /\ faults = 0

Fault == faults < MaxFaults /\ faults' = faults + 1

(* Entity.create on a row that is not there, and Entity.remove.                *)
Insert(t, k) ==
    /\ store' = [x \in DOMAIN store \cup {t} |-> IF x = t THEN k ELSE store[x]]
    /\ taken' = taken \ {t} /\ UNCHANGED spent
    /\ handed' = [handed EXCEPT ![t] = 0]
    /\ expired' = expired \ {t}

(* One that fails is carried out, or not, or later.                            *)
GiveUp(t, k) ==
    \/ t \notin DOMAIN store /\ Insert(t, k) /\ UNCHANGED arriving
    \/ UNCHANGED <<secrets, expired, arriving>>
    \/ /\ arriving' = arriving \cup {[token |-> t, content |-> k]}
       /\ UNCHANGED <<secrets, expired>>

Delete(t) == store' = Restrict(store, DOMAIN store \ {t})

-----------------------------------------------------------------------------
(* spawn(): the secret first, then the request.                                *)

(* Mutant: a secret that could not be stored does not stop the request.        *)
SpawnCreateFaultIgnored(t) ==
    /\ spawn[t] = "fresh"
    /\ Fault
    /\ spawn' = [spawn EXCEPT ![t] = "created"]
    /\ GiveUp(t, wanted[t])
    /\ UNCHANGED <<wanted, instances, late, clients>>

SpawnCreate(t) ==
    /\ spawn[t] = "fresh"
    /\ Insert(t, wanted[t])
    /\ spawn' = [spawn EXCEPT ![t] = "created"]
    /\ UNCHANGED <<arriving, wanted, instances, late, clients, faults>>

SpawnCreateFault(t) ==
    /\ spawn[t] = "fresh"
    /\ Fault
    /\ spawn' = [spawn EXCEPT ![t] = "aborted"]
    /\ GiveUp(t, wanted[t])
    /\ UNCHANGED <<wanted, instances, late, clients>>

(* A row that has been stored meanwhile is left alone.                         *)
LateCreate(row) ==
    /\ row \in arriving
    /\ arriving' = arriving \ {row}
    /\ IF row.token \in DOMAIN store THEN UNCHANGED <<secrets, expired>>
       ELSE Insert(row.token, row.content)
    /\ UNCHANGED <<spawns, clients, faults>>

RunInstance(t) ==
    /\ spawn[t] = "created"
    /\ spawn' = [spawn EXCEPT ![t] = "submitted"]
    /\ instances' = instances \cup {t}
    /\ UNCHANGED <<secrets, arriving, expired, wanted, late, clients, faults>>

(* Mutant: a request that failed is retried, with its secret.                  *)
RunInstanceFaultRetried(t) ==
    /\ spawn[t] = "created"
    /\ Fault
    /\ spawn' = [spawn EXCEPT ![t] = "fresh"]
    /\ \/ UNCHANGED <<instances, late>>
       \/ instances' = instances \cup {t} /\ UNCHANGED late
       \/ late' = late \cup {t} /\ UNCHANGED instances
    /\ UNCHANGED <<secrets, arriving, expired, wanted, clients>>

(* The request fails or times out; nobody takes the secret back.               *)
RunInstanceFault(t) ==
    /\ spawn[t] = "created"
    /\ Fault
    /\ spawn' = [spawn EXCEPT ![t] = "aborted"]
    /\ \/ UNCHANGED <<instances, late>>
       \/ instances' = instances \cup {t} /\ UNCHANGED late
       \/ late' = late \cup {t} /\ UNCHANGED instances
    /\ UNCHANGED <<secrets, arriving, expired, wanted, clients>>

LateInstance(t) ==
    /\ t \in late
    /\ late' = late \ {t}
    /\ instances' = instances \cup {t}
    /\ UNCHANGED <<secrets, arriving, expired, spawn, wanted, clients, faults>>

Expire(t) ==
    /\ t \in DOMAIN store \ expired
    /\ expired' = expired \cup {t}
    /\ UNCHANGED <<secrets, arriving, spawns, clients, faults>>

-----------------------------------------------------------------------------
(* The API.  A token that spawn() drew is known from its instance's user data  *)
(* alone.                                                                      *)
Knows(t) == t \in ApiToken \cup instances

Answer(c, what) ==
    /\ reply' = [reply EXCEPT ![c] = what]
    /\ call' = [call EXCEPT ![c] = Idle]

Tell(tokens) == spent' = spent \cup tokens

(* createSecret: a new token is stored.  One that exists is loaded and compared*)
(* in a second step.                                                           *)
CreateSecret(c, t, k) ==
    /\ call[c] = Idle
    /\ IF t \notin DOMAIN store
       THEN Insert(t, k) /\ Answer(c, "success")
       ELSE /\ call' = [call EXCEPT ![c] = [op |-> "create", token |-> t, content |-> k]]
            /\ UNCHANGED <<secrets, expired, reply>>
    /\ UNCHANGED <<arriving, spawns, faults>>

(* Mutant: a secret that differs leaves the request without an answer.         *)
CompareSecretUnanswered(c) ==
    /\ call[c].op = "create"
    /\ Answer(c, IF call[c].token \notin DOMAIN store THEN "notFound"
                 ELSE IF store[call[c].token] = call[c].content THEN "success"
                 ELSE "undefined")
    /\ UNCHANGED <<secrets, arriving, expired, spawns, faults>>

CompareSecret(c) ==
    /\ call[c].op = "create"
    /\ Answer(c, IF call[c].token \notin DOMAIN store THEN "notFound"
                 ELSE IF store[call[c].token] = call[c].content THEN "success"
                 ELSE "conflict")
    /\ UNCHANGED <<secrets, arriving, expired, spawns, faults>>

CreateSecretFault(c, t, k) ==
    /\ call[c] = Idle
    /\ Fault
    /\ Answer(c, "error")
    /\ GiveUp(t, k)
    /\ UNCHANGED spawns

(* getSecret: load the secret ...                                              *)
GetSecret(c, t) ==
    /\ call[c] = Idle /\ Knows(t)
    /\ IF t \notin DOMAIN store \/ t \in expired
       THEN Answer(c, "notFound") /\ Tell(IF t \in DOMAIN store THEN {} ELSE {t})
       ELSE /\ call' = [call EXCEPT ![c] = [op |-> "get", token |-> t,
                                            content |-> store[t]]]
            /\ UNCHANGED <<reply, spent>>
    /\ UNCHANGED <<store, taken, handed, arriving, expired, spawns, faults>>

(* ... and remove it, whether or not it is still there, before handing it over.*)
HandOver(c) ==
    /\ call[c].op = "get"
    /\ Delete(call[c].token)
    /\ Answer(c, call[c].content)
    /\ taken' = taken \cup {call[c].token}
    /\ Tell({call[c].token})
    /\ handed' = [handed EXCEPT ![call[c].token] = @ + 1]
    /\ UNCHANGED <<arriving, expired, spawns, faults>>

(* The second step of a call fails, and the secret is not handed over, although*)
(* its removal may have been carried out.                                      *)
CallFault(c) ==
    /\ call[c].op \in {"get", "create"}
    /\ Fault
    /\ Answer(c, "error")
    /\ \/ UNCHANGED <<store, taken>>
       \/ /\ call[c].op = "get"
          /\ Delete(call[c].token)
          /\ taken' = taken \cup {call[c].token}
    /\ UNCHANGED <<spent, handed, arriving, expired, spawns>>

(* removeSecret, which succeeds on a secret that is gone as well.              *)
RemoveSecret(c, t) ==
    /\ call[c] = Idle /\ Knows(t)
    /\ Delete(t)
    /\ Answer(c, "success")
    /\ taken' = taken \cup {t}
    /\ Tell({t})
    /\ UNCHANGED <<handed, arriving, expired, spawns, faults>>

RemoveSecretFault(c, t) ==
    /\ call[c] = Idle /\ Knows(t)
    /\ Fault
    /\ Answer(c, "error")
    /\ taken' = taken \cup {t}
    /\ Delete(t) \/ UNCHANGED store
    /\ UNCHANGED <<spent, handed, arriving, expired, spawns>>

(* instanceStarted only looks whether the token has a secret.                  *)
InstanceStarted(c, t) ==
    /\ call[c] = Idle /\ Knows(t)
    /\ Answer(c, IF t \in DOMAIN store THEN "success" ELSE "notFound")
    /\ Tell(IF t \in DOMAIN store THEN {} ELSE {t})
    /\ UNCHANGED <<store, taken, handed, arriving, expired, spawns, faults>>

(* A load fails before anything was changed.                                   *)
LoadFault(c) ==
    /\ call[c] = Idle
    /\ Fault
    /\ Answer(c, "error")
    /\ UNCHANGED <<secrets, arriving, expired, spawns>>

-----------------------------------------------------------------------------
Next ==
    \/ \E t \in SpawnToken :
          \/ SpawnCreate(t) \/ SpawnCreateFault(t)
          \/ RunInstance(t) \/ RunInstanceFault(t) \/ LateInstance(t)
    \/ \E row \in Rows : LateCreate(row)
    \/ \E t \in Token : Expire(t)
    \/ \E c \in Client :
          CompareSecret(c) \/ HandOver(c) \/ CallFault(c) \/ LoadFault(c)
    \/ \E c \in Client, t \in ApiToken, k \in Content :
          CreateSecret(c, t, k) \/ CreateSecretFault(c, t, k)
    \/ \E c \in Client, t \in Token :
          \/ GetSecret(c, t) \/ InstanceStarted(c, t)
          \/ RemoveSecret(c, t) \/ RemoveSecretFault(c, t)

Spec == Init /\ [][Next]_vars

-----------------------------------------------------------------------------
TypeOK ==
    /\ store \in UNION {[names -> Content] : names \in SUBSET Token}
    /\ expired \subseteq Token
    /\ spawn \in [SpawnToken -> {"fresh", "created", "submitted", "aborted"}]
    /\ wanted \in [SpawnToken -> Content]
    /\ instances \subseteq SpawnToken /\ late \subseteq SpawnToken
    /\ arriving \subseteq Rows
    /\ call \in [Client -> {Idle} \cup Gets \cup Puts]
    /\ reply \in [Client -> {"none", "success", "notFound", "conflict", "error"}
                              \cup Content]
    /\ taken \subseteq Token /\ spent \subseteq Token
    /\ handed \in [Token -> Nat]
    /\ faults \in 0 .. MaxFaults

(* An instance never comes up without its secret: whatever failed or came late *)
(* in spawn(), the secret of a launched instance is in the table with the      *)
(* content its worker type had, until a caller takes it or a removal fails.    *)
InstanceHasSecret ==
    \A t \in instances :
        t \notin taken => t \in DOMAIN store /\ store[t] = wanted[t]

(* removeSecret: "After this call, a call to `getSecret` with the given token   *)
(* will return no information".  Once any caller was told that an instance's   *)
(* secret is gone, because it got it, removed it or found none, it stays gone: *)
(* no storing that was given up lands afterwards, as spawn() then requests no  *)
(* instance that would make the token known, and no failed request is retried. *)
SpentStaysGone == \A t \in SpawnToken \cap spent : t \notin DOMAIN store

-----------------------------------------------------------------------------
(* getSecret's comment: the token is removed so that it cannot be used         *)
(* repeatedly.                                                                 *)
NotUsedRepeatedly == \A t \in Token : handed[t] <= 1
=============================================================================
