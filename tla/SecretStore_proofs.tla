-------------------------- MODULE SecretStore_proofs --------------------------
(* The order of spawn() and the removals of the API, for any number of tokens, *)
(* callers and failures.                                                       *)
EXTENDS SecretStore, TLAPS

USE DEF secrets, spawns, clients

(* The types of the state.  A store is a partial function, and a call under    *)
(* way was made with a token and a content of their sets.                      *)
StoreTyped ==
    /\ store = [x \in DOMAIN store |-> store[x]]
    /\ DOMAIN store \subseteq Token
    /\ \A x \in DOMAIN store : store[x] \in Content
    /\ expired \subseteq Token /\ taken \subseteq Token /\ spent \subseteq Token
    /\ arriving \subseteq Rows
    /\ handed \in [Token -> Nat]

SpawnTyped ==
    /\ spawn \in [SpawnToken -> {"fresh", "created", "submitted", "aborted"}]
    /\ wanted \in [SpawnToken -> Content]
    /\ instances \subseteq SpawnToken /\ late \subseteq SpawnToken

Replies == {"none", "success", "notFound", "conflict", "error"} \cup Content

CallTyped ==
    /\ call \in [Client -> {Idle} \cup Gets \cup Puts]
    /\ reply \in [Client -> Replies]

FaultsTyped == faults \in 0 .. MaxFaults

TypeInv == StoreTyped /\ SpawnTyped /\ CallTyped /\ FaultsTyped

LEMMA TypeInvIsTypeOK == TypeInv => TypeOK
<1> SUFFICES ASSUME TypeInv PROVE TypeOK
  OBVIOUS
<1>1. store \in UNION {[names -> Content] : names \in SUBSET Token}
  <2>1. store \in [DOMAIN store -> Content] /\ DOMAIN store \in SUBSET Token
    BY DEF TypeInv, StoreTyped
  <2>2. QED
    BY <2>1
<1>2. QED
  BY <1>1 DEF TypeInv, StoreTyped, SpawnTyped, CallTyped, FaultsTyped, Replies, TypeOK

LEMMA InitTypeInv == Init => TypeInv
BY SecretStoreAssumption
   DEF Init, TypeInv, StoreTyped, SpawnTyped, CallTyped, FaultsTyped, Replies

LEMMA InsertTyped ==
    ASSUME StoreTyped, NEW t \in Token, NEW k \in Content, Insert(t, k),
           arriving' \subseteq arriving
    PROVE  StoreTyped'
BY DEF Insert, StoreTyped

LEMMA GiveUpTyped ==
    ASSUME StoreTyped, NEW t \in Token, NEW k \in Content, GiveUp(t, k)
    PROVE  StoreTyped'
<1>1. CASE Insert(t, k) /\ UNCHANGED arriving
  BY <1>1, InsertTyped
<1>2. CASE UNCHANGED <<secrets, expired>> /\ arriving' \subseteq arriving \cup Rows
  BY <1>2 DEF StoreTyped
<1>3. [token |-> t, content |-> k] \in Rows
  BY DEF Rows
<1> QED
  BY <1>1, <1>2, <1>3 DEF GiveUp

LEMMA DeleteTyped ==
    ASSUME StoreTyped, NEW t, Delete(t)
    PROVE  /\ store' = [x \in DOMAIN store' |-> store'[x]]
           /\ DOMAIN store' \subseteq Token
           /\ \A x \in DOMAIN store' : store'[x] \in Content
BY DEF Delete, Restrict, StoreTyped

LEMMA AnswerTyped ==
    ASSUME CallTyped, NEW c \in Client, NEW what \in Replies, Answer(c, what)
    PROVE  CallTyped'
BY DEF Answer, CallTyped

LEMMA FaultTyped == FaultsTyped /\ Fault => FaultsTyped'
BY SecretStoreAssumption DEF FaultsTyped, Fault

(* The call a client waits for.                                                *)
LEMMA PendingCall ==
    ASSUME CallTyped, NEW c \in Client
    PROVE  /\ call[c].op = "get" => call[c].token \in Token /\ call[c].content \in Content
           /\ call[c].op = "create" => call[c].token \in Token
<1>1. call[c] \in {Idle} \cup Gets \cup Puts
  BY DEF CallTyped
<1>2. call[c] = Idle => call[c].op = "none"
  BY DEF Idle
<1>3. call[c] \in Gets \cup Puts => call[c].token \in Token /\ call[c].content \in Content
  BY DEF Gets, Puts
<1>4. QED
  BY <1>1, <1>2, <1>3

LEMMA SpawnStepTyped ==
    ASSUME TypeInv, NEW t \in SpawnToken,
           \/ SpawnCreate(t) \/ SpawnCreateFault(t)
           \/ RunInstance(t) \/ RunInstanceFault(t) \/ LateInstance(t)
    PROVE  TypeInv'
<1>1. CallTyped'
  BY DEF SpawnCreate, SpawnCreateFault, RunInstance, RunInstanceFault, LateInstance,
         TypeInv, CallTyped
<1>2. FaultsTyped'
  BY FaultTyped DEF SpawnCreate, SpawnCreateFault, RunInstance, RunInstanceFault,
                    LateInstance, TypeInv, FaultsTyped
<1>3. SpawnTyped'
  BY DEF SpawnCreate, SpawnCreateFault, RunInstance, RunInstanceFault, LateInstance,
         TypeInv, SpawnTyped
<1>4. StoreTyped'
  <2>1. t \in Token /\ wanted[t] \in Content
    BY DEF Token, TypeInv, SpawnTyped
  <2>2. CASE Insert(t, wanted[t]) /\ UNCHANGED arriving
    BY <2>1, <2>2, InsertTyped DEF TypeInv
  <2>3. CASE GiveUp(t, wanted[t])
    BY <2>1, <2>3, GiveUpTyped DEF TypeInv
  <2>4. CASE UNCHANGED <<secrets, arriving, expired>>
    BY <2>4 DEF TypeInv, StoreTyped
  <2>5. QED
    BY <2>2, <2>3, <2>4 DEF SpawnCreate, SpawnCreateFault, RunInstance, RunInstanceFault,
                      LateInstance
<1>5. QED
  BY <1>1, <1>2, <1>3, <1>4 DEF TypeInv

LEMMA CreateTyped ==
    ASSUME TypeInv, NEW c \in Client, NEW t \in ApiToken, NEW k \in Content,
           CreateSecret(c, t, k) \/ CreateSecretFault(c, t, k)
    PROVE  TypeInv'
<1>1. SpawnTyped' /\ FaultsTyped'
  BY FaultTyped DEF CreateSecret, CreateSecretFault, TypeInv, SpawnTyped, FaultsTyped
<1>2. t \in Token
  BY DEF Token
<1>3. StoreTyped'
  <2>1. CASE Insert(t, k) /\ UNCHANGED arriving
    BY <1>2, <2>1, InsertTyped DEF TypeInv
  <2>2. CASE GiveUp(t, k)
    BY <1>2, <2>2, GiveUpTyped DEF TypeInv
  <2>3. CASE UNCHANGED <<secrets, arriving, expired>>
    BY <2>3 DEF TypeInv, StoreTyped
  <2>4. QED
    BY <2>1, <2>2, <2>3 DEF CreateSecret, CreateSecretFault
<1>4. CallTyped'
  <2>1. CASE Answer(c, "success") \/ Answer(c, "error")
    BY <2>1, AnswerTyped DEF TypeInv, Replies
  <2>2. CASE /\ call' = [call EXCEPT ![c] =
                            [op |-> "create", token |-> t, content |-> k]]
             /\ UNCHANGED reply
    <3>1. [op |-> "create", token |-> t, content |-> k] \in Puts
      BY <1>2 DEF Puts
    <3>2. QED
      BY <2>2, <3>1 DEF TypeInv, CallTyped
  <2>3. QED
    BY <2>1, <2>2 DEF CreateSecret, CreateSecretFault
<1>5. QED
  BY <1>1, <1>3, <1>4 DEF TypeInv

LEMMA GetTyped ==
    ASSUME TypeInv, NEW c \in Client, NEW t \in Token, GetSecret(c, t)
    PROVE  TypeInv'
<1>1. StoreTyped' /\ SpawnTyped' /\ FaultsTyped'
  BY DEF GetSecret, Tell, TypeInv, StoreTyped, SpawnTyped, FaultsTyped
<1>2. CallTyped'
  <2>1. CASE t \notin DOMAIN store \/ t \in expired
    BY <2>1, AnswerTyped DEF GetSecret, TypeInv, Replies
  <2>2. CASE ~ (t \notin DOMAIN store \/ t \in expired)
    <3> PICK get : get = [op |-> "get", token |-> t, content |-> store[t]]
      OBVIOUS
    <3>1. get \in Gets
      BY <2>2 DEF Gets, TypeInv, StoreTyped
    <3>2. call' = [call EXCEPT ![c] = get] /\ UNCHANGED reply
      BY <2>2 DEF GetSecret
    <3>3. QED
      BY <3>1, <3>2 DEF TypeInv, CallTyped
  <2>3. QED
    BY <2>1, <2>2
<1>3. QED
  BY <1>1, <1>2 DEF TypeInv

(* The second steps of calls.                                                  *)
LEMMA SecondStepTyped ==
    ASSUME TypeInv, NEW c \in Client, CompareSecret(c) \/ HandOver(c) \/ CallFault(c)
    PROVE  TypeInv'
<1>1. SpawnTyped' /\ FaultsTyped'
  BY FaultTyped DEF CompareSecret, HandOver, CallFault, TypeInv, SpawnTyped, FaultsTyped
<1>2. /\ call[c].op = "get" => call[c].token \in Token /\ call[c].content \in Content
      /\ StoreTyped /\ CallTyped
  BY PendingCall DEF TypeInv
<1>3. CASE CompareSecret(c)
  <2>1. StoreTyped'
    BY <1>3 DEF CompareSecret, TypeInv, StoreTyped
  <2>2. \E what \in Replies : Answer(c, what)
    BY <1>3 DEF CompareSecret, Replies
  <2>3. QED
    BY <1>1, <1>2, <2>1, <2>2, AnswerTyped DEF TypeInv
<1>4. CASE HandOver(c)
  <2>1. StoreTyped'
    BY <1>2, <1>4, DeleteTyped DEF HandOver, Tell, StoreTyped
  <2>2. call[c].content \in Replies /\ Answer(c, call[c].content)
    BY <1>2, <1>4 DEF HandOver, Replies
  <2>3. QED
    BY <1>1, <1>2, <2>1, <2>2, AnswerTyped DEF TypeInv
<1>5. CASE CallFault(c)
  <2>1. StoreTyped'
    BY <1>2, <1>5, DeleteTyped DEF CallFault, StoreTyped
  <2>2. "error" \in Replies /\ Answer(c, "error")
    BY <1>5 DEF CallFault, Replies
  <2>3. QED
    BY <1>1, <1>2, <2>1, <2>2, AnswerTyped DEF TypeInv
<1>6. QED
  BY <1>3, <1>4, <1>5

(* Calls of one step.                                                          *)
LEMMA OneStepTyped ==
    ASSUME TypeInv, NEW c \in Client, NEW t \in Token,
           InstanceStarted(c, t) \/ RemoveSecret(c, t) \/ RemoveSecretFault(c, t)
    PROVE  TypeInv'
<1>1. SpawnTyped' /\ FaultsTyped'
  BY FaultTyped DEF InstanceStarted, RemoveSecret, RemoveSecretFault, TypeInv,
                    SpawnTyped, FaultsTyped
<1>2. StoreTyped'
  <2>1. CASE InstanceStarted(c, t)
    BY <2>1 DEF InstanceStarted, Tell, TypeInv, StoreTyped
  <2>2. CASE RemoveSecret(c, t) \/ RemoveSecretFault(c, t)
    BY <2>2, DeleteTyped DEF RemoveSecret, Tell, RemoveSecretFault, TypeInv, StoreTyped
  <2>3. QED
    BY <2>1, <2>2
<1>3. \E what \in Replies : Answer(c, what)
  BY DEF InstanceStarted, RemoveSecret, RemoveSecretFault, Replies
<1>4. QED
  BY <1>1, <1>2, <1>3, AnswerTyped DEF TypeInv

LEMMA LateTyped ==
    ASSUME TypeInv, NEW row \in Rows, LateCreate(row)
    PROVE  TypeInv'
<1>1. SpawnTyped' /\ CallTyped' /\ FaultsTyped'
  BY DEF LateCreate, TypeInv, SpawnTyped, CallTyped, FaultsTyped
<1>2. row.token \in Token /\ row.content \in Content /\ arriving' \subseteq arriving
  BY DEF Rows, LateCreate
<1>3. CASE Insert(row.token, row.content)
  BY <1>1, <1>2, <1>3, InsertTyped DEF TypeInv
<1>4. CASE UNCHANGED <<secrets, expired>>
  BY <1>1, <1>2, <1>4 DEF TypeInv, StoreTyped
<1> QED
  BY <1>3, <1>4 DEF LateCreate

LEMMA NextTypeInv == TypeInv /\ [Next]_vars => TypeInv'
<1> SUFFICES ASSUME TypeInv, [Next]_vars PROVE TypeInv'
  OBVIOUS
<1>1. ASSUME NEW t \in Token, Expire(t) PROVE TypeInv'
  BY <1>1 DEF Expire, TypeInv, StoreTyped, SpawnTyped, CallTyped, FaultsTyped
<1>2. CASE UNCHANGED vars
  BY <1>2 DEF vars, TypeInv, StoreTyped, SpawnTyped, CallTyped, FaultsTyped
<1>3. ASSUME NEW c \in Client, LoadFault(c) PROVE TypeInv'
  <2>1. StoreTyped' /\ SpawnTyped' /\ FaultsTyped'
    BY <1>3, FaultTyped DEF LoadFault, TypeInv, StoreTyped, SpawnTyped
  <2>2. "error" \in Replies /\ Answer(c, "error")
    BY <1>3 DEF LoadFault, Replies
  <2>3. QED
    BY <2>1, <2>2, AnswerTyped DEF TypeInv
<1>4. QED
  BY <1>1, <1>2, <1>3, SpawnStepTyped, LateTyped, CreateTyped, GetTyped, SecondStepTyped,
     OneStepTyped DEF Next

(* The store, the spawns and the calls have the types they should have.        *)
THEOREM TypeCorrect == Spec => []TypeOK
BY InitTypeInv, NextTypeInv, TypeInvIsTypeOK, PTL DEF Spec

-----------------------------------------------------------------------------
Stored(t) == t \in DOMAIN store /\ store[t] = wanted[t]

Coming(t) == \E row \in arriving : row.token = t
NoneNew   == \A t \in SpawnToken : Coming(t)' => Coming(t)

(* Until the request is submitted nobody carries the token, so nobody can take *)
(* its secret; from then on the secret is there unless somebody took it, and   *)
(* none that was given up is on its way.                                       *)
SpawnInv ==
    \A t \in SpawnToken :
        /\ spawn[t] = "fresh" => t \notin instances \cup late
        /\ spawn[t] \in {"fresh", "created"} => ~ Coming(t)
        /\ spawn[t] = "created" => (t \notin taken => Stored(t))
        /\ t \in instances \cup late => ~ Coming(t) /\ (t \notin taken => Stored(t))

(* Callers know an instance's token from the instance alone.                   *)
AskersKnow == \A c \in Client : call[c].op = "get" => Knows(call[c].token)

KnownInv ==
    /\ AskersKnow
    /\ \A t \in SpawnToken \cap spent : t \in instances

IInv == TypeInv /\ SpawnInv /\ KnownInv /\ SpentStaysGone

LEMMA InitIInv == Init => IInv
BY InitTypeInv DEF Init, IInv, SpawnInv, KnownInv, AskersKnow, SpentStaysGone, Coming, Idle

(* What storing and deleting a row do to it and to the others.                 *)
LEMMA InsertedRow ==
    ASSUME NEW t, NEW k, Insert(t, k)
    PROVE  /\ DOMAIN store' = DOMAIN store \cup {t}
           /\ store'[t] = k
           /\ \A x \in DOMAIN store : x # t => store'[x] = store[x]
           /\ taken' = taken \ {t} /\ spent' = spent
BY DEF Insert

LEMMA DeletedRow ==
    ASSUME NEW t, Delete(t)
    PROVE  /\ DOMAIN store' = DOMAIN store \ {t}
           /\ \A x \in DOMAIN store : x # t => store'[x] = store[x]
BY DEF Delete, Restrict

LEMMA TokensApart == \A t \in SpawnToken : Knows(t) => t \in instances
BY SecretStoreAssumption DEF Knows

(* No call in flight learns a token.                                           *)
LEMMA AnsweredKnows ==
    ASSUME IInv, NEW c \in Client, NEW what, Answer(c, what), UNCHANGED instances
    PROVE  AskersKnow'
BY DEF Answer, IInv, KnownInv, AskersKnow, Knows, TypeInv, CallTyped, Idle

(* Steps that leave the rows alone and at most tell callers of one that is not *)
(* there.                                                                      *)
LEMMA QuietStep ==
    ASSUME IInv, UNCHANGED <<store, taken, spawns>>, NoneNew,
           \A t \in spent' \ spent : Knows(t) /\ t \notin DOMAIN store,
           AskersKnow'
    PROVE  SpawnInv' /\ KnownInv' /\ SpentStaysGone'
<1>1. SpawnInv'
  BY DEF IInv, SpawnInv, Stored, NoneNew
<1>2. KnownInv'
  BY TokensApart DEF IInv, KnownInv
<1>3. SpentStaysGone'
  BY DEF IInv, SpentStaysGone
<1> QED
  BY <1>1, <1>2, <1>3

(* Storing a secret under a token that no instance carries.                    *)
LEMMA StoringStep ==
    ASSUME IInv, NEW t, NEW k, Insert(t, k), UNCHANGED spawns,
           t \in SpawnToken => Coming(t), NoneNew,
           AskersKnow'
    PROVE  SpawnInv' /\ KnownInv' /\ SpentStaysGone'
<1>1. /\ DOMAIN store' = DOMAIN store \cup {t}
      /\ \A x \in DOMAIN store : x # t => store'[x] = store[x]
      /\ taken' = taken \ {t} /\ spent' = spent
  BY InsertedRow
<1>2. \A x \in SpawnToken : x # t => (Stored(x) => Stored(x)')
  BY <1>1 DEF Stored
<1>3. \A x \in SpawnToken : Coming(x)' => Coming(x)
  BY DEF NoneNew
<1>4. SpawnInv'
  BY <1>1, <1>2, <1>3 DEF IInv, SpawnInv
<1>5. KnownInv'
  BY <1>1 DEF IInv, KnownInv
<1>6. SpentStaysGone'
  BY <1>1 DEF IInv, SpawnInv, KnownInv, SpentStaysGone
<1> QED
  BY <1>4, <1>5, <1>6

(* Deleting a secret and remembering it as taken.                              *)
LEMMA TakingDelete ==
    ASSUME IInv, NEW t, Delete(t), taken' = taken \cup {t}, Knows(t),
           spent' = spent \/ spent' = spent \cup {t}, UNCHANGED <<arriving, spawns>>,
           AskersKnow'
    PROVE  SpawnInv' /\ KnownInv' /\ SpentStaysGone'
<1>1. /\ DOMAIN store' = DOMAIN store \ {t}
      /\ \A x \in DOMAIN store : x # t => store'[x] = store[x]
  BY DeletedRow
<1>2. \A x \in SpawnToken : Stored(x) => x = t \/ Stored(x)'
  BY <1>1 DEF Stored
<1>3. \A x : Coming(x)' <=> Coming(x)
  BY DEF Coming
<1>4. SpawnInv'
  BY <1>2, <1>3 DEF IInv, SpawnInv
<1>5. KnownInv'
  BY TokensApart DEF IInv, KnownInv
<1>6. SpentStaysGone'
  BY <1>1 DEF IInv, SpentStaysGone
<1> QED
  BY <1>4, <1>5, <1>6

(* The first step of a spawn, whatever becomes of it.                          *)
LEMMA FirstStep ==
    ASSUME IInv, NEW t \in SpawnToken, SpawnCreate(t) \/ SpawnCreateFault(t)
    PROVE  SpawnInv' /\ KnownInv' /\ SpentStaysGone'
<1>1. /\ spawn[t] = "fresh" /\ t \notin instances \cup late /\ t \notin spent
      /\ UNCHANGED <<wanted, instances, late, call>>
  BY DEF IInv, SpawnInv, KnownInv, SpawnCreate, SpawnCreateFault
<1>2. /\ \A x \in SpawnToken : x # t => spawn'[x] = spawn[x]
      /\ spawn'[t] \in {"created", "aborted"}
  BY DEF IInv, TypeInv, SpawnTyped, SpawnCreate, SpawnCreateFault
<1>3. /\ \A x \in SpawnToken : x # t => (Coming(x)' => Coming(x))
      /\ spawn'[t] = "created" => arriving' = arriving /\ Insert(t, wanted[t])
  <2>1. CASE SpawnCreate(t)
    BY <2>1 DEF SpawnCreate, Coming
  <2>2. CASE SpawnCreateFault(t)
    <3>1. spawn'[t] = "aborted"
      BY <2>2 DEF SpawnCreateFault, IInv, TypeInv, SpawnTyped
    <3>2. \A row \in arriving' : row \in arriving \/ row.token = t
      BY <2>2 DEF SpawnCreateFault, GiveUp
    <3> QED
      BY <3>1, <3>2 DEF Coming
  <2> QED
    BY <2>1, <2>2
<1>4. /\ \A x \in DOMAIN store : x # t => x \in DOMAIN store' /\ store'[x] = store[x]
      /\ DOMAIN store' \subseteq DOMAIN store \cup {t}
      /\ \A x : x # t => (x \in taken' <=> x \in taken)
      /\ spent' = spent
      /\ spawn'[t] = "created" => Stored(t)'
  <2>1. CASE Insert(t, wanted[t])
    BY <1>1, <2>1, InsertedRow DEF Stored
  <2>2. CASE UNCHANGED secrets
    BY <1>1, <1>3, <2>2, InsertedRow DEF Stored
  <2> QED
    BY <2>1, <2>2 DEF SpawnCreate, SpawnCreateFault, GiveUp
<1>5. SpawnInv'
  <2>1. ASSUME NEW x \in SpawnToken, x # t
        PROVE  /\ spawn'[x] = "fresh" => x \notin instances' \cup late'
               /\ spawn'[x] \in {"fresh", "created"} => ~ Coming(x)'
               /\ spawn'[x] = "created" => (x \notin taken' => Stored(x)')
               /\ x \in instances' \cup late' =>
                     ~ Coming(x)' /\ (x \notin taken' => Stored(x)')
    BY <1>1, <1>2, <1>3, <1>4, <2>1 DEF IInv, SpawnInv, Stored
  <2>2. spawn'[t] = "created" => ~ Coming(t)'
    BY <1>1, <1>3 DEF IInv, SpawnInv, Coming
  <2> QED
    BY <1>1, <1>2, <1>4, <2>1, <2>2 DEF SpawnInv
<1>6. KnownInv'
  BY <1>1, <1>4 DEF IInv, KnownInv, AskersKnow, Knows
<1>7. SpentStaysGone'
  BY <1>1, <1>4 DEF IInv, SpentStaysGone
<1> QED
  BY <1>5, <1>6, <1>7

(* The second one, and a request that lands late.                              *)
LEMMA SecondStep ==
    ASSUME IInv, NEW t \in SpawnToken,
           RunInstance(t) \/ RunInstanceFault(t) \/ LateInstance(t)
    PROVE  SpawnInv' /\ KnownInv' /\ SpentStaysGone'
<1>1. /\ UNCHANGED <<store, taken, spent, arriving, wanted, call>>
      /\ instances \subseteq instances'
  BY DEF RunInstance, RunInstanceFault, LateInstance
<1>2. /\ instances' \cup late' \subseteq instances \cup late \cup {t}
      /\ ~ Coming(t) /\ (t \notin taken => Stored(t))
      /\ spawn'[t] \notin {"fresh", "created"} \/ UNCHANGED spawn
      /\ \A x \in SpawnToken : x # t => spawn'[x] = spawn[x]
      /\ spawn'[t] = "fresh" => FALSE
  BY DEF IInv, SpawnInv, TypeInv, SpawnTyped, RunInstance, RunInstanceFault, LateInstance
<1>3. \A x : (Coming(x)' <=> Coming(x)) /\ (Stored(x)' <=> Stored(x))
  BY <1>1 DEF Coming, Stored
<1>4. SpawnInv'
  BY <1>1, <1>2, <1>3 DEF IInv, SpawnInv
<1>5. KnownInv'
  BY <1>1 DEF IInv, KnownInv, AskersKnow, Knows
<1>6. SpentStaysGone'
  BY <1>1 DEF IInv, SpentStaysGone
<1> QED
  BY <1>4, <1>5, <1>6

(* A secret whose storing was given up lands.                                  *)
LEMMA LateStep ==
    ASSUME IInv, NEW row \in Rows, LateCreate(row)
    PROVE  SpawnInv' /\ KnownInv' /\ SpentStaysGone'
<1>1. /\ UNCHANGED spawns /\ UNCHANGED call /\ Coming(row.token) /\ NoneNew
      /\ AskersKnow'
  BY DEF LateCreate, Coming, NoneNew, IInv, KnownInv, AskersKnow, Knows
<1>2. CASE row.token \in DOMAIN store
  BY <1>1, <1>2, QuietStep DEF LateCreate
<1>3. CASE row.token \notin DOMAIN store
  BY <1>1, <1>3, StoringStep DEF LateCreate
<1> QED
  BY <1>2, <1>3

(* A caller stores a secret under a token of its own.                          *)
LEMMA CreateStep ==
    ASSUME IInv, NEW c \in Client, NEW t \in ApiToken, NEW k \in Content,
           CreateSecret(c, t, k) \/ CreateSecretFault(c, t, k)
    PROVE  SpawnInv' /\ KnownInv' /\ SpentStaysGone'
<1>1. t \notin SpawnToken
  BY SecretStoreAssumption
<1>2. UNCHANGED spawns /\ NoneNew
  BY <1>1 DEF CreateSecret, CreateSecretFault, GiveUp, NoneNew, Coming
<1>3. AskersKnow'
  BY DEF CreateSecret, CreateSecretFault, Answer, IInv, KnownInv, AskersKnow, Knows, TypeInv, CallTyped, Idle
<1>4. CASE Insert(t, k)
  BY <1>1, <1>2, <1>3, <1>4, StoringStep
<1>5. CASE UNCHANGED secrets
  BY <1>2, <1>3, <1>5, QuietStep
<1> QED
  BY <1>4, <1>5 DEF CreateSecret, CreateSecretFault, GiveUp

(* A caller fetches a secret, or looks whether there is one.                   *)
LEMMA LookStep ==
    ASSUME IInv, NEW c \in Client, NEW t \in Token, GetSecret(c, t) \/ InstanceStarted(c, t)
    PROVE  SpawnInv' /\ KnownInv' /\ SpentStaysGone'
<1>1. UNCHANGED <<store, taken, arriving, spawns>> /\ Knows(t)
  BY DEF GetSecret, InstanceStarted
<1>2. AskersKnow'
  BY <1>1 DEF GetSecret, InstanceStarted, Answer, IInv, KnownInv, AskersKnow, Knows, TypeInv, CallTyped, Idle
<1>3. \A x \in spent' \ spent : Knows(x) /\ x \notin DOMAIN store
  BY <1>1 DEF GetSecret, InstanceStarted, Tell
<1>4. NoneNew
  BY <1>1 DEF NoneNew, Coming
<1> QED
  BY <1>1, <1>2, <1>3, <1>4, QuietStep

(* Calls that end without storing anything.                                    *)
LEMMA EndStep ==
    ASSUME IInv, NEW c \in Client, NEW what, Answer(c, what), NEW t,
           UNCHANGED <<arriving, spawns>>, Knows(t),
           \/ UNCHANGED <<store, spent>> /\ taken' = taken \cup {t}
           \/ UNCHANGED <<store, spent, taken>>
           \/ /\ Delete(t) /\ taken' = taken \cup {t}
              /\ spent' = spent \/ spent' = spent \cup {t}
    PROVE  SpawnInv' /\ KnownInv' /\ SpentStaysGone'
<1>1. AskersKnow'
  BY AnsweredKnows
<1>2. CASE Delete(t) /\ taken' = taken \cup {t} /\ (spent' = spent \/ spent' = spent \cup {t})
  BY <1>1, <1>2, TakingDelete
<1>3. CASE UNCHANGED <<store, spent>> /\ taken \subseteq taken'
  <2>1. SpawnInv'
    BY <1>3 DEF IInv, SpawnInv, Stored, Coming
  <2>2. KnownInv' /\ SpentStaysGone'
    BY <1>1, <1>3 DEF IInv, KnownInv, SpentStaysGone
  <2> QED
    BY <2>1, <2>2
<1> QED
  BY <1>2, <1>3

LEMMA CallStep ==
    ASSUME IInv, NEW c \in Client, HandOver(c) \/ CallFault(c) \/ CompareSecret(c) \/ LoadFault(c)
    PROVE  SpawnInv' /\ KnownInv' /\ SpentStaysGone'
<1>1. call[c].op = "get" => Knows(call[c].token)
  BY DEF IInv, KnownInv, AskersKnow
<1>2. CASE HandOver(c)
  BY <1>1, <1>2, EndStep DEF HandOver, Tell
<1>3. CASE /\ UNCHANGED <<store, taken, spent, arriving, spawns>>
           /\ \E what \in Replies : Answer(c, what)
  <2>1. AskersKnow'
    BY <1>3, AnsweredKnows
  <2>2. NoneNew
    BY <1>3 DEF NoneNew, Coming
  <2> QED
    BY <1>3, <2>1, <2>2, QuietStep
<1>4. CASE CallFault(c) /\ ~ UNCHANGED <<store, taken>>
  BY <1>1, <1>4, EndStep DEF CallFault
<1> QED
  BY <1>2, <1>3, <1>4 DEF CallFault, CompareSecret, LoadFault, Replies

LEMMA RemoveStep ==
    ASSUME IInv, NEW c \in Client, NEW t \in Token, RemoveSecret(c, t) \/ RemoveSecretFault(c, t)
    PROVE  SpawnInv' /\ KnownInv' /\ SpentStaysGone'
<1>1. CASE RemoveSecret(c, t)
  BY <1>1, EndStep DEF RemoveSecret, Tell
<1>2. CASE RemoveSecretFault(c, t)
  BY <1>2, EndStep DEF RemoveSecretFault
<1> QED
  BY <1>1, <1>2

LEMMA NextIInv == IInv /\ [Next]_vars => IInv'
<1> SUFFICES ASSUME IInv, [Next]_vars
             PROVE  SpawnInv' /\ KnownInv' /\ SpentStaysGone'
  BY NextTypeInv DEF IInv
<1>1. ASSUME NEW t \in Token, Expire(t)
      PROVE  SpawnInv' /\ KnownInv' /\ SpentStaysGone'
  BY <1>1, QuietStep DEF Expire, NoneNew, Coming, IInv, KnownInv, AskersKnow, Knows
<1>2. CASE UNCHANGED vars
  BY <1>2, QuietStep DEF vars, NoneNew, Coming, IInv, KnownInv, AskersKnow, Knows
<1> QED
  BY <1>1, <1>2, FirstStep, SecondStep, LateStep, CreateStep, LookStep, CallStep,
     RemoveStep DEF Next

LEMMA Invariance == Spec => []IInv
BY InitIInv, NextIInv, PTL DEF Spec

(* No instance is ever launched without its secret, and none loses it but to a *)
(* caller or a failing removal.                                                *)
THEOREM InstancesHaveSecrets == Spec => []InstanceHasSecret
<1>1. IInv => InstanceHasSecret
  BY DEF IInv, TypeInv, SpawnTyped, SpawnInv, InstanceHasSecret, Stored
<1> QED
  BY <1>1, Invariance, PTL

(* The secret of an instance that a caller was told is gone never comes back,  *)
(* whatever calls, failures and late operations follow.                        *)
THEOREM SpentSecretsStayGone == Spec => []SpentStaysGone
<1>1. IInv => SpentStaysGone
  BY DEF IInv
<1> QED
  BY <1>1, Invariance, PTL
===============================================================================
