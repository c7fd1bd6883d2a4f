-------------------------- MODULE TransferProofs ----------------------------
(***************************************************************************)
(* Proofs about the bank-transfer demo (RemoteTransfers): its clients use  *)
(* the three processes as RemoteImmediate allows, no failure makes or      *)
(* destroys money, and what printResults adds up is the expected sum.      *)
(***************************************************************************)
EXTENDS RemoteTransfers, RemoteImmediateProofs

\* What an account may hold: each transfer that reaches the store adds to what
\* has been read before.
Ceiling == InitialBalance + MaxTransfer * Cardinality({t \in Txn : installed[t] # 0})

Amount == {Itoa(n) : n \in 0 .. Ceiling}

TransferJob == [txn : Txn, src : Key, dst : Key, amount : 1 .. MaxTransfer]

\* Every transaction under way is the transfer of one client.
Jobs ==
    /\ job \in [Client -> {NoJob} \cup TransferJob]
    /\ rounds \in [Client -> 0 .. TxnsPerClient]
    /\ \A c \in Client : job[c] # NoJob =>
        /\ rounds[c] < TxnsPerClient
        /\ job[c].src # job[c].dst
        /\ state[job[c].txn] # "unborn"
    /\ \A c, d \in Client : job[c] # NoJob /\ job[d] # NoJob /\ job[c].txn = job[d].txn => c = d
    /\ \A t \in Txn : state[t] \in {"active", "submitted"} =>
        \E c \in Client : job[c] # NoJob /\ job[c].txn = t

Untouched ==
    \A t \in Txn : state[t] = "unborn" =>
        observed[t] = {} /\ readSet[t] = {} /\ writeSet[t] = << >>

\* An account is read once.  What was read there is current as long as its
\* version is, whatever calls have failed.
ReadOnce(t) ==
    /\ \A o, p \in observed[t] : o.key = p.key => o = p
    /\ \A r \in readSet[t] : \E o \in observed[t] : o.key = r.key
    /\ \A o \in observed[t] : o.value \in {<< >>} \cup Amount
    /\ \A o \in observed[t], r \in readSet[t] : r.key = o.key =>
        /\ r.versionSeen = 0 => o.value = << >>
        /\ r.versionSeen # 0 /\ r.versionSeen = data[r.key].version => o.value = data[r.key].value

ReadsKept == \A t \in Txn : ReadOnce(t)

Debit(j) == [key |-> j.src, value |-> Itoa(Balance(j, j.src) - j.amount)]

Credit(j) == [key |-> j.dst, value |-> Itoa(Balance(j, j.dst) + j.amount)]

\* How far the loop's body has come.
InBody(j) ==
    /\ \A o \in observed[j.txn] : o.key \in {j.src, j.dst}
    /\ HasRead(j, j.dst) => HasRead(j, j.src)
    /\ \/ writeSet[j.txn] = << >>
       \/ /\ HasRead(j, j.dst) /\ Covered(j)
          /\ writeSet[j.txn] \in {<<Debit(j)>>, <<Debit(j), Credit(j)>>}

Progress == \A c \in Client, j \in TransferJob : j = job[c] => InBody(j)

\* t takes from one of the two accounts it has read what it gives to the other.
Moves(t, p, q, amount) ==
    /\ observed[t] = {p, q}
    /\ p.key # q.key
    /\ Atoi(p.value) >= amount
    /\ writeSet[t] = <<[key |-> p.key, value |-> Itoa(Atoi(p.value) - amount)],
                       [key |-> q.key, value |-> Itoa(Atoi(q.value) + amount)]>>

IsTransfer(t) ==
    \E p, q \in Observation : \E amount \in 1 .. MaxTransfer : Moves(t, p, q, amount)

\* The record of t may still reach the store, under the number n.
Sends(t, n) ==
    \/ t \in Holder /\ n = commitSeq
    \/ \E rec \in late : rec.txnID = t /\ rec.commitSeq = n

\* ... or it has outlived the certifier that made it.
IsStray(t) == \E rec \in strays : rec.txnID = t

Sent ==
    \A t \in Txn :
        state[t] = "submitted" \/ t \in calls \/ (\E n \in Nat : Sends(t, n)) \/ IsStray(t)
        => IsTransfer(t)

\* Until a record that is not a stray arrives, what t has read stays as it is, and
\* nobody else is let pass who writes there.
InFlight ==
    /\ \A t \in Txn, n \in Nat : Sends(t, n) =>
        /\ \A k \in Key : Writes(t, k) => latestVersion[k] = n /\ data[k].version < n
        /\ \A r \in readSet[t] : r.versionSeen = data[r.key].version
    /\ \A t, u \in Txn, m, n \in Nat, k \in Key :
        Sends(t, m) /\ Sends(u, n) /\ Writes(t, k) /\ Writes(u, k) => t = u

\* A certifier that has not been told of the store's versions turns down every
\* transfer: it has read an account that is in the store.
MapKnows ==
    \/ \A k \in Key : latestVersion[k] = 0
    \/ \A k \in Key : data[k].version \in 1 .. latestVersion[k]

Stocked == phase # "empty" /\ \A k \in Key : data[k].version # 0 /\ data[k].value \in Amount

Funds == Stocked \/ (data = NewMemStore /\ (phase = "empty" \/ Happened("load")))

Balanced == Stocked => Total(data) = Expected

\* What the arrival of a stray puts an end to.
Undisturbed == ~ Happened("stray") => InFlight /\ MapKnows /\ Balanced

\* No client is told of the commit of a record that is late ...
Refused == \A rec \in late \cup strays : ~ IsCommitted(rec.txnID)

\* ... nor of the commit of a stray that has arrived.
Strayed ==
    Happened("stray") =>
        \E t \in Txn : /\ installed[t] # 0 /\ ~ IsCommitted(t) /\ writeSet[t] # << >>
                       /\ state[t] \notin {"unborn", "active"}
                       /\ t \in calls => result[t] # NoResult

AbortsWithoutEffect == \A t \in Txn : state[t] = "aborted" => installed[t] = 0

\* Unless the record of a transfer that was counted as aborted arrives, nothing
\* moves any more while the results are printed.
Printing ==
    /\ DOMAIN balances \subseteq Key
    /\ DOMAIN balances # {} => phase = "ready" /\ AllDone
    /\ AbortsWithoutEffect => \A k \in DOMAIN balances : balances[k] \in {data[k], NotFound}

ClientPart == Jobs /\ Untouched /\ Progress

StorePart == ReadsKept /\ Sent /\ Funds /\ Undisturbed

AnswerPart == Refused /\ Strayed

DemoInv == ClientPart /\ StorePart /\ AnswerPart /\ Printing

\* What is inductive.
Whole == Strong /\ DemoInv

-----------------------------------------------------------------------------
LEMMA AtoiItoa == \A n : Atoi(Itoa(n)) = n
BY DEF Atoi, Itoa

LEMMA ExpectedNat == Expected \in Nat /\ Cardinality(Key) \in Nat
BY DemoAssumption, FS_CardinalityType DEF Expected

\* The bound grows with each transaction that is installed.
LEMMA SubsetsOfTxn ==
    ASSUME NEW S, S \subseteq Txn
    PROVE  /\ IsFiniteSet(S) /\ Cardinality(S) \in Nat /\ Cardinality(S) <= MaxTxns
           /\ \A t \in Txn \ S : Cardinality(S \cup {t}) = Cardinality(S) + 1
<1>1. IsFiniteSet(Txn) /\ Cardinality(Txn) = MaxTxns
  BY MaxTxnsAssumption, FS_Interval DEF Txn
<1>2. IsFiniteSet(S) /\ Cardinality(S) <= MaxTxns
  BY <1>1, FS_Subset
<1>3. Cardinality(S) \in Nat
  BY <1>2, FS_CardinalityType
<1>4. \A t \in Txn \ S : Cardinality(S \cup {t}) = Cardinality(S) + 1
  BY <1>2, FS_AddElement
<1> QED
  BY <1>2, <1>3, <1>4

LEMMA CeilingNat == Ceiling \in Nat /\ InitialBalance <= Ceiling
<1>1. PICK m, n, b : /\ m = MaxTransfer /\ b = InitialBalance
                     /\ n = Cardinality({t \in Txn : installed[t] # 0})
  OBVIOUS
<1>2. n \in Nat
  BY <1>1, SubsetsOfTxn
<1>3. m \in Nat /\ b \in Nat
  BY <1>1, DemoAssumption
<1>4. m * n \in Nat
  BY <1>2, <1>3
<1>5. b + m * n \in Nat /\ b <= b + m * n
  BY <1>3, <1>4
<1> QED
  BY <1>1, <1>5 DEF Ceiling

\* A transaction that is not in the store can still add to an account.
LEMMA CeilingLeaves ==
    ASSUME NEW t \in Txn, installed[t] = 0
    PROVE  Ceiling + MaxTransfer <= InitialBalance + MaxTransfer * MaxTxns
<1>1. PICK m, n, b, x : /\ m = MaxTransfer /\ b = InitialBalance /\ x = MaxTxns
                        /\ n = Cardinality({u \in Txn : installed[u] # 0})
  OBVIOUS
<1>2. n \in Nat /\ n + 1 <= x
  <2>1. PICK S : S = {u \in Txn : installed[u] # 0}
    OBVIOUS
  <2>2. S \subseteq Txn /\ S \cup {t} \subseteq Txn /\ t \in Txn \ S
    BY <2>1
  <2>3. Cardinality(S \cup {t}) = Cardinality(S) + 1 /\ Cardinality(S \cup {t}) <= MaxTxns
    BY <2>2, SubsetsOfTxn
  <2> QED
    BY <1>1, <2>1, <2>2, <2>3, SubsetsOfTxn
<1>3. m \in Nat /\ b \in Nat /\ x \in Nat
  BY <1>1, DemoAssumption, MaxTxnsAssumption
<1>4. m * n + m <= m * x
  <2>1. m * (n + 1) = m * n + m
    BY <1>2, <1>3
  <2>2. PICK y \in Nat : x = n + 1 + y
    <3>1. x - (n + 1) \in Nat /\ x = n + 1 + (x - (n + 1))
      BY <1>2, <1>3
    <3> QED
      BY <3>1
  <2>3. m * x = m * (n + 1) + m * y /\ m * y \in Nat /\ m * n \in Nat
    BY <1>2, <1>3, <2>2
  <2> QED
    BY <1>3, <2>1, <2>3
<1>5. b + m * n + m <= b + m * x
  <2>1. m * n \in Nat /\ m * x \in Nat
    BY <1>2, <1>3
  <2> QED
    BY <1>3, <1>4, <2>1
<1> QED
  BY <1>1, <1>5 DEF Ceiling

LEMMA CeilingGrows ==
    ASSUME NEW t \in Txn, installed[t] = 0, NEW n, n # 0,
           installed' = [installed EXCEPT ![t] = n], installed \in [Txn -> Nat]
    PROVE  Ceiling' = Ceiling + MaxTransfer
<1>1. PICK S : S = {u \in Txn : installed[u] # 0}
  OBVIOUS
<1>2. t \in Txn \ S /\ S \subseteq Txn /\ {u \in Txn : installed'[u] # 0} = S \cup {t}
  BY <1>1
<1>3. Cardinality(S \cup {t}) = Cardinality(S) + 1 /\ Cardinality(S) \in Nat
  BY <1>2, SubsetsOfTxn
<1>4. PICK m, b, e : m = MaxTransfer /\ b = InitialBalance /\ e = Cardinality(S)
  OBVIOUS
<1>5. b + m * (e + 1) = (b + m * e) + m
  BY <1>3, <1>4, DemoAssumption
<1> QED
  BY <1>1, <1>2, <1>3, <1>4, <1>5 DEF Ceiling

LEMMA AmountNat ==
    /\ \A a \in {<< >>} \cup Amount : Atoi(a) \in 0 .. Ceiling
    /\ \A a \in Amount : a = Itoa(Atoi(a))
    /\ \A n \in 0 .. Ceiling : Itoa(n) \in Amount
    /\ << >> \notin Amount
<1>1. \A n \in 0 .. Ceiling : Atoi(Itoa(n)) = n /\ Itoa(n) # << >>
  BY AtoiItoa DEF Itoa
<1>2. Atoi(<< >>) = 0
  BY DEF Atoi
<1> QED
  BY <1>1, <1>2, CeilingNat DEF Amount

\* Nothing ceases to be an amount.
LEMMA AmountsGrow ==
    ASSUME Ceiling' \in Nat, Ceiling <= Ceiling'
    PROVE  Amount \subseteq Amount'
<1>1. 0 .. Ceiling \subseteq 0 .. Ceiling'
  BY CeilingNat
<1> QED
  BY <1>1 DEF Amount

LEMMA AmountsKept ==
    ASSUME UNCHANGED installed
    PROVE  Ceiling' = Ceiling /\ Amount' = Amount
BY DEF Ceiling, Amount

LEMMA SumOfAccounts ==
    ASSUME NEW d, DOMAIN d = Key, \A k \in Key : Atoi(d[k].value) \in Nat
    PROVE  /\ Total(d) \in Nat
           /\ \A k \in Key : Atoi(d[k].value) <= Total(d)
<1> DEFINE w == [k \in Key |-> Atoi(d[k].value)]
<1>1. Total(d) = SumFunctionOnSet(w, Key)
  BY DEF Total, SumFunction
<1>2. IsFiniteSet(Key) /\ \A k \in Key : w[k] \in Nat /\ w[k] = Atoi(d[k].value)
  BY DemoAssumption
<1> HIDE DEF w
<1>3. /\ SumFunctionOnSet(w, Key) \in Nat
      /\ \A k \in Key : SumFunctionOnSet(w, Key) = w[k] + SumFunctionOnSet(w, Key \ {k})
  BY <1>2, SumRemove
<1>4. \A k \in Key : SumFunctionOnSet(w, Key \ {k}) \in Nat
  <2>1. ASSUME NEW k \in Key PROVE SumFunctionOnSet(w, Key \ {k}) \in Nat
    <3>1. IsFiniteSet(Key \ {k}) /\ \A x \in Key \ {k} : w[x] \in Nat
      BY <1>2, FS_RemoveElement
    <3> QED
      BY <3>1, SumRemove
  <2> QED
    BY <2>1
<1>5. ASSUME NEW k \in Key PROVE w[k] <= SumFunctionOnSet(w, Key)
  <2>1. PICK a, b, e : /\ a = SumFunctionOnSet(w, Key) /\ b = w[k]
                       /\ e = SumFunctionOnSet(w, Key \ {k})
    OBVIOUS
  <2>2. a = b + e /\ a \in Nat /\ b \in Nat /\ e \in Nat
    BY <1>2, <1>3, <1>4, <2>1, Zenon
  <2>3. b <= a
    BY <2>2
  <2> QED
    BY <2>1, <2>3, Zenon
<1> QED
  BY <1>1, <1>2, <1>3, <1>5

\* The store that LoadInitialData fills.
LEMMA LoadedAccounts ==
    ASSUME NEW d, d = Loaded(NewMemStore, [k \in Key |-> Itoa(InitialBalance)])
    PROVE  /\ Total(d) = Expected
           /\ \A k \in Key : d[k].version = 1 /\ d[k].value \in Amount
           /\ [k \in Key |-> Itoa(InitialBalance)] \in [Key -> Value]
<1>1. DOMAIN d = Key /\ \A k \in Key : d[k] = [value |-> Itoa(InitialBalance), version |-> 1]
  BY DEF Loaded
<1>2. \A k \in Key : Atoi(d[k].value) = InitialBalance
  BY <1>1, AtoiItoa
<1>3. InitialBalance \in Nat
  BY DemoAssumption
<1>4. Total(d) = Expected
  <2> DEFINE w == [k \in Key |-> Atoi(d[k].value)]
  <2>1. Total(d) = SumFunctionOnSet(w, Key)
    BY <1>1 DEF Total, SumFunction
  <2>2. \A k \in Key : w[k] = InitialBalance
    BY <1>2
  <2> HIDE DEF w
  <2> QED
    BY <1>3, <2>1, <2>2, DemoAssumption, SumConstant DEF Expected
<1>5. Itoa(InitialBalance) \in Value
  <2>1. MaxTransfer * MaxTxns \in Nat
    BY DemoAssumption, MaxTxnsAssumption
  <2>2. InitialBalance \in 0 .. InitialBalance + MaxTransfer * MaxTxns
    BY <1>3, <2>1
  <2> QED
    BY <2>2, DemoAssumption
<1>6. Itoa(InitialBalance) \in Amount
  BY <1>3, CeilingNat, AmountNat
<1> QED
  BY <1>1, <1>4, <1>5, <1>6

-----------------------------------------------------------------------------
(***************************************************************************)
(* The demo's steps are steps of RemoteImmediate.                          *)
(***************************************************************************)
LEMMA JobFacts ==
    ASSUME Jobs, NEW c \in Client, job[c] # NoJob
    PROVE  /\ job[c].txn \in Txn /\ job[c].src \in Key /\ job[c].dst \in Key
           /\ job[c].src # job[c].dst /\ job[c].amount \in 1 .. MaxTransfer /\ job[c].amount \in Nat
BY DemoAssumption DEF Jobs, TransferJob

LEMMA BalanceOf ==
    ASSUME NEW j, j.txn \in Txn, ReadsKept, NEW o \in observed[j.txn]
    PROVE  /\ HasRead(j, o.key) /\ Balance(j, o.key) = Atoi(o.value)
           /\ Balance(j, o.key) \in 0 .. Ceiling
<1>1. (CHOOSE p \in observed[j.txn] : p.key = o.key) = o
  BY DEF ReadsKept, ReadOnce
<1>2. o.value \in {<< >>} \cup Amount
  BY DEF ReadsKept, ReadOnce
<1> QED
  BY <1>1, <1>2, AmountNat DEF HasRead, Balance

\* What a client does with its transaction.
LEMMA WorkCases ==
    ASSUME Whole, NEW c \in Client, Work(c), NEW j, j = job[c], NEW t, t = j.txn
    PROVE  /\ j # NoJob /\ t \in Txn /\ InBody(j) /\ UNCHANGED demoVars
           /\ \/ \E k \in {j.src, j.dst} : ~ HasRead(j, k) /\ (k = j.dst => HasRead(j, j.src)) /\ ReadKey(t, k)
              \/ HasRead(j, j.dst) /\ Covered(j) /\ writeSet[t] = << >> /\ WriteKey(t, j.src, Debit(j).value)
              \/ writeSet[t] = <<Debit(j)>> /\ WriteKey(t, j.dst, Credit(j).value)
              \/ /\ HasRead(j, j.dst) /\ Covered(j) /\ writeSet[t] = <<Debit(j), Credit(j)>>
                 /\ Submit(t) \/ SubmitLost(t)
              \/ Active(t) /\ Discard(t)
              \/ Reply(t) \/ ReplyLost(t) \/ Disconnected(t)
<1>1. /\ j # NoJob /\ Transfer(j) /\ UNCHANGED demoVars
      /\ Jobs /\ Progress
  BY DEF Work, Whole, DemoInv, ClientPart
<1>2. InBody(j) /\ t \in Txn
  BY <1>1, JobFacts DEF Progress, Jobs
<1>3. ASSUME NEW a, NEW b PROVE Len(<<a>>) = 1 /\ Len(<<a, b>>) = 2 /\ Len(<< >>) = 0
  OBVIOUS
<1>4. \/ Len(writeSet[t]) = 0 /\ writeSet[t] = << >>
      \/ Len(writeSet[t]) = 1 /\ writeSet[t] = <<Debit(j)>>
      \/ Len(writeSet[t]) = 2 /\ writeSet[t] = <<Debit(j), Credit(j)>>
  BY <1>2, <1>3, Zenon DEF InBody
<1>5. \/ ~ HasRead(j, j.src) /\ ReadKey(j.txn, j.src)
      \/ HasRead(j, j.src) /\ ~ HasRead(j, j.dst) /\ ReadKey(j.txn, j.dst)
      \/ /\ HasRead(j, j.dst)
         /\ Covered(j)
         /\ \/ Len(writeSet[t]) = 0 /\ WriteKey(t, j.src, Debit(j).value)
            \/ Len(writeSet[t]) = 1 /\ WriteKey(t, j.dst, Credit(j).value)
            \/ Len(writeSet[t]) = 2 /\ (Submit(t) \/ SubmitLost(t))
      \/ Active(t) /\ Discard(t)
      \/ Reply(t) \/ ReplyLost(t) \/ Disconnected(t)
  <2>1. Debit(j).value = Itoa(Balance(j, j.src) - j.amount)
        /\ Credit(j).value = Itoa(Balance(j, j.dst) + j.amount)
    BY DEF Debit, Credit
  <2> QED
    BY <1>1, <1>4, <2>1 DEF Transfer
<1>6. j.src # j.dst
  BY <1>1, JobFacts
<1> QED
  BY <1>1, <1>2, <1>4, <1>5, <1>6

\* The amounts that a transfer writes are values of the store.
LEMMA WrittenAmounts ==
    ASSUME Jobs, ReadsKept, NEW c \in Client, job[c] # NoJob, NEW j, j = job[c],
           InBody(j), HasRead(j, j.dst), Covered(j), installed[j.txn] = 0
    PROVE  Debit(j).value \in Value /\ Credit(j).value \in Value
<1>1. /\ j.txn \in Txn /\ j.amount \in Nat /\ j.amount <= MaxTransfer /\ MaxTransfer \in Nat
      /\ Ceiling \in Nat
  BY JobFacts, CeilingNat, DemoAssumption DEF Jobs, TransferJob
<1>2. PICK o \in observed[j.txn], p \in observed[j.txn] : o.key = j.src /\ p.key = j.dst
  BY DEF InBody, HasRead
<1>3. Balance(j, j.src) \in 0 .. Ceiling /\ Balance(j, j.dst) \in 0 .. Ceiling
  BY <1>1, <1>2, BalanceOf
<1>4. PICK top : top = InitialBalance + MaxTransfer * MaxTxns /\ top \in Nat
  BY DemoAssumption, MaxTxnsAssumption
<1>5. Ceiling + MaxTransfer <= top
  BY <1>1, <1>4, CeilingLeaves
<1>6. /\ Balance(j, j.src) - j.amount \in 0 .. top
      /\ Balance(j, j.dst) + j.amount \in 0 .. top
  BY <1>1, <1>3, <1>4, <1>5 DEF Covered
<1> QED
  BY <1>4, <1>6, DemoAssumption DEF Debit, Credit

LEMMA WorkImplements ==
    ASSUME Whole, NEW c \in Client, Work(c)
    PROVE  /\ ClientStep \/ \E t \in Txn : Submit(t)
           /\ ClientOp(job[c].txn) /\ ClientFrame(job[c].txn)
<1>0. PICK j, t : j = job[c] /\ t = j.txn
  OBVIOUS
<1>1. Jobs /\ ReadsKept /\ Types /\ SentNotActive(Holder)
  BY StrongParts DEF Whole, DemoInv, ClientPart, StorePart, DeployInv, ClientInv
<1>2. j # NoJob /\ t \in Txn /\ InBody(j)
  BY <1>0, WorkCases
<1>3. j.src \in Key /\ j.dst \in Key
  BY <1>0, <1>1, <1>2, JobFacts
<1>4. ASSUME NEW k \in {j.src, j.dst}, ReadKey(t, k)
      PROVE  ClientStep /\ ClientOp(t) /\ ClientFrame(t)
  <2>1. k \in Key
    BY <1>3
  <2> QED
    BY <1>1, <1>2, <1>4, <2>1, FailsGrow, UnchangedGrow
    DEF ClientStep, ReadKey, GetFails, Local, remoteVars, deployVars, ClientOp, Operation,
        ClientFrame, Types, DeployTypeOK
<1>5. ASSUME NEW k \in {j.src, j.dst}, NEW v \in {Debit(j).value, Credit(j).value},
             HasRead(j, j.dst), Covered(j), WriteKey(t, k, v)
      PROVE  ClientStep /\ ClientOp(t) /\ ClientFrame(t)
  <2>1. installed[t] = 0
    <3>1. state[t] = "active"
      BY <1>5 DEF WriteKey, Write, Active
    <3>2. Numbers(t, Holder) = {}
      BY <1>1, <1>2, <3>1 DEF SentNotActive
    <3> QED
      BY <3>2 DEF Numbers
  <2>2. k \in Key /\ v \in Value
    BY <1>0, <1>1, <1>2, <1>3, <1>5, <2>1, WrittenAmounts
  <2> QED
    BY <1>1, <1>2, <1>5, <2>2, UnchangedGrow
    DEF ClientStep, WriteKey, Local, remoteVars, deployVars, ClientOp, Operation,
        ClientFrame, Types, DeployTypeOK
<1>6. ASSUME SubmitLost(t) \/ ReplyLost(t)
      PROVE  ClientStep /\ ClientOp(t) /\ ClientFrame(t)
  BY <1>1, <1>2, <1>6, FailsGrow, UnchangedGrow
  DEF ClientStep, SubmitLost, ReplyLost, deployVars, ClientOp, Operation, ClientFrame, Types,
      DeployTypeOK
<1>7. ASSUME Discard(t) \/ Disconnected(t) \/ Reply(t)
      PROVE  ClientStep /\ ClientOp(t) /\ ClientFrame(t)
  BY <1>1, <1>2, <1>7, UnchangedGrow
  DEF ClientStep, Discard, Disconnected, Reply, Local, remoteVars, deployVars, ClientOp, Operation,
      ClientFrame, Types, DeployTypeOK
<1>8. ASSUME writeSet[t] = <<Debit(j)>> PROVE HasRead(j, j.dst) /\ Covered(j)
  BY <1>0, <1>2, <1>8 DEF InBody
<1>9. (ClientStep \/ Submit(t)) /\ ClientOp(t) /\ ClientFrame(t)
  BY <1>0, <1>1, <1>2, <1>4, <1>5, <1>6, <1>7, <1>8, WorkCases, SubmitCases
<1> QED
  BY <1>0, <1>2, <1>9

LEMMA LoadImplements ==
    ASSUME LoadAccounts
    PROVE  \E keys \in SUBSET Key : \E initial \in [keys -> Value] : Load(initial)
<1>1. [k \in Key |-> Itoa(InitialBalance)] \in [Key -> Value]
  BY LoadedAccounts
<1> QED
  BY <1>1 DEF LoadAccounts

LEMMA DemoSteps ==
    [DemoNext]_allVars =>
        \/ LoadAccounts /\ UNCHANGED mu
        \/ \E k \in Key : PrintBalance(k) /\ UNCHANGED mu
        \/ \E c \in Client : (StartTransfer(c) \/ Work(c) \/ Count(c)) /\ UNCHANGED mu
        \/ ServerStep /\ UNCHANGED demoVars
        \/ UNCHANGED <<vars, demoVars>>
BY DEF DemoNext, PrintResults, Demo, allVars, demoVars

LEMMA StepImplements == Whole /\ [DemoNext]_allVars => [RemoteNext]_vars
<1> SUFFICES ASSUME Whole, [DemoNext]_allVars PROVE [RemoteNext]_vars
  OBVIOUS
<1>1. CASE LoadAccounts /\ UNCHANGED mu
  <2>1. ClientStep
    BY <1>1, LoadImplements DEF ClientStep
  <2> QED
    BY <1>1, <2>1 DEF RemoteNext
<1>2. ASSUME NEW k \in Key, PrintBalance(k) /\ UNCHANGED mu PROVE UNCHANGED vars
  BY <1>2 DEF PrintBalance, vars
<1>3. ASSUME NEW c \in Client, StartTransfer(c) /\ UNCHANGED mu PROVE RemoteNext
  BY <1>3 DEF StartTransfer, ClientStep, RemoteNext
<1>4. ASSUME NEW c \in Client, Work(c) /\ UNCHANGED mu PROVE RemoteNext
  BY <1>4, WorkImplements DEF RemoteNext
<1>5. ASSUME NEW c \in Client, Count(c) /\ UNCHANGED mu PROVE UNCHANGED vars
  BY <1>5 DEF Count, vars
<1>6. ServerStep => RemoteNext
  BY DEF RemoteNext
<1> QED
  BY <1>1, <1>2, <1>3, <1>4, <1>5, <1>6, DemoSteps

LEMMA StepStrong == Whole /\ [DemoNext]_allVars => Strong'
BY StepImplements, NextStrong DEF Whole

-----------------------------------------------------------------------------
(***************************************************************************)
(* The clients' side of the invariant.                                     *)
(***************************************************************************)
LEMMA InBodyKept ==
    ASSUME NEW j, InBody(j), UNCHANGED <<observed[j.txn], writeSet[j.txn]>>
    PROVE  InBody(j)'
BY DEF InBody, HasRead, Covered, Balance, Debit, Credit

LEMMA ProgressNext ==
    ASSUME \A c \in Client, j \in TransferJob : j = job'[c] => InBody(j)'
    PROVE  Progress'
BY DEF Progress

LEMMA ClientPartKept ==
    ASSUME ClientPart, UNCHANGED <<job, rounds, state, observed, readSet, writeSet>>
    PROVE  ClientPart'
<1>1. Jobs' /\ Untouched'
  BY DEF ClientPart, Jobs, Untouched
<1>2. Progress'
  BY InBodyKept, ProgressNext DEF ClientPart, Progress
<1> QED
  BY <1>1, <1>2 DEF ClientPart

\* A transaction that starts is nobody's yet.
LEMMA StartFacts ==
    ASSUME Whole, NEW c \in Client, StartTransfer(c)
    PROVE  \E t \in Txn, j \in TransferJob :
              /\ j.txn = t /\ j.src # j.dst /\ j # NoJob
              /\ job[c] = NoJob /\ rounds[c] < TxnsPerClient
              /\ job' = [job EXCEPT ![c] = j]
              /\ state[t] = "unborn" /\ state' = [state EXCEPT ![t] = "active"]
              /\ UNCHANGED <<rounds, balances, observed, readSet, writeSet, data, latestVersion,
                             commitSeq, result, late, strays, faults, installed, calls, phase, server>>
<1>1. /\ idCounter < MaxTxns /\ state' = [state EXCEPT ![idCounter + 1] = "active"]
      /\ job[c] = NoJob /\ rounds[c] < TxnsPerClient
      /\ UNCHANGED <<rounds, balances, observed, readSet, writeSet, data, latestVersion,
                     commitSeq, result, late, strays, faults, installed, calls, phase, server>>
  BY DEF StartTransfer, StartTxn, Begin, Local, certVars, remoteVars, deployVars
<1>2. idCounter \in 0 .. MaxTxns /\ NotBegun
  BY StrongParts DEF Whole, Types, DeployTypeOK, ExecTypeOK, DeployInv, ClientInv
<1>3. PICK t \in Txn : t = idCounter + 1
  BY <1>1, <1>2, MaxTxnsAssumption DEF Txn
<1>4. state[t] = "unborn"
  BY <1>2, <1>3 DEF NotBegun
<1>5. PICK src \in Key, dst \in Key, amount \in 1 .. MaxTransfer :
        /\ src # dst
        /\ job' = [job EXCEPT ![c] = [txn |-> t, src |-> src, dst |-> dst, amount |-> amount]]
  BY <1>3 DEF StartTransfer
<1>6. PICK j : j = [txn |-> t, src |-> src, dst |-> dst, amount |-> amount]
  OBVIOUS
<1>7. j \in TransferJob /\ j.txn = t /\ j.src # j.dst
  BY <1>5, <1>6 DEF TransferJob
<1>8. j # NoJob
  BY <1>7, NoTxnIsNone DEF NoJob
<1>9. job' = [job EXCEPT ![c] = j] /\ state' = [state EXCEPT ![t] = "active"]
  BY <1>1, <1>3, <1>5, <1>6, Zenon
<1> QED
  BY <1>1, <1>4, <1>7, <1>8, <1>9

LEMMA StartClient ==
    ASSUME Whole, NEW c \in Client, StartTransfer(c)
    PROVE  ClientPart'
<1>1. PICK t \in Txn, j \in TransferJob :
        /\ j.txn = t /\ j.src # j.dst /\ j # NoJob
        /\ job[c] = NoJob /\ rounds[c] < TxnsPerClient
        /\ job' = [job EXCEPT ![c] = j]
        /\ state[t] = "unborn" /\ state' = [state EXCEPT ![t] = "active"]
        /\ UNCHANGED <<rounds, observed, readSet, writeSet>>
  BY StartFacts
<1>2. Jobs /\ Untouched /\ Progress
  BY DEF Whole, DemoInv, ClientPart
<1>3. job'[c] = j /\ \A d \in Client \ {c} : job'[d] = job[d]
  BY <1>1, <1>2 DEF Jobs
<1>4. \A d \in Client : job[d] # NoJob => job[d].txn # t /\ job[d].txn \in Txn
  BY <1>1, <1>2, JobFacts DEF Jobs
<1>5. /\ state \in [Txn -> TxnState] /\ state'[t] = "active"
      /\ \A u \in Txn \ {t} : state'[u] = state[u]
  BY <1>1, StrongParts DEF Whole, Types, DeployTypeOK, ExecTypeOK
<1>6. Jobs'
  <2>1. job' \in [Client -> {NoJob} \cup TransferJob] /\ rounds' \in [Client -> 0 .. TxnsPerClient]
    BY <1>1, <1>2 DEF Jobs
  <2>2. ASSUME NEW d \in Client, job'[d] # NoJob
        PROVE  /\ rounds[d] < TxnsPerClient
               /\ job'[d].src # job'[d].dst
               /\ state'[job'[d].txn] # "unborn"
    <3>1. CASE d = c
      BY <1>1, <1>3, <1>5, <3>1
    <3>2. CASE d # c
      <4>1. job'[d] = job[d] /\ job[d] # NoJob
        BY <1>3, <2>2, <3>2
      <4>2. state'[job[d].txn] = state[job[d].txn]
        BY <1>4, <1>5, <4>1
      <4> QED
        BY <1>2, <4>1, <4>2 DEF Jobs
    <3> QED
      BY <3>1, <3>2
  <2>3. ASSUME NEW d \in Client, NEW e \in Client, job'[d] # NoJob, job'[e] # NoJob,
               job'[d].txn = job'[e].txn
        PROVE  d = e
    BY <1>1, <1>2, <1>3, <1>4, <2>3 DEF Jobs
  <2>4. ASSUME NEW u \in Txn, state'[u] \in {"active", "submitted"}
        PROVE  \E d \in Client : job'[d] # NoJob /\ job'[d].txn = u
    <3>1. CASE u = t
      BY <1>1, <1>3, <3>1
    <3>2. CASE u # t
      <4>1. PICK d \in Client : job[d] # NoJob /\ job[d].txn = u
        BY <1>2, <1>5, <2>4, <3>2 DEF Jobs
      <4> QED
        BY <1>1, <1>3, <4>1
    <3> QED
      BY <3>1, <3>2
  <2> QED
    BY <1>1, <2>1, <2>2, <2>3, <2>4 DEF Jobs
<1>7. Untouched'
  BY <1>1, <1>2, <1>5 DEF Untouched
<1>8. Progress'
  <2>1. ASSUME NEW i \in TransferJob, NEW d \in Client, i = job'[d] PROVE InBody(i)'
    <3>1. InBody(i)
      <4>1. CASE d = c
        <5>1. i = j /\ observed[i.txn] = {} /\ writeSet[i.txn] = << >>
          BY <1>1, <1>2, <1>3, <2>1, <4>1 DEF Untouched
        <5> QED
          BY <5>1 DEF InBody, HasRead
      <4>2. CASE d # c
        BY <1>2, <1>3, <2>1, <4>2 DEF Progress
      <4> QED
        BY <4>1, <4>2
    <3> QED
      BY <1>1, <3>1, InBodyKept
  <2> QED
    BY <2>1, ProgressNext
<1> QED
  BY <1>6, <1>7, <1>8 DEF ClientPart

LEMMA CountClient ==
    ASSUME Whole, NEW c \in Client, Count(c)
    PROVE  ClientPart'
<1>1. /\ job[c] # NoJob /\ state[job[c].txn] \in {"committed", "aborted"}
      /\ job' = [job EXCEPT ![c] = NoJob]
      /\ rounds' = [rounds EXCEPT ![c] = @ + 1]
      /\ UNCHANGED <<state, observed, readSet, writeSet>>
  BY DEF Count, execVars
<1>2. Jobs /\ Untouched /\ Progress
  BY DEF Whole, DemoInv, ClientPart
<1>3. job'[c] = NoJob /\ \A d \in Client \ {c} : job'[d] = job[d] /\ rounds'[d] = rounds[d]
  BY <1>1, <1>2 DEF Jobs
<1>4. Jobs'
  <2>1. job' \in [Client -> {NoJob} \cup TransferJob]
    BY <1>1, <1>2 DEF Jobs
  <2>2. rounds' \in [Client -> 0 .. TxnsPerClient]
    <3>1. rounds[c] + 1 \in 0 .. TxnsPerClient
      BY <1>1, <1>2, DemoAssumption DEF Jobs
    <3> QED
      BY <1>1, <1>2, <3>1 DEF Jobs
  <2>3. \A t \in Txn : state[t] \in {"active", "submitted"} =>
          \E d \in Client : job'[d] # NoJob /\ job'[d].txn = t
    BY <1>1, <1>2, <1>3 DEF Jobs
  <2> QED
    BY <1>1, <1>2, <1>3, <2>1, <2>2, <2>3 DEF Jobs
<1>5. Untouched'
  BY <1>1, <1>2 DEF Untouched
<1>6. Progress'
  <2>1. ASSUME NEW i \in TransferJob, NEW d \in Client, i = job'[d] PROVE InBody(i)'
    <3>1. InBody(i)
      <4>1. i # NoJob
        BY NoTxnIsNone DEF TransferJob, NoJob
      <4> QED
        BY <1>2, <1>3, <2>1, <4>1 DEF Progress
    <3> QED
      BY <1>1, <3>1, InBodyKept
  <2> QED
    BY <2>1, ProgressNext
<1> QED
  BY <1>4, <1>5, <1>6 DEF ClientPart

\* The first read of an account, which may fail.
LEMMA ReadEffect ==
    ASSUME Whole, NEW t \in Txn, NEW k \in Key, ReadKey(t, k),
           \A o \in observed[t] : o.key # k
    PROVE  \E r \in {data[k], NotFound} :
              /\ observed'[t] = observed[t] \cup {[key |-> k, value |-> r.value]}
              /\ readSet'[t] = readSet[t] \cup {[key |-> k, versionSeen |-> r.version]}
              /\ writeSet' = writeSet /\ Active(t) /\ state' = state
<1>1. PICK r \in {data[k], NotFound} : ReadFrom(t, k, r)
  BY DEF ReadKey, Read, Get, GetFails
<1>2. ~ Seen(t, k)
  BY DEF Whole, DemoInv, StorePart, ReadsKept, ReadOnce, Seen
<1>3. observed \in [Txn -> SUBSET Observation] /\ readSet \in [Txn -> SUBSET ReadEntry]
  BY StrongParts DEF Whole, Types, DeployTypeOK, ExecTypeOK
<1> QED
  BY <1>1, <1>2, <1>3 DEF ReadFrom, RecordRead

LEMMA WorkBody ==
    ASSUME Whole, NEW c \in Client, Work(c), NEW j, j = job[c]
    PROVE  InBody(j)'
<1>0. PICK t : t = j.txn
  OBVIOUS
<1>1. t \in Txn /\ InBody(j) /\ j # NoJob
  BY <1>0, WorkCases
<1>2. j.src \in Key /\ j.dst \in Key
  BY <1>1, JobFacts DEF Whole, DemoInv, ClientPart
<1>3. writeSet \in [Txn -> Seq(WriteEntry)]
  BY StrongParts DEF Whole, Types, DeployTypeOK, ExecTypeOK
<1>4. ASSUME NEW k \in {j.src, j.dst}, ~ HasRead(j, k), k = j.dst => HasRead(j, j.src), ReadKey(t, k)
      PROVE  InBody(j)'
  <2>1. \A o \in observed[t] : o.key # k
    BY <1>0, <1>4 DEF HasRead
  <2>2. PICK r \in {data[k], NotFound} :
          observed'[t] = observed[t] \cup {[key |-> k, value |-> r.value]} /\ writeSet' = writeSet
    BY <1>1, <1>2, <1>4, <2>1, ReadEffect
  <2>3. writeSet[t] = << >>
    BY <1>0, <1>1, <1>4 DEF InBody
  <2>4. \A o \in observed'[t] : o.key \in {j.src, j.dst}
    BY <1>0, <1>1, <2>2 DEF InBody
  <2>5. HasRead(j, j.dst)' => HasRead(j, j.src)'
    BY <1>0, <1>1, <1>4, <2>2 DEF InBody, HasRead
  <2> QED
    BY <1>0, <2>2, <2>3, <2>4, <2>5 DEF InBody
<1>5. ASSUME NEW k, NEW v, WriteKey(t, k, v)
      PROVE  UNCHANGED observed /\ writeSet'[t] = Append(writeSet[t], [key |-> k, value |-> v])
  BY <1>1, <1>3, <1>5 DEF WriteKey, Write
<1>6. /\ Debit(j) = [key |-> j.src, value |-> Debit(j).value]
      /\ Credit(j) = [key |-> j.dst, value |-> Credit(j).value]
  BY DEF Debit, Credit
<1>7. ASSUME HasRead(j, j.dst), Covered(j), UNCHANGED observed,
             writeSet'[t] \in {<<Debit(j)>>, <<Debit(j), Credit(j)>>}
      PROVE  InBody(j)'
  <2>1. Debit(j)' = Debit(j) /\ Credit(j)' = Credit(j)
    BY <1>7 DEF Debit, Credit, Balance
  <2>2. HasRead(j, j.dst)' /\ HasRead(j, j.src)' /\ Covered(j)'
    BY <1>1, <1>7 DEF InBody, HasRead, Covered, Balance
  <2>3. \A o \in observed'[t] : o.key \in {j.src, j.dst}
    BY <1>0, <1>1, <1>7 DEF InBody
  <2> QED
    BY <1>0, <1>7, <2>1, <2>2, <2>3 DEF InBody
<1>8. ASSUME HasRead(j, j.dst), Covered(j), writeSet[t] = << >>,
             WriteKey(t, j.src, Debit(j).value)
      PROVE  InBody(j)'
  <2>1. PICK d : d = Debit(j)
    OBVIOUS
  <2>2. UNCHANGED observed /\ writeSet'[t] = Append(<< >>, d)
    BY <1>5, <1>6, <1>8, <2>1
  <2>3. Append(<< >>, d) = <<d>>
    <3>1. /\ Append(<< >>, d) \in Seq({d}) /\ Len(Append(<< >>, d)) = 1
          /\ Append(<< >>, d)[1] = d
      BY AppendProperties
    <3> QED
      BY <3>1
  <2> QED
    BY <1>7, <1>8, <2>1, <2>2, <2>3
<1>9. ASSUME writeSet[t] = <<Debit(j)>>, WriteKey(t, j.dst, Credit(j).value)
      PROVE  InBody(j)'
  <2>1. PICK d, e : d = Debit(j) /\ e = Credit(j)
    OBVIOUS
  <2>2. UNCHANGED observed /\ writeSet'[t] = Append(<<d>>, e)
    BY <1>5, <1>6, <1>9, <2>1
  <2>3. Append(<<d>>, e) = <<d, e>>
    <3>1. <<d>> \in Seq({d, e}) /\ <<d, e>> \in Seq({d, e}) /\ e \in {d, e}
      OBVIOUS
    <3>2. PICK s : s = Append(<<d>>, e)
      OBVIOUS
    <3>3. s \in Seq({d, e}) /\ Len(s) = 2 /\ s[1] = d /\ s[2] = e
      BY <3>1, <3>2, AppendProperties
    <3>4. PICK w : w = <<d, e>>
      OBVIOUS
    <3>5. w \in Seq({d, e}) /\ Len(w) = 2 /\ w[1] = d /\ w[2] = e
      BY <3>1, <3>4
    <3>6. \A i \in 1 .. 2 : s[i] = w[i]
      BY <3>3, <3>5
    <3>7. s = w
      BY <3>3, <3>5, <3>6, SeqEqual
    <3> QED
      BY <3>2, <3>4, <3>7
  <2>4. HasRead(j, j.dst) /\ Covered(j)
    BY <1>0, <1>1, <1>9 DEF InBody
  <2> QED
    BY <1>7, <2>1, <2>2, <2>3, <2>4
<1>10. ASSUME \/ Submit(t) \/ SubmitLost(t) \/ Discard(t)
              \/ Reply(t) \/ ReplyLost(t) \/ Disconnected(t)
       PROVE  InBody(j)'
  <2>1. UNCHANGED <<observed, writeSet>>
    BY <1>10 DEF Submit, SubmitLost, Commit, Discard, Abort, Reply, ReplyLost, Disconnected, CommitReturn
  <2> QED
    BY <1>0, <1>1, <2>1, InBodyKept
<1> QED
  BY <1>0, <1>4, <1>8, <1>9, <1>10, WorkCases

LEMMA WorkClient ==
    ASSUME Whole, NEW c \in Client, Work(c)
    PROVE  ClientPart'
<1>0. PICK j, t : j = job[c] /\ t = j.txn
  OBVIOUS
<1>1. t \in Txn /\ j # NoJob /\ UNCHANGED <<job, rounds>>
  BY <1>0, WorkCases DEF demoVars
<1>2. Jobs /\ Untouched /\ Progress /\ Types
  BY StrongParts DEF Whole, DemoInv, ClientPart
<1>3. ClientOp(t)
  BY <1>0, WorkImplements
<1>4. /\ \A u \in Txn \ {t} : UNCHANGED <<state[u], readSet[u], writeSet[u], observed[u]>>
      /\ state[t] # "unborn" /\ state'[t] # "unborn"
  BY <1>1, <1>2, <1>3, ClientOpFacts
<1>5. \A d \in Client : job[d] # NoJob /\ d # c => job[d].txn \in Txn \ {t}
  BY <1>0, <1>1, <1>2, JobFacts DEF Jobs
<1>6. Jobs'
  <2>1. ASSUME NEW d \in Client, job[d] # NoJob PROVE state'[job[d].txn] # "unborn"
    BY <1>0, <1>2, <1>4, <1>5, <2>1 DEF Jobs
  <2>2. ASSUME NEW u \in Txn, state'[u] \in {"active", "submitted"}
        PROVE  \E d \in Client : job[d] # NoJob /\ job[d].txn = u
    <3>1. CASE u = t
      BY <1>0, <1>1, <3>1
    <3>2. CASE u # t
      BY <1>2, <1>4, <2>2, <3>2 DEF Jobs
    <3> QED
      BY <3>1, <3>2
  <2> QED
    BY <1>1, <1>2, <2>1, <2>2 DEF Jobs
<1>7. Untouched'
  BY <1>2, <1>4 DEF Untouched
<1>8. Progress'
  <2>1. ASSUME NEW i \in TransferJob, NEW d \in Client, i = job'[d] PROVE InBody(i)'
    <3>1. i # NoJob /\ i = job[d] /\ InBody(i)
      BY <1>1, <1>2, <2>1, NoTxnIsNone DEF TransferJob, NoJob, Progress
    <3>2. CASE d = c
      BY <2>1, <3>1, <3>2, WorkBody
    <3>3. CASE d # c
      <4>1. UNCHANGED <<observed[i.txn], writeSet[i.txn]>>
        BY <1>4, <1>5, <3>1, <3>3
      <4> QED
        BY <3>1, <4>1, InBodyKept
    <3> QED
      BY <3>2, <3>3
  <2> QED
    BY <2>1, ProgressNext
<1> QED
  BY <1>6, <1>7, <1>8 DEF ClientPart

-----------------------------------------------------------------------------
(***************************************************************************)
(* The store's side: steps that leave the entries and the sets alone.      *)
(***************************************************************************)
LEMMA TransferKept ==
    ASSUME NEW t, UNCHANGED <<observed[t], writeSet[t]>>
    PROVE  IsTransfer(t)' <=> IsTransfer(t)
BY DEF IsTransfer, Moves

LEMMA ReadOnceKept ==
    ASSUME NEW t, ReadOnce(t), UNCHANGED <<observed[t], readSet[t], data, installed>>
    PROVE  ReadOnce(t)'
BY AmountsKept DEF ReadOnce

LEMMA LoadHappened ==
    ASSUME RemoteTypeOK, FaultsGrow, Happened("load")
    PROVE  Happened("load")'
BY DEF Happened, FaultsGrow, RemoteTypeOK

LEMMA FundsKept ==
    ASSUME Funds, RemoteTypeOK, FaultsGrow, UNCHANGED data, UNCHANGED installed,
           phase' \in {phase, "ready"}, phase' # phase => phase # "empty"
    PROVE  Funds' /\ (Balanced => Balanced')
<1>1. Amount' = Amount
  BY AmountsKept
<1>2. Stocked' <=> Stocked
  BY <1>1 DEF Stocked
<1>3. Funds'
  BY <1>2, LoadHappened DEF Funds
<1>4. Total(data)' = Total(data) /\ Expected' = Expected
  BY DEF Total, Expected
<1> QED
  BY <1>2, <1>3, <1>4 DEF Balanced

LEMMA KeptStore ==
    ASSUME StorePart, RemoteTypeOK, FaultsGrow,
           UNCHANGED <<data, readSet, writeSet, observed, installed>>,
           phase' \in {phase, "ready"}, phase' # phase => phase # "empty",
           \A t \in Txn : state'[t] = "submitted" => state[t] = "submitted",
           calls' \subseteq calls, strays' \subseteq strays \cup late,
           \A t \in Txn, n \in Nat : Sends(t, n)' => Sends(t, n),
           \/ latestVersion' = latestVersion
           \/ MapKnows' /\ \A t \in Txn, n \in Nat : ~ Sends(t, n)'
    PROVE  StorePart'
<1>1. ReadsKept' /\ Funds' /\ (Balanced => Balanced')
  BY ReadOnceKept, FundsKept DEF StorePart, ReadsKept
<1>2. Sent'
  <2>1. ASSUME NEW t \in Txn,
               \/ state'[t] = "submitted" \/ t \in calls'
               \/ (\E n \in Nat : Sends(t, n)') \/ IsStray(t)'
        PROVE  IsTransfer(t)'
    <3>1. IsStray(t)' => IsStray(t) \/ \E n \in Nat : Sends(t, n)
      BY DEF IsStray, Sends, RemoteTypeOK, CommitRecord
    <3>2. IsTransfer(t)
      BY <2>1, <3>1 DEF StorePart, Sent
    <3> QED
      BY <3>2, TransferKept
  <2> QED
    BY <2>1 DEF Sent
<1>3. InFlight => InFlight'
  <2>1. SUFFICES ASSUME InFlight PROVE InFlight'
    OBVIOUS
  <2>2. ASSUME NEW t \in Txn, NEW n \in Nat, Sends(t, n)'
        PROVE  Sends(t, n) /\ latestVersion' = latestVersion
    BY <2>2
  <2>3. ASSUME NEW t \in Txn, NEW n \in Nat, Sends(t, n)'
        PROVE  /\ \A k \in Key : Writes(t, k)' => latestVersion'[k] = n /\ data'[k].version < n
               /\ \A r \in readSet'[t] : r.versionSeen = data'[r.key].version
    BY <2>1, <2>2, <2>3 DEF InFlight, Writes
  <2>4. ASSUME NEW t \in Txn, NEW u \in Txn, NEW m \in Nat, NEW n \in Nat, NEW k \in Key,
               Sends(t, m)', Sends(u, n)', Writes(t, k)', Writes(u, k)'
        PROVE  t = u
    BY <2>1, <2>2, <2>4 DEF InFlight, Writes
  <2> QED
    BY <2>3, <2>4 DEF InFlight
<1>4. MapKnows => MapKnows'
  BY DEF MapKnows
<1>5. Undisturbed'
  BY <1>1, <1>3, <1>4, StraySince DEF Undisturbed, StorePart
<1> QED
  BY <1>1, <1>2, <1>5 DEF StorePart

LEMMA AnswersKept ==
    ASSUME AnswerPart, RemoteTypeOK, ClientInv(Holder),
           \A rec \in late' \cup strays' :
             rec \in late \cup strays \/ ~ IsCommitted(rec.txnID)',
           Happened("stray")' => Happened("stray"),
           \A t \in Txn : installed[t] # 0 => installed'[t] # 0,
           \A t \in Txn : result'[t] = result[t] \/ (t \in calls /\ result[t] = NoResult),
           \A t \in Txn : state[t] \notin {"unborn", "active"} =>
             writeSet'[t] = writeSet[t] /\ state'[t] \notin {"unborn", "active"},
           \A t \in calls' : t \in calls \/ state[t] = "active"
    PROVE  AnswerPart'
<1>1. Refused'
  <2>1. ASSUME NEW rec \in late \cup strays PROVE ~ IsCommitted(rec.txnID)'
    <3>1. rec.txnID \in Txn
      BY DEF RemoteTypeOK, CommitRecord
    <3>2. rec.txnID \in calls => result[rec.txnID] # NoResult
      BY DEF ClientInv, LateRecords, StrayRecords
    <3>3. result'[rec.txnID] = result[rec.txnID]
      BY <3>1, <3>2
    <3> QED
      BY <3>3 DEF AnswerPart, Refused, IsCommitted
  <2> QED
    BY <2>1 DEF Refused
<1>2. Strayed'
  <2>1. SUFFICES ASSUME Happened("stray")'
                 PROVE  \E t \in Txn :
                          /\ installed'[t] # 0 /\ ~ IsCommitted(t)' /\ writeSet'[t] # << >>
                          /\ state'[t] \notin {"unborn", "active"}
                          /\ t \in calls' => result'[t] # NoResult
    BY DEF Strayed
  <2>2. PICK t \in Txn : /\ installed[t] # 0 /\ ~ IsCommitted(t) /\ writeSet[t] # << >>
                         /\ state[t] \notin {"unborn", "active"}
                         /\ t \in calls => result[t] # NoResult
    BY <2>1 DEF AnswerPart, Strayed
  <2>3. result'[t] = result[t]
    BY <2>2
  <2>4. ~ IsCommitted(t)'
    BY <2>2, <2>3 DEF IsCommitted
  <2>5. t \in calls' => result'[t] # NoResult
    BY <2>2, <2>3
  <2> QED
    BY <2>2, <2>4, <2>5
<1> QED
  BY <1>1, <1>2 DEF AnswerPart

LEMMA PrintingKept ==
    ASSUME Printing, UNCHANGED balances, phase' \in {phase, "ready"},
           DOMAIN balances # {} /\ AllDone =>
             /\ AllDone'
             /\ AbortsWithoutEffect' => AbortsWithoutEffect /\ UNCHANGED data
    PROVE  Printing'
BY DEF Printing

\* The record of a transaction that has been sent has one number, which was handed out.
LEMMA SendsFacts ==
    ASSUME Whole, NEW t \in Txn, NEW n \in Nat, Sends(t, n)
    PROVE  /\ n \in Numbers(t, Holder) /\ n # 0 /\ n <= commitSeq
           /\ state[t] \notin {"unborn", "active"}
           /\ IsTransfer(t) /\ installed[t] = 0
           /\ t \in calls /\ result[t] = NoResult => t \in Holder
<1>1. /\ Types /\ ClientInv(Holder) /\ Sent /\ mu \in {NoTxn} \cup Txn
  BY StrongParts DEF Whole, DeployInv, DemoInv, StorePart
<1>2. n \in Numbers(t, Holder)
  BY <1>1, NumbersIn DEF Sends
<1>3. n # 0 /\ n <= commitSeq /\ installed[t] = 0 /\ (t \in calls /\ result[t] = NoResult => t \in Holder)
  BY <1>1 DEF Sends, ClientInv, LateRecords, Unanswered, Types, CertTypeOK
<1> QED
  BY <1>1, <1>2, <1>3 DEF ClientInv, SentNotActive, Sent
\* Before the demo is under way nothing has been read, written or sent.
LEMMA NotSent ==
    ASSUME Whole, phase # "ready"
    PROVE  /\ Holder = {} /\ late = {} /\ calls = {}
           /\ \A t \in Txn : readSet[t] = {} /\ observed[t] = {} /\ state[t] # "submitted"
           /\ \A t \in Txn, n \in Nat : ~ Sends(t, n)
<1>1. NotRunning(Holder)
  BY StrongParts DEF Whole, DeployInv, ClientInv
<1> QED
  BY <1>1 DEF NotRunning, Sends

LEMMA DumpKnows ==
    ASSUME Types, Funds, NEW dump \in {data, NewMemStore}, UNCHANGED data,
           latestVersion' = VersionsIn(dump)
    PROVE  MapKnows'
<1>1. \A k \in Key : latestVersion'[k] = dump[k].version /\ NewMemStore[k].version = 0
  BY EmptyDump DEF VersionsIn
<1>2. \A k \in Key : data[k].version \in Nat
  BY DEF Types, DeployTypeOK, StoreTypeOK, ReadResult
<1> QED
  BY <1>1, <1>2 DEF MapKnows, Funds, Stocked

\* Only the arrival of a stray is one.
LEMMA NotStrayed ==
    ASSUME RemoteTypeOK, NEW what, what # "stray", Fails(what) \/ UNCHANGED faults,
           Happened("stray")'
    PROVE  Happened("stray")
BY DEF RemoteTypeOK, Fails, Happened

\* Without accounts there is no money.
LEMMA NoAccounts ==
    ASSUME Types, Key = {}
    PROVE  Total(data) = 0 /\ Expected = 0
<1>1. Cardinality(Key) = 0
  BY FS_EmptySet
<1>2. Expected = 0
  BY <1>1, DemoAssumption DEF Expected
<1>3. DOMAIN data = {}
  BY DEF Types, DeployTypeOK, StoreTypeOK
<1>4. Total(data) = 0
  BY <1>3, SumEmpty DEF Total, SumFunction
<1> QED
  BY <1>2, <1>4

\* LoadInitialData fills the empty store, or fails.
LEMMA LoadFunds ==
    ASSUME Whole, LoadAccounts, UNCHANGED mu
    PROVE  DemoInv'
<1>1. /\ phase = "empty" /\ phase' = "loaded"
      /\ \/ data' = Loaded(data, [k \in Key |-> Itoa(InitialBalance)]) /\ UNCHANGED faults
         \/ Fails("load") /\ UNCHANGED data
      /\ UNCHANGED <<state, readSet, writeSet, observed, latestVersion, commitSeq, result,
                     late, strays, installed, calls, server, job, rounds, balances>>
  BY DEF LoadAccounts, Load, LoadInitialData, execVars, certVars, demoVars
<1>2. /\ ClientPart /\ Sent /\ Undisturbed /\ Funds /\ AnswerPart /\ Printing
      /\ RemoteTypeOK /\ Types /\ ClientInv(Holder)
  BY StrongParts DEF Whole, DemoInv, StorePart, Types, DeployTypeOK, DeployInv
<1>3. FaultsGrow
  BY <1>1, <1>2, FailsGrow, UnchangedGrow
<1>4. data = NewMemStore
  BY <1>1, <1>2 DEF Funds, Stocked
<1>5. /\ Holder' = {} /\ late' = {} /\ calls' = {}
      /\ \A t \in Txn : readSet'[t] = {} /\ observed'[t] = {} /\ state'[t] # "submitted"
  BY <1>1, NotSent DEF Holder
<1>6. \A t \in Txn, n \in Nat : ~ Sends(t, n)'
  BY <1>5 DEF Sends
<1>7. ClientPart'
  BY <1>1, <1>2, ClientPartKept
<1>8. ReadsKept' /\ Sent' /\ InFlight'
  <2>1. ASSUME NEW t \in Txn, IsStray(t)' PROVE IsTransfer(t)'
    <3>1. IsTransfer(t)
      BY <1>1, <1>2, <2>1 DEF IsStray, Sent
    <3> QED
      BY <1>1, <3>1, TransferKept
  <2> QED
    BY <1>5, <1>6, <2>1 DEF ReadsKept, ReadOnce, Sent, InFlight
<1>9. Funds' /\ (~ Happened("stray")' => MapKnows' /\ Balanced')
  <2>1. CASE data' = Loaded(data, [k \in Key |-> Itoa(InitialBalance)])
    <3>1. Total(data') = Expected /\ \A k \in Key : data'[k].version = 1 /\ data'[k].value \in Amount
      BY <1>4, <2>1, LoadedAccounts
    <3>2. Stocked' /\ Balanced'
      <4>1. Total(data)' = Total(data') /\ Expected' = Expected
        BY DEF Total, Expected
      <4>2. \A k \in Key : data'[k].version # 0
        BY <3>1
      <4>3. phase' # "empty" /\ Amount' = Amount
        BY <1>1, AmountsKept
      <4> QED
        BY <3>1, <4>1, <4>2, <4>3, Zenon DEF Stocked, Balanced
    <3>3. \A k \in Key : data[k].version = 0
      BY <1>4, EmptyDump
    <3>4. ~ Happened("stray") => \A k \in Key : latestVersion[k] = 0
      BY <1>2, <3>3 DEF MapKnows, Undisturbed
    <3> QED
      BY <1>1, <1>2, <1>3, <3>2, <3>4, StraySince DEF Funds, MapKnows
  <2>2. CASE Fails("load") /\ UNCHANGED data
    <3>1. Happened("load")'
      BY <1>2, <2>2 DEF Fails, Happened, RemoteTypeOK
    <3>2. Funds' /\ (MapKnows => MapKnows')
      BY <1>1, <1>2, <1>4, <2>2, <3>1 DEF Funds, MapKnows
    <3>3. Balanced'
      <4>1. CASE Key = {}
        <5>1. Total(data) = 0 /\ Expected = 0
          BY <1>2, <4>1, NoAccounts
        <5>2. Total(data)' = Total(data) /\ Expected' = Expected
          BY <2>2 DEF Total, Expected
        <5> QED
          BY <5>1, <5>2 DEF Balanced
      <4>2. CASE Key # {}
        BY <1>4, <2>2, <4>2, EmptyDump DEF Balanced, Stocked
      <4> QED
        BY <4>1, <4>2
    <3> QED
      BY <1>2, <1>3, <3>2, <3>3, StraySince DEF Undisturbed
  <2> QED
    BY <1>1, <2>1, <2>2
<1>10. AnswerPart'
  <2>1. Happened("stray")' => Happened("stray")
    BY <1>1, <1>2, NotStrayed
  <2> QED
    BY <1>1, <1>2, <2>1, AnswersKept DEF IsCommitted, AnswerPart, Refused
<1>11. Printing'
  BY <1>1, <1>2 DEF Printing
<1> QED
  BY <1>7, <1>8, <1>9, <1>10, <1>11 DEF DemoInv, StorePart, Undisturbed

\* What a client's step adds to what its transaction has read.
LEMMA WorkReads ==
    ASSUME Whole, NEW c \in Client, Work(c), NEW t, t = job[c].txn
    PROVE  \/ UNCHANGED <<observed[t], readSet[t]>>
           \/ \E k \in Key : \E r \in {data[k], NotFound} :
                /\ \A o \in observed[t] : o.key # k
                /\ observed'[t] = observed[t] \cup {[key |-> k, value |-> r.value]}
                /\ readSet'[t] = readSet[t] \cup {[key |-> k, versionSeen |-> r.version]}
<1>0. PICK j : j = job[c] /\ t = j.txn
  OBVIOUS
<1>1. t \in Txn /\ j # NoJob
  BY <1>0, WorkCases
<1>2. j.src \in Key /\ j.dst \in Key
  BY <1>0, <1>1, JobFacts DEF Whole, DemoInv, ClientPart
<1>3. ASSUME NEW k \in {j.src, j.dst}, ~ HasRead(j, k), ReadKey(t, k)
      PROVE  \E q \in Key : \E r \in {data[q], NotFound} :
                /\ \A o \in observed[t] : o.key # q
                /\ observed'[t] = observed[t] \cup {[key |-> q, value |-> r.value]}
                /\ readSet'[t] = readSet[t] \cup {[key |-> q, versionSeen |-> r.version]}
  <2>1. k \in Key /\ \A o \in observed[t] : o.key # k
    BY <1>0, <1>2, <1>3 DEF HasRead
  <2>2. \E r \in {data[k], NotFound} :
          /\ observed'[t] = observed[t] \cup {[key |-> k, value |-> r.value]}
          /\ readSet'[t] = readSet[t] \cup {[key |-> k, versionSeen |-> r.version]}
    BY <1>1, <1>3, <2>1, ReadEffect
  <2> QED
    BY <2>1, <2>2
<1>4. ASSUME NEW k, NEW v, WriteKey(t, k, v) PROVE UNCHANGED <<observed, readSet>>
  BY <1>4 DEF WriteKey, Write
<1>5. ASSUME \/ Submit(t) \/ SubmitLost(t) \/ Discard(t)
             \/ Reply(t) \/ ReplyLost(t) \/ Disconnected(t)
      PROVE  UNCHANGED <<observed, readSet>>
  BY <1>5 DEF Submit, SubmitLost, Commit, Discard, Abort, Reply, ReplyLost, Disconnected, CommitReturn
<1> QED
  BY <1>0, <1>3, <1>4, <1>5, WorkCases

LEMMA StoredValues ==
    ASSUME Types, Funds, NEW k \in Key
    PROVE  /\ data[k].version \in Nat
           /\ data[k].version = 0 => data[k].value = << >>
           /\ data[k].value \in {<< >>} \cup Amount
<1>1. data[k].version \in Nat
  BY DEF Types, DeployTypeOK, StoreTypeOK, ReadResult
<1>2. NewMemStore[k].version = 0 /\ NewMemStore[k].value = << >>
  BY DemoAssumption DEF NewMemStore, NotFound
<1> QED
  BY <1>1, <1>2 DEF Funds, Stocked

LEMMA WorkReadsKept ==
    ASSUME Whole, NEW c \in Client, Work(c)
    PROVE  ReadsKept'
<1>0. PICK t : t = job[c].txn
  OBVIOUS
<1>1. t \in Txn /\ ClientOp(t) /\ ClientFrame(t) /\ Types /\ ReadsKept /\ Funds
  BY <1>0, WorkCases, WorkImplements, StrongParts DEF Whole, DemoInv, StorePart
<1>2. /\ \A u \in Txn \ {t} : UNCHANGED <<readSet[u], observed[u]>>
      /\ UNCHANGED data /\ UNCHANGED installed /\ Amount' = Amount
  BY <1>1, ClientOpFacts, AmountsKept DEF ClientFrame
<1>3. ASSUME NEW k \in Key, \A o \in observed[t] : o.key # k, NEW r \in {data[k], NotFound},
             observed'[t] = observed[t] \cup {[key |-> k, value |-> r.value]},
             readSet'[t] = readSet[t] \cup {[key |-> k, versionSeen |-> r.version]}
      PROVE  ReadOnce(t)'
  <2>1. ReadOnce(t)
    BY <1>1 DEF ReadsKept
  <2>2. PICK a, b : a = [key |-> k, value |-> r.value] /\ b = [key |-> k, versionSeen |-> r.version]
    OBVIOUS
  <2>3. a.key = k /\ a.value = r.value /\ b.key = k /\ b.versionSeen = r.version
    BY <2>2
  <2>4. /\ r.version = 0 => r.value = << >>
        /\ r.version # 0 => r.value = data[k].value
        /\ r.value \in {<< >>} \cup Amount
    BY <1>1, StoredValues, DemoAssumption DEF NotFound
  <2>5. observed'[t] = observed[t] \cup {a} /\ readSet'[t] = readSet[t] \cup {b}
    BY <1>3, <2>2
  <2>6. \A q \in readSet[t] : q.key # k
    BY <1>3, <2>1 DEF ReadOnce
  <2>7. \A o, p \in observed'[t] : o.key = p.key => o = p
    BY <1>3, <2>1, <2>3, <2>5 DEF ReadOnce
  <2>8. \A q \in readSet'[t] : \E o \in observed'[t] : o.key = q.key
    BY <2>1, <2>3, <2>5 DEF ReadOnce
  <2>9. \A o \in observed'[t] : o.value \in {<< >>} \cup Amount
    BY <2>1, <2>3, <2>4, <2>5 DEF ReadOnce
  <2>10. ASSUME NEW o \in observed'[t], NEW q \in readSet'[t], q.key = o.key
         PROVE  /\ q.versionSeen = 0 => o.value = << >>
                /\ q.versionSeen # 0 /\ q.versionSeen = data[q.key].version => o.value = data[q.key].value
    <3>1. CASE q = b
      <4>1. o = a
        BY <1>3, <2>3, <2>5, <2>10, <3>1
      <4> QED
        BY <2>3, <2>4, <3>1, <4>1
    <3>2. CASE q # b
      <4>1. q \in readSet[t] /\ o \in observed[t]
        BY <2>3, <2>5, <2>6, <2>10, <3>2
      <4> QED
        BY <2>1, <2>10, <4>1 DEF ReadOnce
    <3> QED
      BY <3>1, <3>2
  <2> QED
    BY <1>2, <2>7, <2>8, <2>9, <2>10 DEF ReadOnce
<1>4. ReadOnce(t)'
  <2>1. CASE UNCHANGED <<observed[t], readSet[t]>>
    BY <1>1, <1>2, <2>1, ReadOnceKept DEF ReadsKept
  <2> QED
    BY <1>0, <1>3, <2>1, WorkReads
<1>5. ASSUME NEW u \in Txn PROVE ReadOnce(u)'
  BY <1>1, <1>2, <1>4, ReadOnceKept DEF ReadsKept
<1> QED
  BY <1>5 DEF ReadsKept
\* What a client hands over moves money between the two accounts it has read.
LEMMA SubmitsTransfer ==
    ASSUME Whole, NEW c \in Client, NEW j, j = job[c], j # NoJob, InBody(j), Covered(j),
           HasRead(j, j.dst), writeSet[j.txn] = <<Debit(j), Credit(j)>>
    PROVE  IsTransfer(j.txn)
<1>1. Jobs /\ ReadsKept /\ Types
  BY StrongParts DEF Whole, DemoInv, ClientPart, StorePart
<1>2. j.txn \in Txn /\ j.src # j.dst /\ j.amount \in 1 .. MaxTransfer
  BY <1>1, JobFacts
<1>3. PICK o \in observed[j.txn] : o.key = j.src
  BY DEF InBody, HasRead
<1>4. PICK p \in observed[j.txn] : p.key = j.dst
  BY DEF HasRead
<1>5. Balance(j, j.src) = Atoi(o.value) /\ Balance(j, j.dst) = Atoi(p.value)
  BY <1>1, <1>2, <1>3, <1>4, BalanceOf
<1>6. observed[j.txn] = {o, p}
  <2>1. ASSUME NEW q \in observed[j.txn] PROVE q = o \/ q = p
    BY <1>1, <1>2, <1>3, <1>4 DEF InBody, ReadsKept, ReadOnce
  <2> QED
    BY <1>3, <1>4, <2>1
<1>7. o \in Observation /\ p \in Observation
  BY <1>1, <1>2, <1>3, <1>4 DEF Types, DeployTypeOK, ExecTypeOK
<1>8. Moves(j.txn, o, p, j.amount)
  <2>1. Atoi(o.value) >= j.amount
    BY <1>5 DEF Covered
  <2>2. /\ Debit(j) = [key |-> o.key, value |-> Itoa(Atoi(o.value) - j.amount)]
        /\ Credit(j) = [key |-> p.key, value |-> Itoa(Atoi(p.value) + j.amount)]
    BY <1>3, <1>4, <1>5 DEF Debit, Credit
  <2> QED
    BY <1>2, <1>3, <1>4, <1>6, <2>1, <2>2, Zenon DEF Moves
<1> QED
  BY <1>2, <1>7, <1>8 DEF IsTransfer

LEMMA InvParts ==
    ASSUME Whole
    PROVE  /\ Types /\ RemoteTypeOK /\ mu \in {NoTxn} \cup Txn /\ ClientInv(Holder)
           /\ ClientPart /\ StorePart /\ AnswerPart /\ Printing
           /\ ReadsKept /\ Sent /\ Funds
           /\ ~ Happened("stray") => InFlight /\ MapKnows /\ Balanced
BY StrongParts DEF Whole, DemoInv, StorePart, Undisturbed, Types, DeployTypeOK, DeployInv

\* Nothing is printed while a client is at work.
LEMMA BusyClient ==
    ASSUME Whole, NEW c \in Client, job[c] # NoJob \/ rounds[c] < TxnsPerClient
    PROVE  ~ AllDone
<1>1. rounds[c] < TxnsPerClient /\ rounds[c] \in Nat
  BY InvParts, DemoAssumption DEF ClientPart, Jobs
<1>2. rounds[c] # TxnsPerClient
  BY <1>1, DemoAssumption
<1> QED
  BY <1>2 DEF AllDone

LEMMA WorkFaults ==
    ASSUME Whole, NEW c \in Client, Work(c)
    PROVE  (\E what : what # "stray" /\ Fails(what)) \/ UNCHANGED faults
<1>1. PICK j, t : j = job[c] /\ t = j.txn
  OBVIOUS
<1>2. ASSUME NEW k, ReadKey(t, k) PROVE Fails("get") \/ UNCHANGED faults
  BY <1>2 DEF ReadKey, GetFails, Local, remoteVars
<1>3. ASSUME NEW k, NEW v, WriteKey(t, k, v) PROVE UNCHANGED faults
  BY <1>3 DEF WriteKey, Local, remoteVars
<1>4. ASSUME \/ Submit(t) \/ SubmitLost(t) \/ Discard(t)
             \/ Reply(t) \/ ReplyLost(t) \/ Disconnected(t)
      PROVE  Fails("submit") \/ UNCHANGED faults
  BY <1>4 DEF Submit, SubmitLost, Discard, Reply, ReplyLost, Disconnected, Local, remoteVars
<1>5. Fails("get") \/ Fails("submit") \/ UNCHANGED faults
  BY <1>1, <1>2, <1>3, <1>4, WorkCases
<1> QED
  BY <1>5

\* What is sent and what its client waits for.
LEMMA WorkSends ==
    ASSUME Whole, NEW c \in Client, Work(c), UNCHANGED mu, NEW t, t = job[c].txn
    PROVE  \/ /\ IsTransfer(t) /\ state'[t] = "submitted" /\ calls' \subseteq calls \cup {t}
              /\ UNCHANGED <<observed, writeSet>>
           \/ calls' = calls /\ (state'[t] = "submitted" => state[t] = "submitted")
<1>0. PICK j : j = job[c] /\ t = j.txn
  OBVIOUS
<1>1. /\ t \in Txn /\ j # NoJob /\ InBody(j) /\ Types /\ SentNotActive(Holder)
      /\ state \in [Txn -> TxnState]
  BY <1>0, WorkCases, StrongParts DEF Whole, DeployInv, ClientInv, Types, DeployTypeOK, ExecTypeOK
<1>2. ASSUME NEW k, ReadKey(t, k) PROVE calls' = calls /\ UNCHANGED state
  BY <1>2 DEF ReadKey, Read, ReadFrom, GetFails, Local, deployVars
<1>3. ASSUME NEW k, NEW v, WriteKey(t, k, v) PROVE calls' = calls /\ UNCHANGED state
  BY <1>3 DEF WriteKey, Write, Local, deployVars
<1>4. ASSUME HasRead(j, j.dst), Covered(j), writeSet[t] = <<Debit(j), Credit(j)>>,
             Submit(t) \/ SubmitLost(t)
      PROVE  /\ IsTransfer(t) /\ state'[t] = "submitted" /\ calls' \subseteq calls \cup {t}
             /\ UNCHANGED <<observed, writeSet>>
  <2>1. IsTransfer(t)
    BY <1>0, <1>1, <1>4, SubmitsTransfer
  <2> QED
    BY <1>1, <1>4, <2>1 DEF Submit, SubmitLost, Commit, deployVars
<1>5. ASSUME Active(t), Discard(t)
      PROVE  calls' = calls /\ state'[t] # "submitted"
  BY <1>1, <1>5 DEF Discard, Abort, Local, deployVars, SentNotActive, Active
<1>6. ASSUME Reply(t) \/ ReplyLost(t) \/ Disconnected(t)
      PROVE  calls' = calls /\ state'[t] # "submitted"
  BY <1>1, <1>6 DEF Reply, ReplyLost, Disconnected, CommitReturn, Local, deployVars, NoResult
<1> QED
  BY <1>0, <1>2, <1>3, <1>4, <1>5, <1>6, WorkCases

LEMMA WorkStore ==
    ASSUME Whole, NEW c \in Client, Work(c), UNCHANGED mu
    PROVE  StorePart' /\ AnswerPart' /\ Printing'
<1>0. PICK t : t = job[c].txn
  OBVIOUS
<1>1. /\ t \in Txn /\ ClientOp(t) /\ ClientFrame(t)
      /\ UNCHANGED <<job, rounds, balances>>
      /\ Types /\ RemoteTypeOK /\ StorePart /\ AnswerPart /\ Printing /\ ClientInv(Holder)
  BY <1>0, WorkCases, WorkImplements, StrongParts
  DEF Whole, DemoInv, Types, DeployTypeOK, DeployInv, demoVars
<1>2. /\ \A u \in Txn \ {t} : UNCHANGED <<state[u], readSet[u], writeSet[u], observed[u]>>
      /\ state[t] # "active" => UNCHANGED <<readSet[t], writeSet[t], observed[t]>>
  BY <1>1, ClientOpFacts
<1>3. /\ FaultsGrow
      /\ UNCHANGED <<data, latestVersion, commitSeq, result, late, strays, installed, phase, server>>
  BY <1>1 DEF ClientFrame, certVars
<1>4. \A u \in Txn, n \in Nat : Sends(u, n)' <=> Sends(u, n)
  BY <1>3 DEF Sends, Holder
<1>5. \/ /\ IsTransfer(t) /\ state'[t] = "submitted" /\ calls' \subseteq calls \cup {t}
         /\ UNCHANGED <<observed, writeSet>>
      \/ calls' = calls /\ (state'[t] = "submitted" => state[t] = "submitted")
  BY <1>0, WorkSends
<1>6. Sent'
  <2>1. ASSUME NEW u \in Txn,
               \/ state'[u] = "submitted" \/ u \in calls'
               \/ (\E n \in Nat : Sends(u, n)') \/ IsStray(u)'
        PROVE  IsTransfer(u)'
    <3>0. IsStray(u)' <=> IsStray(u)
      BY <1>3 DEF IsStray
    <3>1. CASE u = t /\ IsTransfer(t) /\ UNCHANGED <<observed, writeSet>>
      BY <3>1, TransferKept
    <3>2. CASE state[u] = "submitted" \/ u \in calls \/ (\E n \in Nat : Sends(u, n)) \/ IsStray(u)
      <4>1. IsTransfer(u)
        BY <1>1, <3>2 DEF StorePart, Sent
      <4>2. SentNotActive(Holder) /\ StrayRecords(Holder)
        BY <1>1 DEF ClientInv
      <4>3. state[u] # "active"
        BY <3>2, <4>2, SendsFacts DEF SentNotActive, IsStray, StrayRecords
      <4> QED
        BY <1>2, <4>1, <4>3, TransferKept
    <3> QED
      BY <1>2, <1>4, <1>5, <2>1, <3>0, <3>1, <3>2
  <2> QED
    BY <2>1 DEF Sent
<1>7. InFlight => InFlight'
  <2>0. SUFFICES ASSUME InFlight PROVE InFlight'
    OBVIOUS
  <2>1. \A u \in Txn, n \in Nat : Sends(u, n)' => Sends(u, n) /\ UNCHANGED <<readSet[u], writeSet[u]>>
    BY <1>2, <1>4, SendsFacts
  <2>3. ASSUME NEW u \in Txn, NEW n \in Nat, Sends(u, n)'
        PROVE  /\ \A k \in Key : Writes(u, k)' => latestVersion'[k] = n /\ data'[k].version < n
               /\ \A r \in readSet'[u] : r.versionSeen = data'[r.key].version
    BY <1>3, <2>0, <2>1, <2>3 DEF InFlight, Writes
  <2>4. ASSUME NEW u \in Txn, NEW v \in Txn, NEW m \in Nat, NEW n \in Nat, NEW k \in Key,
               Sends(u, m)', Sends(v, n)', Writes(u, k)', Writes(v, k)'
        PROVE  u = v
    BY <2>0, <2>1, <2>4 DEF InFlight, Writes
  <2> QED
    BY <2>3, <2>4 DEF InFlight
<1>8. Funds' /\ (Balanced => Balanced') /\ (MapKnows => MapKnows')
  BY <1>1, <1>3, FundsKept DEF MapKnows, StorePart
<1>9. Undisturbed'
  BY <1>1, <1>3, <1>7, <1>8, StraySince DEF Undisturbed, StorePart
<1>10. AnswerPart'
  <2>1. Happened("stray")' => Happened("stray")
    <3>1. (\E what : what # "stray" /\ Fails(what)) \/ UNCHANGED faults
      BY <1>0, WorkFaults
    <3> QED
      BY <1>1, <3>1, NotStrayed
  <2>2. ASSUME NEW u \in Txn, state[u] \notin {"unborn", "active"}
        PROVE  writeSet'[u] = writeSet[u] /\ state'[u] \notin {"unborn", "active"}
    BY <1>1, <1>2, <2>2, ClientOpFacts
  <2>3. ASSUME NEW u \in calls' PROVE u \in calls \/ state[u] = "active"
    BY <1>1, <2>3 DEF ClientFrame, Commit, Active
  <2> QED
    BY <1>1, <1>3, <2>1, <2>2, <2>3, AnswersKept DEF IsCommitted, AnswerPart, Refused
<1>11. Printing'
  <2>1. ~ AllDone
    BY <1>0, WorkCases, BusyClient
  <2> QED
    BY <1>1, <1>3, <2>1, PrintingKept
<1> QED
  BY <1>6, <1>8, <1>9, <1>10, <1>11, WorkReadsKept DEF StorePart

LEMMA StartStep ==
    ASSUME Whole, NEW c \in Client, StartTransfer(c), UNCHANGED mu
    PROVE  DemoInv'
<1>1. PICK t \in Txn, j \in TransferJob :
        /\ job[c] = NoJob /\ rounds[c] < TxnsPerClient
        /\ state[t] = "unborn" /\ state' = [state EXCEPT ![t] = "active"]
        /\ UNCHANGED <<rounds, balances, observed, readSet, writeSet, data, latestVersion,
                       commitSeq, result, late, strays, faults, installed, calls, phase, server>>
  BY StartFacts
<1>2. /\ StorePart /\ AnswerPart /\ Printing /\ RemoteTypeOK /\ ClientInv(Holder) /\ FaultsGrow
      /\ state \in [Txn -> TxnState] /\ calls \subseteq Txn
  BY <1>1, InvParts, UnchangedGrow DEF Types, DeployTypeOK, ExecTypeOK
<1>3. \A u \in Txn : state'[u] = IF u = t THEN "active" ELSE state[u]
  BY <1>1, <1>2
<1>4. \A u \in Txn, n \in Nat : Sends(u, n)' => Sends(u, n)
  BY <1>1 DEF Sends, Holder
<1>5. StorePart'
  BY <1>1, <1>2, <1>3, <1>4, KeptStore
<1>6. AnswerPart'
  BY <1>1, <1>2, <1>3, AnswersKept DEF Happened, IsCommitted, AnswerPart, Refused
<1>7. Printing'
  BY <1>1, <1>2, BusyClient, PrintingKept
<1> QED
  BY <1>5, <1>6, <1>7, StartClient DEF DemoInv

LEMMA CountStep ==
    ASSUME Whole, NEW c \in Client, Count(c), UNCHANGED mu
    PROVE  DemoInv'
<1>1. /\ job[c] # NoJob
      /\ UNCHANGED <<balances, state, observed, readSet, writeSet, data, latestVersion,
                     commitSeq, result, late, strays, faults, installed, calls, phase, server>>
  BY DEF Count, execVars, certVars, remoteVars, deployVars
<1>2. /\ StorePart /\ AnswerPart /\ Printing /\ RemoteTypeOK /\ ClientInv(Holder) /\ FaultsGrow
  BY <1>1, InvParts, UnchangedGrow
<1>3. \A u \in Txn, n \in Nat : Sends(u, n)' => Sends(u, n)
  BY <1>1 DEF Sends, Holder
<1>4. StorePart'
  BY <1>1, <1>2, <1>3, KeptStore
<1>5. AnswerPart'
  BY <1>1, <1>2, AnswersKept DEF Happened, IsCommitted, AnswerPart, Refused
<1>6. Printing'
  BY <1>1, <1>2, BusyClient, PrintingKept
<1> QED
  BY <1>4, <1>5, <1>6, CountClient DEF DemoInv

LEMMA PrintStep ==
    ASSUME Whole, NEW k \in Key, PrintBalance(k), UNCHANGED mu
    PROVE  DemoInv'
<1>1. /\ phase = "ready" /\ AllDone
      /\ UNCHANGED <<job, rounds, state, observed, readSet, writeSet, data, latestVersion,
                     commitSeq, result, late, strays, faults, installed, calls, phase, server>>
  BY DEF PrintBalance, execVars, certVars, remoteVars, deployVars
<1>2. PICK r \in {data[k], NotFound} :
        balances' = [q \in DOMAIN balances \cup {k} |-> IF q = k THEN r ELSE balances[q]]
  BY DEF PrintBalance, Get
<1>3. /\ ClientPart /\ StorePart /\ AnswerPart /\ Printing /\ RemoteTypeOK /\ ClientInv(Holder)
      /\ FaultsGrow
  BY <1>1, InvParts, UnchangedGrow
<1>4. \A u \in Txn, n \in Nat : Sends(u, n)' => Sends(u, n)
  BY <1>1 DEF Sends, Holder
<1>5. ClientPart'
  BY <1>1, <1>3, ClientPartKept
<1>6. StorePart'
  BY <1>1, <1>3, <1>4, KeptStore
<1>7. AnswerPart'
  BY <1>1, <1>3, AnswersKept DEF Happened, IsCommitted, AnswerPart, Refused
<1>8. Printing'
  BY <1>1, <1>2, <1>3 DEF Printing, AllDone, AbortsWithoutEffect
<1> QED
  BY <1>5, <1>6, <1>7, <1>8 DEF DemoInv

-----------------------------------------------------------------------------
(***************************************************************************)
(* The servers' steps that leave the entries alone.                        *)
(***************************************************************************)
LEMMA QuietStep ==
    ASSUME Whole, UNCHANGED demoVars, UNCHANGED execVars, UNCHANGED data, UNCHANGED installed,
           NEW what, what # "stray", Fails(what) \/ UNCHANGED faults,
           phase' \in {phase, "ready"}, phase' # phase => phase # "empty",
           calls' \subseteq calls, strays' \subseteq strays \cup late,
           \A rec \in late' : rec \in late \/ ~ IsCommitted(rec.txnID)',
           \A t \in Txn : result'[t] = result[t] \/ (t \in calls /\ result[t] = NoResult),
           \A t \in Txn, n \in Nat : Sends(t, n)' => Sends(t, n),
           \/ latestVersion' = latestVersion
           \/ MapKnows' /\ \A t \in Txn, n \in Nat : ~ Sends(t, n)'
    PROVE  DemoInv'
<1>1. /\ UNCHANGED <<job, rounds, balances, state, observed, readSet, writeSet>>
      /\ ClientPart /\ StorePart /\ AnswerPart /\ Printing /\ RemoteTypeOK /\ ClientInv(Holder)
  BY InvParts DEF demoVars, execVars
<1>2. FaultsGrow /\ (Happened("stray")' => Happened("stray"))
  BY <1>1, FailsGrow, UnchangedGrow, NotStrayed
<1>3. ClientPart'
  BY <1>1, ClientPartKept
<1>4. StorePart'
  BY <1>1, <1>2, KeptStore
<1>5. AnswerPart'
  BY <1>1, <1>2, AnswersKept
<1>6. Printing'
  BY <1>1, PrintingKept DEF AllDone, AbortsWithoutEffect
<1> QED
  BY <1>3, <1>4, <1>5, <1>6 DEF DemoInv

LEMMA SyncFunds ==
    ASSUME Whole, Synchronise, UNCHANGED demoVars
    PROVE  DemoInv'
<1>1. /\ phase = "loaded" /\ phase' = "ready"
      /\ UNCHANGED <<data, execVars, late, strays, installed, calls, server, mu>>
      /\ \/ \E dump \in {data, NewMemStore} :
              /\ UNCHANGED faults \/ Fails("dump")
              /\ latestVersion' = VersionsIn(dump) /\ UNCHANGED result
         \/ Fails("sync") /\ UNCHANGED certVars
         \/ UNCHANGED <<faults, certVars>>
  BY DEF Synchronise, Sync, Dumped, SyncFromStorage, DumpState
<1>2. Types /\ Funds /\ UNCHANGED result
  BY <1>1, InvParts DEF certVars
<1>3. PICK what : what # "stray" /\ (Fails(what) \/ UNCHANGED faults)
  BY <1>1
<1>4. /\ \A t \in Txn, n \in Nat : ~ Sends(t, n)
      /\ \A t \in Txn, n \in Nat : ~ Sends(t, n)'
  <2>1. Holder' = {} /\ late' = {}
    BY <1>1, NotSent DEF Holder
  <2> QED
    BY <1>1, <2>1, NotSent DEF Sends
<1>5. latestVersion' = latestVersion \/ MapKnows'
  BY <1>1, <1>2, DumpKnows DEF certVars
<1> QED
  BY <1>1, <1>2, <1>3, <1>4, <1>5, QuietStep

LEMMA StaleFunds ==
    ASSUME Whole, NEW t \in Txn, t \in calls, result[t] = NoResult, SubmitCommitStale(Request(t)),
           UNCHANGED <<execVars, remoteVars, deployVars>>, UNCHANGED demoVars
    PROVE  DemoInv'
<1>1. /\ UNCHANGED <<data, latestVersion, commitSeq, mu, late, strays, faults, installed, calls, phase>>
      /\ result' = [result EXCEPT ![t] = Aborted("stale")]
  BY DEF SubmitCommitStale, remoteVars, deployVars, Return, Request
<1>2. result \in [Txn -> TxnResult]
  BY InvParts DEF Types, CertTypeOK
<1>3. \A u \in Txn, n \in Nat : Sends(u, n)' => Sends(u, n)
  BY <1>1 DEF Sends, Holder
<1>4. \A u \in Txn : result'[u] = result[u] \/ (u \in calls /\ result[u] = NoResult)
  BY <1>1, <1>2
<1> QED
  BY <1>1, <1>3, <1>4, QuietStep

\* A record that is given up may still arrive, under the number it has.
LEMMA AbandonedSends ==
    ASSUME NEW t, t \in Txn, mu = t, LateGrows(t) \/ UNCHANGED late, mu' = NoTxn \/ UNCHANGED mu,
           UNCHANGED commitSeq, NEW u \in Txn, NEW n \in Nat, Sends(u, n)'
    PROVE  Sends(u, n)
<1>1. t \in Holder
  BY NoTxnIsNone DEF Holder
<1>2. u \in Holder' => u \in Holder
  BY DEF Holder
<1>3. PICK rec : rec = CommitRecordOf(Request(t), commitSeq)
  OBVIOUS
<1>4. rec.txnID = t /\ rec.commitSeq = commitSeq
  BY <1>3 DEF CommitRecordOf, Request
<1>5. late' \in {late, late \cup {rec}}
  BY <1>3 DEF LateGrows
<1> QED
  BY <1>1, <1>2, <1>4, <1>5 DEF Sends

LEMMA ApplyFailsFunds ==
    ASSUME Whole, NEW t \in Txn, ApplyFails(t), UNCHANGED demoVars
    PROVE  DemoInv'
<1>1. /\ mu = t /\ mu' = NoTxn /\ Fails("apply") /\ LateGrows(t)
      /\ result' = [result EXCEPT ![t] = Aborted("error")]
      /\ UNCHANGED <<data, execVars, latestVersion, commitSeq, strays, installed, calls, phase>>
  BY DEF ApplyFails, ApplyCommitFails, Abandon, LateGrows, deployVars, Return, Request
<1>2. t \in calls /\ result[t] = NoResult /\ result \in [Txn -> TxnResult]
  BY <1>1, InvParts, NoTxnIsNone DEF ClientInv, Unanswered, Holder, Types, CertTypeOK
<1>3. \A u \in Txn, n \in Nat : Sends(u, n)' => Sends(u, n)
  BY <1>1, AbandonedSends
<1>4. \A u \in Txn : result'[u] = result[u] \/ (u \in calls /\ result[u] = NoResult)
  BY <1>1, <1>2
<1>5. ~ IsCommitted(t)'
  BY <1>1, <1>2 DEF IsCommitted, Aborted
<1>6. \A rec \in late' : rec \in late \/ rec.txnID = t
  BY <1>1 DEF LateGrows, CommitRecordOf, Request
<1>7. \A rec \in late' : rec \in late \/ ~ IsCommitted(rec.txnID)'
  BY <1>5, <1>6 DEF IsCommitted
<1> QED
  BY <1>1, <1>3, <1>4, <1>7, QuietStep

LEMMA SignalFunds ==
    ASSUME Whole, Signal, UNCHANGED demoVars
    PROVE  DemoInv'
<1>1. /\ Fails("stop")
      /\ UNCHANGED <<data, execVars, latestVersion, commitSeq, result, mu, late, strays, installed,
                     calls, phase>>
  BY DEF Signal, certVars
<1>2. \A u \in Txn, n \in Nat : Sends(u, n)' => Sends(u, n)
  BY <1>1 DEF Sends, Holder
<1> QED
  BY <1>1, <1>2, QuietStep

LEMMA CrashFunds ==
    ASSUME Whole, Crash, UNCHANGED demoVars
    PROVE  DemoInv'
<1>1. /\ Fails("crash") /\ mu' = NoTxn /\ calls' = {}
      /\ UNCHANGED <<data, execVars, latestVersion, commitSeq, result, strays, installed, phase>>
      /\ mu = NoTxn => late' = late
      /\ mu # NoTxn => LateGrows(mu)
  BY DEF Crash, Die, certVars, Abandon, LateGrows
<1>2. mu \in {NoTxn} \cup Txn
  BY InvParts
<1>3. \A u \in Txn, n \in Nat : Sends(u, n)' => Sends(u, n)
  <2>1. CASE mu = NoTxn
    BY <1>1, <2>1 DEF Sends, Holder
  <2>2. CASE mu # NoTxn
    <3>1. mu \in Txn
      BY <1>2, <2>2
    <3> QED
      BY <1>1, <2>2, <3>1, AbandonedSends
  <2> QED
    BY <2>1, <2>2
<1>4. ASSUME NEW rec \in late' PROVE rec \in late \/ ~ IsCommitted(rec.txnID)'
  <2>1. rec \in late \/ (mu # NoTxn /\ rec.txnID = mu)
    BY <1>1 DEF LateGrows, CommitRecordOf, Request
  <2>2. mu # NoTxn => result[mu] = NoResult
    BY <1>2, InvParts DEF ClientInv, Unanswered, Holder
  <2> QED
    BY <1>1, <2>1, <2>2 DEF IsCommitted, NoResult
<1> QED
  BY <1>1, <1>3, <1>4, QuietStep

LEMMA RestartFunds ==
    ASSUME Whole, Restart, UNCHANGED mu, UNCHANGED demoVars
    PROVE  DemoInv'
<1>1. /\ server = "down" /\ late' = {} /\ strays' = strays \cup late
      /\ UNCHANGED <<data, execVars, result, installed, calls, phase>>
      /\ \E dump \in {data, NewMemStore} :
           /\ UNCHANGED faults \/ Fails("boot")
           /\ latestVersion' = VersionsIn(dump)
  BY DEF Restart, Dumped, DumpState
<1>2. Types /\ Funds
  BY InvParts
<1>3. PICK what : what # "stray" /\ (Fails(what) \/ UNCHANGED faults)
  BY <1>1
<1>4. Holder' = {}
  BY <1>1, InvParts DEF ClientInv, Unanswered, Holder
<1>5. \A t \in Txn, n \in Nat : ~ Sends(t, n)'
  BY <1>1, <1>4 DEF Sends
<1>6. MapKnows'
  BY <1>1, <1>2, DumpKnows
<1> QED
  BY <1>1, <1>3, <1>5, <1>6, QuietStep

LEMMA ExitFunds ==
    ASSUME Whole, Exit, UNCHANGED mu, UNCHANGED demoVars
    PROVE  DemoInv'
<1>1. /\ server = "closing"
      /\ UNCHANGED <<data, execVars, latestVersion, commitSeq, result, late, strays, faults,
                     installed, calls, phase>>
  BY DEF Exit, certVars, remoteVars
<1>2. \A u \in Txn, n \in Nat : Sends(u, n)' => Sends(u, n)
  BY <1>1 DEF Sends, Holder
<1> QED
  BY <1>1, <1>2, QuietStep

-----------------------------------------------------------------------------
(***************************************************************************)
(* A transfer is let pass, and reaches the store.                          *)
(***************************************************************************)
LEMMA TwoWrites ==
    ASSUME NEW a, NEW b, a.key # b.key, NEW ws, ws = <<a, b>>
    PROVE  KeysOf(ws) = {a.key, b.key} /\ LastWrite(ws, a.key) = a /\ LastWrite(ws, b.key) = b
<1>1. Len(ws) = 2 /\ ws[1] = a /\ ws[2] = b
  OBVIOUS
<1>2. KeysOf(ws) = {a.key, b.key}
  BY <1>1 DEF KeysOf
<1>3. \A k : (k = a.key => {i \in 1 .. Len(ws) : ws[i].key = k} = {1})
          /\ (k = b.key => {i \in 1 .. Len(ws) : ws[i].key = k} = {2})
  <2>1. 1 .. Len(ws) = {1, 2}
    BY <1>1
  <2> QED
    BY <1>1, <2>1
<1>4. Max({1}) = 1 /\ Max({2}) = 2
  BY DEF Max
<1> QED
  BY <1>1, <1>2, <1>3, <1>4 DEF LastWrite, LastIndex

\* What a transfer has read and what it writes.
LEMMA TransferFacts ==
    ASSUME Whole, NEW t \in Txn, IsTransfer(t)
    PROVE  \E p, q \in observed[t] : \E amount \in Nat \ {0} :
              /\ p.key \in Key /\ q.key \in Key /\ p.key # q.key
              /\ Atoi(p.value) >= amount /\ amount <= MaxTransfer
              /\ \A k : Writes(t, k) <=> k \in {p.key, q.key}
              /\ LastWrite(writeSet[t], p.key).value = Itoa(Atoi(p.value) - amount)
              /\ LastWrite(writeSet[t], q.key).value = Itoa(Atoi(q.value) + amount)
              /\ \A r \in readSet[t] : r.key \in {p.key, q.key}
              /\ \A k \in {p.key, q.key} : \E r \in readSet[t] : r.key = k
<1>1. ReadsKept /\ ReadsRecorded /\ MaxTransfer \in Nat
  BY InvParts, StrongParts, DemoAssumption DEF Whole, DeployInv, VersionInv
<1>2. PICK p \in Observation, q \in Observation, amount \in 1 .. MaxTransfer :
        Moves(t, p, q, amount)
  BY DEF IsTransfer
<1>3. amount \in Nat \ {0} /\ amount <= MaxTransfer
  BY <1>1, <1>2
<1>4. PICK a, b : /\ a = [key |-> p.key, value |-> Itoa(Atoi(p.value) - amount)]
                  /\ b = [key |-> q.key, value |-> Itoa(Atoi(q.value) + amount)]
  OBVIOUS
<1>5. a.key = p.key /\ b.key = q.key /\ writeSet[t] = <<a, b>>
  BY <1>2, <1>4 DEF Moves
<1>6. /\ KeysOf(writeSet[t]) = {p.key, q.key}
      /\ LastWrite(writeSet[t], p.key) = a /\ LastWrite(writeSet[t], q.key) = b
  BY <1>2, <1>5, TwoWrites DEF Moves
<1>7. observed[t] = {p, q} /\ p.key # q.key /\ Atoi(p.value) >= amount
  BY <1>2 DEF Moves
<1>8. \A r \in readSet[t] : r.key \in {p.key, q.key}
  BY <1>1, <1>7 DEF ReadsKept, ReadOnce
<1>9. \A k \in {p.key, q.key} : \E r \in readSet[t] : r.key = k
  BY <1>1, <1>7 DEF ReadsRecorded, Seen
<1>10. p.key \in Key /\ q.key \in Key
  BY <1>2 DEF Observation
<1>11. /\ LastWrite(writeSet[t], p.key).value = Itoa(Atoi(p.value) - amount)
       /\ LastWrite(writeSet[t], q.key).value = Itoa(Atoi(q.value) + amount)
  BY <1>4, <1>6
<1>12. \A k : Writes(t, k) <=> k \in {p.key, q.key}
  BY <1>6 DEF Writes
<1>13. p \in observed[t] /\ q \in observed[t]
  BY <1>7
<1> QED
  BY <1>3, <1>7, <1>8, <1>9, <1>10, <1>11, <1>12, <1>13

\* The account that pays was read in the store.
LEMMA PayerRead ==
    ASSUME ReadsKept, NEW t \in Txn, NEW p \in observed[t], NEW amount \in Nat \ {0},
           Atoi(p.value) >= amount, NEW r \in readSet[t], r.key = p.key
    PROVE  r.versionSeen # 0
<1>1. ReadOnce(t)
  BY DEF ReadsKept
<1>2. Atoi(<< >>) = 0 /\ Atoi(p.value) # 0
  BY DEF Atoi
<1> QED
  BY <1>1, <1>2 DEF ReadOnce

LEMMA TransferWrites ==
    ASSUME NEW t, IsTransfer(t)
    PROVE  writeSet[t] # << >>
<1>1. PICK a, b : writeSet[t] = <<a, b>>
  BY DEF IsTransfer, Moves
<1>2. Len(<<a, b>>) = 2 /\ Len(<< >>) = 0
  OBVIOUS
<1> QED
  BY <1>1, <1>2

\* The transfers that have been counted before the results are printed have been
\* told of their commits.
LEMMA PrintedStates ==
    ASSUME Whole, AllDone, NEW t \in Txn, state[t] \notin {"unborn", "active"},
           writeSet[t] # << >>, ~ IsCommitted(t)
    PROVE  state[t] = "aborted"
<1>1. state[t] \in TxnState /\ ReportedAnswer
  BY InvParts DEF Types, DeployTypeOK, ExecTypeOK, ClientInv
<1>2. state[t] # "submitted"
  <2>1. SUFFICES ASSUME state[t] = "submitted" PROVE FALSE
    OBVIOUS
  <2>2. PICK c \in Client : job[c] # NoJob
    BY <2>1, InvParts DEF ClientPart, Jobs
  <2> QED
    BY <2>2, BusyClient
<1>3. state[t] # "committed"
  BY <1>1 DEF ReportedAnswer
<1> QED
  BY <1>1, <1>2, <1>3 DEF TxnState

\* If nothing has arrived that a certifier has not seen, a transfer is let pass
\* only if all that it has read is current.
LEMMA PassedCurrent ==
    ASSUME Whole, ~ Happened("stray"), NEW t \in Txn, IsTransfer(t), ~ StaleRead(Request(t))
    PROVE  /\ \A k \in Key : data[k].version \in 1 .. latestVersion[k]
           /\ \A r \in readSet[t] : /\ r.versionSeen = data[r.key].version
                                    /\ r.versionSeen = latestVersion[r.key]
<1>1. Types /\ ReadsKept /\ MapKnows /\ ReadsNotAhead
  BY InvParts, StrongParts DEF Whole, DeployInv, VersionInv
<1>2. \A r \in readSet[t] : latestVersion[r.key] = r.versionSeen /\ r.key \in Key
  BY <1>1 DEF StaleRead, Request, Types, DeployTypeOK, ExecTypeOK, ReadEntry
<1>3. PICK p \in observed[t], amount \in Nat \ {0}, r \in readSet[t] :
        Atoi(p.value) >= amount /\ r.key = p.key
  BY TransferFacts
<1>4. r.versionSeen # 0
  BY <1>1, <1>3, PayerRead
<1>5. \A k \in Key : data[k].version \in 1 .. latestVersion[k]
  BY <1>1, <1>2, <1>4 DEF MapKnows
<1>6. ASSUME NEW s \in readSet[t] PROVE s.versionSeen = data[s.key].version
  <2>1. PICK a, b, e : a = s.versionSeen /\ b = data[s.key].version /\ e = latestVersion[s.key]
    OBVIOUS
  <2>2. a = e /\ b \in 1 .. e /\ a <= b /\ e \in Nat
    BY <1>1, <1>2, <1>5, <2>1 DEF ReadsNotAhead, Types, CertTypeOK
  <2>3. a = b
    BY <2>2
  <2> QED
    BY <2>1, <2>3
<1> QED
  BY <1>2, <1>5, <1>6

LEMMA AssignUndisturbed ==
    ASSUME Whole, ~ Happened("stray"),
           NEW t \in Txn, t \in calls, result[t] = NoResult, SubmitCommitAssign(Request(t)),
           UNCHANGED <<execVars, remoteVars, deployVars>>
    PROVE  InFlight' /\ MapKnows'
<1>1. /\ mu = NoTxn /\ mu' = t /\ ~ StaleRead(Request(t))
      /\ commitSeq' = commitSeq + 1 /\ latestVersion' = Bumped(Request(t), commitSeq + 1)
      /\ UNCHANGED <<data, readSet, writeSet, late>>
  BY DEF SubmitCommitAssign, Request, execVars, remoteVars, deployVars
<1>2. /\ ReadsKept /\ Sent /\ InFlight /\ MapKnows /\ Funds /\ Types /\ RemoteTypeOK /\ MapBounded
      /\ commitSeq \in Nat /\ \A k \in Key : latestVersion[k] \in Nat /\ latestVersion[k] <= commitSeq
  BY InvParts, StrongParts DEF Whole, DeployInv, VersionInv, MapBounded, Types, CertTypeOK
<1>3. IsTransfer(t)
  BY <1>2 DEF Sent
<1>4. /\ \A k \in Key : data[k].version \in 1 .. latestVersion[k]
      /\ \A r \in readSet[t] : /\ r.versionSeen = data[r.key].version
                               /\ r.versionSeen = latestVersion[r.key]
  BY <1>1, <1>3, PassedCurrent
<1>5. Holder = {} /\ Holder' = {t}
  BY <1>1, NoTxnIsNone DEF Holder
<1>6. \A n \in Nat : ~ Sends(t, n)
  BY <1>5, SendsFacts
<1>7. ASSUME NEW u \in Txn, NEW n \in Nat, Sends(u, n)'
      PROVE  (u = t /\ n = commitSeq + 1) \/ (u # t /\ Sends(u, n))
  BY <1>1, <1>5, <1>6, <1>7 DEF Sends
<1>8. \A k \in Key : latestVersion'[k] = IF Writes(t, k) THEN commitSeq + 1 ELSE latestVersion[k]
  BY <1>1 DEF Bumped, Writes, Request
<1>9. ASSUME NEW u \in Txn, NEW n \in Nat, Sends(u, n), NEW k \in Key, Writes(u, k)
      PROVE  ~ Writes(t, k)
  <2>1. latestVersion[k] = n /\ data[k].version < n
    BY <1>2, <1>9 DEF InFlight
  <2>2. SUFFICES ASSUME Writes(t, k) PROVE FALSE
    OBVIOUS
  <2>3. PICK r \in readSet[t] : r.key = k
    BY <1>3, <2>2, TransferFacts
  <2>4. data[k].version = latestVersion[k]
    BY <1>4, <2>3
  <2>5. PICK a : a = data[k].version /\ a = n /\ a < n
    BY <2>1, <2>4
  <2> QED
    BY <2>5
<1>10. InFlight'
  <2>1. ASSUME NEW u \in Txn, NEW n \in Nat, Sends(u, n)'
        PROVE  /\ \A k \in Key : Writes(u, k)' => latestVersion'[k] = n /\ data'[k].version < n
               /\ \A r \in readSet'[u] : r.versionSeen = data'[r.key].version
    <3>1. CASE u = t /\ n = commitSeq + 1
      <4>1. ASSUME NEW k \in Key PROVE data[k].version < commitSeq + 1
        <5>1. PICK a, b, e : a = data[k].version /\ b = latestVersion[k] /\ e = commitSeq
          OBVIOUS
        <5>2. a \in 1 .. b /\ b \in Nat /\ b <= e /\ e \in Nat
          BY <1>2, <1>4, <5>1
        <5>3. a < e + 1
          BY <5>2
        <5> QED
          BY <5>1, <5>3
      <4> QED
        BY <1>1, <1>4, <1>8, <3>1, <4>1 DEF Writes
    <3>2. CASE u # t /\ Sends(u, n)
      <4>1. \A k \in Key : Writes(u, k) => latestVersion'[k] = latestVersion[k]
        BY <1>8, <1>9, <3>2
      <4> QED
        BY <1>1, <1>2, <3>2, <4>1 DEF InFlight, Writes
    <3> QED
      BY <1>7, <2>1, <3>1, <3>2
  <2>2. ASSUME NEW u \in Txn, NEW v \in Txn, NEW m \in Nat, NEW n \in Nat, NEW k \in Key,
               Sends(u, m)', Sends(v, n)', Writes(u, k)', Writes(v, k)'
        PROVE  u = v
    <3>1. Writes(u, k) /\ Writes(v, k)
      BY <1>1, <2>2 DEF Writes
    <3>2. /\ u = t \/ Sends(u, m)
          /\ v = t \/ Sends(v, n)
      BY <1>7, <2>2
    <3> QED
      BY <1>2, <1>9, <3>1, <3>2 DEF InFlight
  <2> QED
    BY <2>1, <2>2 DEF InFlight
<1>11. MapKnows'
  <2>1. ASSUME NEW k \in Key PROVE data[k].version \in 1 .. latestVersion'[k]
    <3>1. PICK a, b, e, f : /\ a = data[k].version /\ b = latestVersion[k] /\ e = commitSeq
                            /\ f = latestVersion'[k]
      OBVIOUS
    <3>2. a \in 1 .. b /\ b \in Nat /\ b <= e /\ e \in Nat /\ (f = b \/ f = e + 1)
      BY <1>2, <1>4, <1>8, <3>1
    <3>3. a \in 1 .. f
      BY <3>2
    <3> QED
      BY <3>1, <3>3
  <2> QED
    BY <1>1, <2>1 DEF MapKnows
<1> QED
  BY <1>10, <1>11

LEMMA AssignFunds ==
    ASSUME Whole, NEW t \in Txn, t \in calls, result[t] = NoResult, SubmitCommitAssign(Request(t)),
           UNCHANGED <<execVars, remoteVars, deployVars>>, UNCHANGED demoVars
    PROVE  DemoInv'
<1>1. /\ mu' = t
      /\ UNCHANGED <<data, state, readSet, writeSet, observed, result, late, strays, faults,
                     installed, calls, phase, job, rounds, balances>>
  BY DEF SubmitCommitAssign, execVars, remoteVars, deployVars, demoVars, Request
<1>2. /\ ClientPart /\ ReadsKept /\ Sent /\ Funds /\ AnswerPart /\ Printing
      /\ RemoteTypeOK /\ ClientInv(Holder) /\ FaultsGrow
      /\ ~ Happened("stray") => Balanced
  BY <1>1, InvParts, UnchangedGrow
<1>3. ClientPart'
  BY <1>1, <1>2, ClientPartKept
<1>4. ReadsKept' /\ Funds' /\ (Balanced => Balanced')
  BY <1>1, <1>2, ReadOnceKept, FundsKept DEF ReadsKept
<1>5. Sent'
  <2>1. ASSUME NEW u \in Txn,
               \/ state'[u] = "submitted" \/ u \in calls'
               \/ (\E n \in Nat : Sends(u, n)') \/ IsStray(u)'
        PROVE  IsTransfer(u)'
    <3>1. ASSUME NEW n \in Nat, Sends(u, n)' PROVE u = t \/ Sends(u, n)
      BY <1>1, <3>1 DEF Sends, Holder
    <3>2. IsTransfer(u)
      BY <1>1, <1>2, <2>1, <3>1 DEF Sent, IsStray
    <3> QED
      BY <1>1, <3>2, TransferKept
  <2> QED
    BY <2>1 DEF Sent
<1>6. Undisturbed'
  <2>1. Happened("stray")' => Happened("stray")
    BY <1>1 DEF Happened
  <2> QED
    BY <1>2, <1>4, <2>1, AssignUndisturbed, StraySince DEF Undisturbed
<1>7. AnswerPart'
  BY <1>1, <1>2, AnswersKept DEF Happened, IsCommitted, AnswerPart, Refused
<1>8. Printing'
  BY <1>1, <1>2, PrintingKept DEF AllDone, AbortsWithoutEffect
<1> QED
  BY <1>3, <1>4, <1>5, <1>6, <1>7, <1>8 DEF DemoInv, StorePart

\* What a record that reaches the store finds there and leaves there, at any time.
LEMMA TransferArrives ==
    ASSUME Whole, NEW t \in Txn, NEW n \in Nat \ {0}, IsTransfer(t), installed[t] = 0,
           Install(CommitRecordOf(Request(t), n))
    PROVE  \/ UNCHANGED <<data, installed>> /\ Rejected(Record(Request(t), n))
           \/ /\ data' = Installed(t, n) /\ installed' = [installed EXCEPT ![t] = n]
              /\ Stocked /\ Amount \subseteq Amount'
              /\ \A k \in Key : data'[k].version # 0 /\ data'[k].value \in Amount'
<1>1. Types /\ ReadsKept /\ Funds /\ installed \in [Txn -> Nat] /\ MaxTransfer \in Nat
  BY InvParts, DemoAssumption DEF RemoteTypeOK
<1>2. CASE UNCHANGED <<data, installed>> /\ Rejected(Record(Request(t), n))
  BY <1>2
<1>3. CASE data' = Installed(t, n) /\ installed' = [installed EXCEPT ![t] = n]
  <2>1. PICK p \in observed[t], q \in observed[t], amount \in Nat \ {0} :
          /\ p.key \in Key /\ q.key \in Key /\ p.key # q.key
          /\ Atoi(p.value) >= amount /\ amount <= MaxTransfer
          /\ \A k : Writes(t, k) <=> k \in {p.key, q.key}
          /\ LastWrite(writeSet[t], p.key).value = Itoa(Atoi(p.value) - amount)
          /\ LastWrite(writeSet[t], q.key).value = Itoa(Atoi(q.value) + amount)
          /\ \A k \in {p.key, q.key} : \E r \in readSet[t] : r.key = k
    BY TransferFacts
  <2>2. Stocked
    <3>1. PICK r \in readSet[t] : r.key = p.key
      BY <2>1
    <3>2. r.versionSeen # 0 /\ r.versionSeen <= data[p.key].version /\ r.versionSeen \in Nat
      BY <1>1, <2>1, <3>1, PayerRead, StrongParts
      DEF Whole, DeployInv, VersionInv, ReadsNotAhead, Types, DeployTypeOK, ExecTypeOK, ReadEntry
    <3>3. PICK a, b : a = r.versionSeen /\ b = data[p.key].version /\ b \in Nat
      BY <1>1, <2>1, StoredValues
    <3>4. b # 0
      BY <3>2, <3>3
    <3>5. data # NewMemStore
      BY <2>1, <3>3, <3>4, EmptyDump
    <3> QED
      BY <1>1, <3>5 DEF Funds
  <2>3. Ceiling' = Ceiling + MaxTransfer
    BY <1>1, <1>3, CeilingGrows
  <2>4. PICK top, m : top = Ceiling /\ m = MaxTransfer /\ top \in Nat /\ m \in Nat
    BY <1>1, CeilingNat
  <2>5. Ceiling' = top + m /\ Amount \subseteq Amount'
    BY <2>3, <2>4, AmountsGrow
  <2>6. PICK a, b : a = Atoi(p.value) /\ b = Atoi(q.value)
    OBVIOUS
  <2>7. a \in 0 .. top /\ b \in 0 .. top
    BY <1>1, <2>4, <2>6, AmountNat DEF ReadsKept, ReadOnce
  <2>8. a - amount \in 0 .. top + m /\ b + amount \in 0 .. top + m
    BY <2>1, <2>4, <2>6, <2>7
  <2>9. Itoa(a - amount) \in Amount' /\ Itoa(b + amount) \in Amount'
    BY <2>5, <2>8 DEF Amount
  <2>10. ASSUME NEW k \in Key PROVE data'[k].version # 0 /\ data'[k].value \in Amount'
    <3>1. CASE k \in {p.key, q.key}
      BY <1>3, <2>1, <2>6, <2>9, <3>1 DEF Installed
    <3>2. CASE k \notin {p.key, q.key}
      BY <1>3, <2>1, <2>2, <2>5, <3>2 DEF Installed, Stocked
    <3> QED
      BY <3>1, <3>2
  <2> QED
    BY <1>3, <2>2, <2>5, <2>10
<1> QED
  BY <1>1, <1>2, <1>3, InstallFacts

\* Until a stray has arrived, a record moves money from one account to another.
LEMMA InstallTransfer ==
    ASSUME Whole, ~ Happened("stray"), NEW t \in Txn, NEW n \in Nat, Sends(t, n),
           Install(CommitRecordOf(Request(t), n))
    PROVE  /\ data' = Installed(t, n) /\ installed' = [installed EXCEPT ![t] = n]
           /\ Total(data)' = Expected
<1>1. /\ Types /\ ReadsKept /\ InFlight /\ Balanced /\ n \in Nat \ {0} /\ IsTransfer(t)
      /\ installed[t] = 0 /\ IsFiniteSet(Key)
  BY InvParts, SendsFacts, DemoAssumption
<1>2. /\ \A k \in Key : Writes(t, k) => data[k].version < n
      /\ \A r \in readSet[t] : r.versionSeen = data[r.key].version
  BY <1>1 DEF InFlight
<1>3. ~ Rejected(Record(Request(t), n))
  <2>1. PICK w : w = Record(Request(t), n)
    OBVIOUS
  <2>2. SUFFICES ASSUME NEW i \in 1 .. Len(w), w[i].newVersion <= data[w[i].key].version
                 PROVE  FALSE
    BY <2>1 DEF Rejected
  <2>3. PICK k : k = w[i].key
    OBVIOUS
  <2>4. k \in Key /\ Writes(t, k) /\ w[i].newVersion = n
    <3>1. writeSet[t] \in Seq(WriteEntry) /\ Request(t).writeSet = writeSet[t]
      BY <1>1 DEF Request, Types, DeployTypeOK, ExecTypeOK
    <3>2. Len(w) = Len(writeSet[t]) /\ KeysOf(w) = KeysOf(writeSet[t])
      BY <2>1, <3>1, RecordShape
    <3>3. w[i].newVersion = n
      BY <2>1, <3>1, <3>2 DEF Record
    <3>4. k \in KeysOf(writeSet[t])
      BY <2>3, <3>2 DEF KeysOf
    <3> QED
      BY <3>1, <3>3, <3>4, KeysOfSubset DEF Writes
  <2>5. PICK a : a = data[k].version /\ a \in Nat
    BY <1>1, <2>4, InvParts, StoredValues
  <2>6. n <= a /\ a < n
    BY <1>2, <2>2, <2>3, <2>4, <2>5
  <2> QED
    BY <2>5, <2>6
<1>4. /\ data' = Installed(t, n) /\ installed' = [installed EXCEPT ![t] = n] /\ Stocked
      /\ \A k \in Key : data'[k].value \in Amount'
  BY <1>1, <1>3, TransferArrives
<1>5. PICK p \in observed[t], q \in observed[t], amount \in Nat \ {0} :
        /\ p.key \in Key /\ q.key \in Key /\ p.key # q.key
        /\ Atoi(p.value) >= amount
        /\ \A k : Writes(t, k) <=> k \in {p.key, q.key}
        /\ LastWrite(writeSet[t], p.key).value = Itoa(Atoi(p.value) - amount)
        /\ LastWrite(writeSet[t], q.key).value = Itoa(Atoi(q.value) + amount)
        /\ \A k \in {p.key, q.key} : \E r \in readSet[t] : r.key = k
  BY <1>1, TransferFacts
<1>6. p.value = data[p.key].value /\ q.value = data[q.key].value
  <2>1. PICK r \in readSet[t] : r.key = p.key
    BY <1>5
  <2>2. PICK s \in readSet[t] : s.key = q.key
    BY <1>5
  <2>3. /\ r.versionSeen = data[r.key].version /\ r.versionSeen # 0
        /\ s.versionSeen = data[s.key].version /\ s.versionSeen # 0
    BY <1>2, <1>4, <1>5, <2>1, <2>2 DEF Stocked
  <2>4. ReadOnce(t)
    BY <1>1 DEF ReadsKept
  <2> QED
    BY <1>5, <2>1, <2>2, <2>3, <2>4 DEF ReadOnce
<1>7. /\ data'[p.key].value = Itoa(Atoi(p.value) - amount)
      /\ data'[q.key].value = Itoa(Atoi(q.value) + amount)
      /\ \A k \in Key : k # p.key /\ k # q.key => data'[k] = data[k]
      /\ DOMAIN data' = Key
  BY <1>4, <1>5 DEF Installed
<1>8. \A k \in Key : Atoi(data[k].value) \in Nat
  BY <1>4, AmountNat, CeilingNat DEF Stocked
<1>9. PICK a, b : a = Atoi(p.value) /\ b = Atoi(q.value)
  OBVIOUS
<1>10. a \in Nat /\ b \in Nat /\ amount \in Nat /\ amount <= a
  BY <1>5, <1>6, <1>8, <1>9
<1>11. PICK e, f : e = a - amount /\ f = b + amount
  OBVIOUS
<1>12. e \in Nat /\ f \in Nat /\ a = e + amount /\ f = b + amount
  BY <1>10, <1>11
<1>13. /\ data'[p.key].value = Itoa(e) /\ data'[q.key].value = Itoa(f)
       /\ Atoi(data[p.key].value) = a /\ Atoi(data[q.key].value) = b
  BY <1>6, <1>7, <1>9, <1>11
<1>14. Total(data)' = Expected
  <2> DEFINE v == [k \in Key |-> Atoi(data[k].value)]
             w == [k \in Key |-> Atoi(data'[k].value)]
  <2>1. DOMAIN data = Key
    BY <1>1 DEF Types, DeployTypeOK, StoreTypeOK
  <2>2. Total(data) = SumFunctionOnSet(v, Key) /\ Total(data)' = SumFunctionOnSet(w, Key)
    BY <1>7, <2>1 DEF Total, SumFunction
  <2>3. v[p.key] = a /\ v[q.key] = b /\ w[p.key] = e /\ w[q.key] = f
    BY <1>5, <1>13, AtoiItoa
  <2>4. \A k \in Key : v[k] \in Nat /\ (k # p.key /\ k # q.key => v[k] = w[k])
    BY <1>7, <1>8
  <2> HIDE DEF v, w
  <2>5. \A k \in Key : v[k] \in Nat /\ w[k] \in Nat
    BY <1>12, <2>3, <2>4
  <2>6. SumFunctionOnSet(w, Key) = SumFunctionOnSet(v, Key)
    <3>1. v[p.key] = w[p.key] + amount /\ w[q.key] = v[q.key] + amount
      BY <1>12, <2>3
    <3>2. p.key \in Key /\ q.key \in Key /\ p.key # q.key
      BY <1>5
    <3>3. \A k \in Key : k # p.key /\ k # q.key => v[k] = w[k]
      BY <2>4
    <3> QED
      BY <1>1, <1>10, <2>5, <3>1, <3>2, <3>3, SumMoved
  <2> QED
    BY <1>1, <1>4, <2>2, <2>6 DEF Balanced
<1> QED
  BY <1>4, <1>14

LEMMA InstallUndisturbed ==
    ASSUME Whole, ~ Happened("stray"), NEW t \in Txn, NEW n \in Nat, Sends(t, n),
           Install(CommitRecordOf(Request(t), n)),
           UNCHANGED <<readSet, writeSet, latestVersion>>,
           \A u \in Txn, m \in Nat : Sends(u, m)' => Sends(u, m) /\ u # t
    PROVE  InFlight' /\ MapKnows' /\ Balanced'
<1>1. data' = Installed(t, n) /\ Total(data)' = Expected
  BY InstallTransfer
<1>2. Types /\ InFlight /\ MapKnows /\ n \in Nat \ {0}
  BY InvParts, SendsFacts
<1>3. \A k \in Key : ~ Writes(t, k) => data'[k] = data[k]
  BY <1>1, InstalledVersion
<1>4. Balanced'
  <2>1. Expected' = Expected
    BY DEF Expected
  <2> QED
    BY <1>1, <2>1, Zenon DEF Balanced
<1>5. InFlight'
  <2>1. ASSUME NEW u \in Txn, NEW m \in Nat, Sends(u, m)'
        PROVE  /\ \A k \in Key : Writes(u, k)' => latestVersion'[k] = m /\ data'[k].version < m
               /\ \A r \in readSet'[u] : r.versionSeen = data'[r.key].version
    <3>1. Sends(u, m) /\ u # t
      BY <2>1
    <3>2. \A k \in Key : Writes(u, k) => data'[k] = data[k]
      BY <1>2, <1>3, <3>1 DEF InFlight
    <3>3. \A r \in readSet[u] : Writes(u, r.key) /\ r.key \in Key
      BY <1>2, <3>1, SendsFacts, TransferFacts
    <3> QED
      BY <1>2, <3>1, <3>2, <3>3 DEF InFlight, Writes
  <2>2. ASSUME NEW u \in Txn, NEW v \in Txn, NEW l \in Nat, NEW m \in Nat, NEW k \in Key,
               Sends(u, l)', Sends(v, m)', Writes(u, k)', Writes(v, k)'
        PROVE  u = v
    <3>1. Sends(u, l) /\ Sends(v, m) /\ Writes(u, k) /\ Writes(v, k)
      BY <2>2 DEF Writes
    <3> QED
      BY <1>2, <3>1 DEF InFlight
  <2> QED
    BY <2>1, <2>2 DEF InFlight
<1>6. MapKnows'
  <2>1. \A k \in Key : Writes(t, k) => latestVersion[k] = n /\ data'[k].version = n
    BY <1>1, <1>2, InstalledVersion DEF InFlight
  <2>2. ASSUME NEW k \in Key, data[k].version \in 1 .. latestVersion[k]
        PROVE  data'[k].version \in 1 .. latestVersion[k]
    BY <1>2, <1>3, <2>1, <2>2
  <2> QED
    BY <1>2, <2>2 DEF MapKnows
<1> QED
  BY <1>4, <1>5, <1>6

\* What every arrival keeps, that of a stray as well.
LEMMA InstallStore ==
    ASSUME Whole, NEW t \in Txn, NEW n \in Nat \ {0}, IsTransfer(t), installed[t] = 0,
           Install(CommitRecordOf(Request(t), n)),
           UNCHANGED <<state, readSet, writeSet, observed, calls, phase>>, FaultsGrow,
           strays' \subseteq strays, \A u \in Txn, m \in Nat : Sends(u, m)' => Sends(u, m)
    PROVE  ReadsKept' /\ Sent' /\ Funds'
<1>1. \/ UNCHANGED <<data, installed>>
      \/ /\ data' = Installed(t, n) /\ Stocked /\ Amount \subseteq Amount'
         /\ \A k \in Key : data'[k].version # 0 /\ data'[k].value \in Amount'
  BY TransferArrives
<1>2. /\ Types /\ RemoteTypeOK /\ ReadsKept /\ Sent /\ Funds /\ ReadsNotAhead
      /\ \A u \in Txn : \A r \in readSet[u] : r.key \in Key /\ r.versionSeen \in Nat
  BY InvParts, StrongParts DEF Whole, DeployInv, VersionInv, Types, DeployTypeOK, ExecTypeOK, ReadEntry
<1>3. Funds'
  <2>1. CASE UNCHANGED <<data, installed>>
    BY <1>2, <2>1, FundsKept
  <2>2. CASE Stocked /\ \A k \in Key : data'[k].version # 0 /\ data'[k].value \in Amount'
    BY <2>2 DEF Funds, Stocked
  <2> QED
    BY <1>1, <2>1, <2>2
<1>4. Amount \subseteq Amount'
  BY <1>1, AmountsKept
<1>5. ReadsKept'
  <2>1. ASSUME NEW u \in Txn PROVE ReadOnce(u)'
    <3>1. ReadOnce(u)
      BY <1>2 DEF ReadsKept
    <3>2. ASSUME NEW o \in observed[u], NEW r \in readSet[u], r.key = o.key, r.versionSeen # 0,
                 r.versionSeen = data'[r.key].version
          PROVE  o.value = data'[r.key].value
      <4>1. CASE data'[r.key] = data[r.key]
        BY <3>1, <3>2, <4>1 DEF ReadOnce
      <4>2. CASE data'[r.key] # data[r.key]
        <5>1. /\ data[r.key].version \in Nat /\ data[r.key].version < n
              /\ data'[r.key].version = n
          BY <1>2, <4>2, InstallRaises
        <5>2. r.versionSeen <= data[r.key].version
          BY <1>2 DEF ReadsNotAhead
        <5>3. PICK a, b : a = data[r.key].version /\ b = r.versionSeen
          OBVIOUS
        <5>4. a \in Nat /\ b \in Nat /\ a < n /\ b <= a /\ b = n
          BY <1>2, <3>2, <5>1, <5>2, <5>3
        <5> QED
          BY <5>4
      <4> QED
        BY <4>1, <4>2
    <3> QED
      BY <1>4, <3>1, <3>2 DEF ReadOnce
  <2> QED
    BY <2>1 DEF ReadsKept
<1>6. Sent'
  <2>1. ASSUME NEW u \in Txn,
               \/ state'[u] = "submitted" \/ u \in calls'
               \/ (\E m \in Nat : Sends(u, m)') \/ IsStray(u)'
        PROVE  IsTransfer(u)'
    <3>1. IsTransfer(u)
      BY <1>2, <2>1 DEF Sent, IsStray
    <3> QED
      BY <3>1, TransferKept
  <2> QED
    BY <2>1 DEF Sent
<1> QED
  BY <1>3, <1>5, <1>6

\* A record that arrives while the results are printed is that of a transfer that
\* was counted as aborted.
LEMMA InstallPrinting ==
    ASSUME Whole, NEW t \in Txn, NEW n \in Nat \ {0}, IsTransfer(t), installed[t] = 0,
           Install(CommitRecordOf(Request(t), n)),
           state[t] \notin {"unborn", "active"}, ~ IsCommitted(t),
           UNCHANGED <<state, phase, rounds, balances>>
    PROVE  Printing'
<1>1. Printing /\ installed \in [Txn -> Nat]
  BY InvParts DEF RemoteTypeOK
<1>2. CASE UNCHANGED <<data, installed>>
  BY <1>1, <1>2, PrintingKept DEF AllDone, AbortsWithoutEffect
<1>3. CASE installed' = [installed EXCEPT ![t] = n]
  <2>1. AllDone => ~ AbortsWithoutEffect'
    <3>1. SUFFICES ASSUME AllDone PROVE state[t] = "aborted"
      BY <1>1, <1>3 DEF AbortsWithoutEffect
    <3> QED
      BY <3>1, TransferWrites, PrintedStates
  <2> QED
    BY <1>1, <2>1, PrintingKept DEF AllDone
<1> QED
  BY <1>2, <1>3, TransferArrives

LEMMA ApplyFunds ==
    ASSUME Whole, NEW t \in Txn, Apply(t), UNCHANGED demoVars
    PROVE  DemoInv'
<1>1. /\ t \in calls /\ result[t] = NoResult /\ mu = t /\ mu' = NoTxn
      /\ Install(CommitRecordOf(Request(t), commitSeq))
      /\ result' = [result EXCEPT ![t] =
              IF Rejected(Record(Request(t), commitSeq)) THEN Aborted("error") ELSE Committed(commitSeq)]
      /\ UNCHANGED <<state, readSet, writeSet, observed, latestVersion, commitSeq, late, strays,
                     faults, calls, phase, job, rounds, balances>>
  BY DEF Apply, SubmitCommitApply, Return, Request, execVars, deployVars, demoVars
<1>2. /\ ClientPart /\ AnswerPart /\ RemoteTypeOK /\ ClientInv(Holder) /\ FaultsGrow
      /\ commitSeq \in Nat /\ result \in [Txn -> TxnResult] /\ installed \in [Txn -> Nat]
  BY <1>1, InvParts, UnchangedGrow DEF Types, CertTypeOK, RemoteTypeOK
<1>3. Holder = {t} /\ Holder' = {} /\ Sends(t, commitSeq)
  BY <1>1, NoTxnIsNone DEF Holder, Sends
<1>4. \A rec \in late : rec.txnID # t
  BY <1>2, <1>3 DEF ClientInv, LateRecords
<1>5. \A u \in Txn, m \in Nat : Sends(u, m)' => Sends(u, m) /\ u # t
  BY <1>1, <1>3, <1>4 DEF Sends
<1>6. /\ IsTransfer(t) /\ installed[t] = 0 /\ commitSeq \in Nat \ {0}
      /\ state[t] \notin {"unborn", "active"}
  BY <1>2, <1>3, SendsFacts
<1>7. ReadsKept' /\ Sent' /\ Funds'
  BY <1>1, <1>2, <1>5, <1>6, InstallStore
<1>8. Undisturbed'
  <2>1. Happened("stray")' => Happened("stray")
    BY <1>1 DEF Happened
  <2> QED
    BY <1>1, <1>2, <1>3, <1>5, <2>1, InstallUndisturbed, StraySince DEF Undisturbed
<1>9. ClientPart'
  BY <1>1, <1>2, ClientPartKept
<1>10. AnswerPart'
  <2>1. \A u \in Txn : installed[u] # 0 => installed'[u] # 0
    BY <1>1, <1>2, <1>6, TransferArrives
  <2>2. \A u \in Txn : result'[u] = result[u] \/ (u \in calls /\ result[u] = NoResult)
    BY <1>1, <1>2
  <2> QED
    BY <1>1, <1>2, <2>1, <2>2, AnswersKept DEF Happened
<1>11. Printing'
  <2>1. ~ IsCommitted(t)
    BY <1>1 DEF IsCommitted, NoResult
  <2> QED
    BY <1>1, <1>6, <2>1, InstallPrinting
<1> QED
  BY <1>7, <1>8, <1>9, <1>10, <1>11 DEF DemoInv, StorePart

LEMMA LateFunds ==
    ASSUME Whole, NEW rec \in late, ApplyLate(rec), UNCHANGED deployVars, UNCHANGED mu,
           UNCHANGED demoVars
    PROVE  DemoInv'
<1>1. /\ late' = late \ {rec} /\ Install(rec)
      /\ UNCHANGED <<state, readSet, writeSet, observed, latestVersion, commitSeq, result, strays,
                     faults, calls, phase, mu, job, rounds, balances>>
  BY DEF ApplyLate, execVars, certVars, deployVars, demoVars
<1>2. /\ ClientPart /\ AnswerPart /\ RemoteTypeOK /\ ClientInv(Holder) /\ FaultsGrow
      /\ installed \in [Txn -> Nat]
  BY <1>1, InvParts, UnchangedGrow DEF RemoteTypeOK
<1>3. PICK t, n : t = rec.txnID /\ n = rec.commitSeq
  OBVIOUS
<1>4. t \in Txn /\ n \in Nat /\ Sends(t, n)
  BY <1>2, <1>3 DEF RemoteTypeOK, CommitRecord, Sends
<1>5. Install(CommitRecordOf(Request(t), n))
  BY <1>1, <1>2, <1>3 DEF ClientInv, LateRecords
<1>6. \A u \in Txn, m \in Nat : Sends(u, m)' => Sends(u, m) /\ u # t
  <2>1. t \notin Holder /\ \A other \in late : other.txnID = t => other = rec
    BY <1>2, <1>3 DEF ClientInv, LateRecords
  <2> QED
    BY <1>1, <2>1 DEF Sends, Holder
<1>7. /\ IsTransfer(t) /\ installed[t] = 0 /\ n \in Nat \ {0}
      /\ state[t] \notin {"unborn", "active"}
  BY <1>4, SendsFacts
<1>8. ReadsKept' /\ Sent' /\ Funds'
  BY <1>1, <1>2, <1>4, <1>5, <1>6, <1>7, InstallStore
<1>9. Undisturbed'
  <2>1. ASSUME ~ Happened("stray") PROVE InFlight' /\ MapKnows' /\ Balanced'
    <3>1. UNCHANGED <<readSet, writeSet, latestVersion>>
      BY <1>1
    <3> QED
      BY <1>4, <1>5, <1>6, <2>1, <3>1, InstallUndisturbed
  <2> QED
    BY <1>2, <2>1, StraySince DEF Undisturbed
<1>10. ClientPart'
  BY <1>1, <1>2, ClientPartKept
<1>11. AnswerPart'
  <2>1. \A u \in Txn : installed[u] # 0 => installed'[u] # 0
    BY <1>2, <1>4, <1>5, <1>7, TransferArrives
  <2> QED
    BY <1>1, <1>2, <2>1, AnswersKept DEF Happened
<1>12. Printing'
  <2>1. ~ IsCommitted(t)
    BY <1>2, <1>3 DEF AnswerPart, Refused
  <2> QED
    BY <1>1, <1>4, <1>5, <1>7, <2>1, InstallPrinting
<1> QED
  BY <1>8, <1>9, <1>10, <1>11, <1>12 DEF DemoInv, StorePart

LEMMA StrayFunds ==
    ASSUME Whole, NEW rec \in strays, ApplyStray(rec), UNCHANGED deployVars, UNCHANGED mu,
           UNCHANGED demoVars
    PROVE  DemoInv'
<1>1. /\ strays' = strays \ {rec} /\ Install(rec)
      /\ faults' = IF Rejected(rec.writes) THEN faults ELSE [faults EXCEPT !["stray"] = @ + 1]
      /\ UNCHANGED <<state, readSet, writeSet, observed, latestVersion, commitSeq, result, late,
                     calls, phase, mu, job, rounds, balances>>
  BY DEF ApplyStray, execVars, certVars, deployVars, demoVars
<1>2. /\ Types /\ ClientPart /\ StorePart /\ AnswerPart /\ RemoteTypeOK /\ ClientInv(Holder)
      /\ StrayRecords(Holder) /\ installed \in [Txn -> Nat] /\ StoreBounded
  BY InvParts, StrongParts DEF RemoteTypeOK, ClientInv, Whole
<1>3. FaultsGrow
  BY <1>2, StrayFacts
<1>4. PICK t, n : t = rec.txnID /\ n = rec.commitSeq
  OBVIOUS
<1>5. t \in Txn /\ n \in Nat \ {0}
  BY <1>2, <1>4, StrayShape
<1>6. /\ IsTransfer(t) /\ installed[t] = 0 /\ writeSet[t] # << >>
      /\ state[t] \notin {"unborn", "active"} /\ (t \in calls => result[t] # NoResult)
      /\ ~ IsCommitted(t)
  <2>1. IsTransfer(t)
    BY <1>2, <1>4, <1>5 DEF StorePart, Sent, IsStray
  <2>2. ~ IsCommitted(t)
    BY <1>2, <1>4 DEF AnswerPart, Refused
  <2> QED
    BY <1>2, <1>4, <2>1, <2>2, TransferWrites DEF StrayRecords
<1>7. rec.writes = Record(Request(t), n)
  <2>1. writeSet[t] = Written(rec)
    BY <1>2, <1>4, <1>6 DEF StrayRecords
  <2>2. rec.writes = Record([writeSet |-> Written(rec)], n)
    BY <1>2, <1>4, StrayShape
  <2> QED
    BY <2>1, <2>2 DEF Record, Request
<1>8. Install(CommitRecordOf(Request(t), n))
  <2>1. PICK q : q = CommitRecordOf(Request(t), n)
    OBVIOUS
  <2>2. q.writes = rec.writes /\ q.txnID = rec.txnID /\ q.commitSeq = rec.commitSeq
    BY <1>4, <1>7, <2>1 DEF CommitRecordOf, Request
  <2>3. Install(q)
    BY <1>1, <2>2 DEF Install
  <2> QED
    BY <2>1, <2>3
<1>9. \A u \in Txn, m \in Nat : Sends(u, m)' => Sends(u, m)
  BY <1>1 DEF Sends, Holder
<1>10. \/ UNCHANGED <<data, installed, faults>>
       \/ installed' = [installed EXCEPT ![t] = n] /\ Happened("stray")'
  BY <1>2, <1>4, StrayFacts
<1>11. ClientPart' /\ ReadsKept' /\ Sent' /\ Funds'
  BY <1>1, <1>3, <1>2, <1>5, <1>6, <1>8, <1>9, InstallStore, ClientPartKept
<1>12. Printing'
  BY <1>1, <1>5, <1>6, <1>8, InstallPrinting
<1>13. CASE UNCHANGED <<data, installed, faults>>
  <2>1. StorePart'
    BY <1>1, <1>2, <1>3, <1>9, <1>13, KeptStore
  <2>2. AnswerPart'
    BY <1>1, <1>2, <1>13, AnswersKept DEF Happened, IsCommitted, AnswerPart, Refused
  <2> QED
    BY <1>11, <1>12, <2>1, <2>2 DEF DemoInv
<1>14. CASE installed' = [installed EXCEPT ![t] = n] /\ Happened("stray")'
  <2>1. Refused'
    BY <1>1, <1>2 DEF AnswerPart, Refused, IsCommitted
  <2>2. Strayed'
    <3>1. installed'[t] # 0
      BY <1>2, <1>5, <1>14
    <3>2. ~ IsCommitted(t)'
      BY <1>1, <1>6 DEF IsCommitted
    <3> QED
      BY <1>1, <1>5, <1>6, <3>1, <3>2 DEF Strayed
  <2> QED
    BY <1>11, <1>12, <1>14, <2>1, <2>2 DEF DemoInv, StorePart, Undisturbed, AnswerPart
<1> QED
  BY <1>10, <1>13, <1>14

-----------------------------------------------------------------------------
(***************************************************************************)
(* The invariant holds in every reachable state.                           *)
(***************************************************************************)
LEMMA DemoStarts ==
    ASSUME DemoInit PROVE Whole
<1>1. /\ RemoteInit
      /\ job = [c \in Client |-> NoJob] /\ rounds = [c \in Client |-> 0] /\ balances = << >>
  BY DEF DemoInit
<1>2. /\ data = NewMemStore /\ late = {} /\ strays = {} /\ calls = {} /\ phase = "empty"
      /\ server = "up" /\ ~ Happened("stray")
      /\ state = [t \in Txn |-> "unborn"] /\ readSet = [t \in Txn |-> {}]
      /\ writeSet = [t \in Txn |-> << >>] /\ observed = [t \in Txn |-> {}]
      /\ latestVersion = VersionsIn(data) /\ mu = NoTxn
  BY <1>1 DEF RemoteInit, DeployInit, NewEngine, NewRemoteStore, NewImmediateCertifier, NewCertifier,
             DumpState, Happened
<1>3. Strong
  BY <1>1, InitStrong
<1>4. Jobs
  BY <1>1, <1>2, DemoAssumption DEF Jobs
<1>5. Untouched
  BY <1>2 DEF Untouched
<1>6. Progress
  <2>1. ASSUME NEW c \in Client, NEW j \in TransferJob, j = job[c] PROVE FALSE
    BY <1>1, <2>1, NoTxnIsNone DEF TransferJob, NoJob
  <2> QED
    BY <2>1 DEF Progress
<1>7. \A t \in Txn, n \in Nat : ~ Sends(t, n)
  BY <1>2 DEF Sends, Holder
<1>8. ReadsKept /\ Sent /\ Funds
  BY <1>2, <1>7 DEF ReadsKept, ReadOnce, Sent, IsStray, Funds
<1>9. Undisturbed
  <2>1. InFlight
    BY <1>7 DEF InFlight
  <2>2. MapKnows
    BY <1>2, EmptyDump DEF MapKnows, VersionsIn
  <2>3. Balanced
    BY <1>2 DEF Balanced, Stocked
  <2> QED
    BY <2>1, <2>2, <2>3 DEF Undisturbed
<1>10. AnswerPart
  BY <1>2 DEF AnswerPart, Refused, Strayed
<1>11. Printing
  <2>1. DOMAIN balances = {}
    BY <1>1
  <2> QED
    BY <2>1 DEF Printing
<1> QED
  BY <1>3, <1>4, <1>5, <1>6, <1>8, <1>9, <1>10, <1>11
  DEF Whole, DemoInv, ClientPart, StorePart

LEMMA ServerFunds ==
    ASSUME Whole, ServerStep, UNCHANGED demoVars
    PROVE  DemoInv'
<1>1. CASE Synchronise
  BY <1>1, SyncFunds
<1>2. ASSUME NEW t \in Txn, Handle(t) PROVE DemoInv'
  <2>1. CASE Validate(t)
    <3>1. /\ t \in calls /\ result[t] = NoResult
          /\ SubmitCommitStale(Request(t)) \/ SubmitCommitAssign(Request(t))
          /\ UNCHANGED <<execVars, remoteVars, deployVars>>
      BY <2>1 DEF Validate
    <3> QED
      BY <3>1, StaleFunds, AssignFunds
  <2>2. CASE Apply(t)
    BY <2>2, ApplyFunds
  <2>3. CASE ApplyFails(t)
    BY <2>3, ApplyFailsFunds
  <2> QED
    BY <1>2, <2>1, <2>2, <2>3 DEF Handle
<1>3. CASE Signal
  BY <1>3, SignalFunds
<1>4. CASE Crash
  BY <1>4, CrashFunds
<1>5. CASE StorageStep /\ UNCHANGED mu
  BY <1>5, LateFunds, StrayFunds DEF StorageStep
<1>6. CASE (Restart \/ Exit) /\ UNCHANGED mu
  BY <1>6, RestartFunds, ExitFunds
<1> QED
  BY <1>1, <1>2, <1>3, <1>4, <1>5, <1>6 DEF ServerStep

LEMMA DemoStutters ==
    ASSUME Whole, UNCHANGED <<vars, demoVars>>
    PROVE  DemoInv'
<1>1. UNCHANGED <<data, execVars, latestVersion, commitSeq, result, mu, late, strays, installed,
                  faults, calls, phase, server>>
  BY DEF vars, certVars, remoteVars, deployVars
<1>2. \A t \in Txn, n \in Nat : Sends(t, n)' => Sends(t, n)
  BY <1>1 DEF Sends, Holder
<1> QED
  BY <1>1, <1>2, QuietStep

LEMMA DemoSteady == Whole /\ [DemoNext]_allVars => Whole'
<1> SUFFICES ASSUME Whole, [DemoNext]_allVars PROVE DemoInv'
  BY StepStrong DEF Whole
<1>1. CASE LoadAccounts /\ UNCHANGED mu
  BY <1>1, LoadFunds
<1>2. ASSUME NEW k \in Key, PrintBalance(k), UNCHANGED mu PROVE DemoInv'
  BY <1>2, PrintStep
<1>3. ASSUME NEW c \in Client, StartTransfer(c) \/ Count(c), UNCHANGED mu PROVE DemoInv'
  BY <1>3, StartStep, CountStep
<1>4. ASSUME NEW c \in Client, Work(c), UNCHANGED mu PROVE DemoInv'
  BY <1>4, WorkClient, WorkStore DEF DemoInv
<1>5. CASE ServerStep /\ UNCHANGED demoVars
  BY <1>5, ServerFunds
<1>6. CASE UNCHANGED <<vars, demoVars>>
  BY <1>6, DemoStutters
<1> QED
  BY <1>1, <1>2, <1>3, <1>4, <1>5, <1>6, DemoSteps

LEMMA WholeInvariant == DemoSpec => []Whole
BY DemoStarts, DemoSteady, PTL DEF DemoSpec

(***************************************************************************)
(* runTransfers and printResults use the three processes only as           *)
(* RemoteImmediate says a client may, so that all that is proved of those  *)
(* holds for the demo: in particular, every balance that a transfer        *)
(* computes is a value of the store, also when it has read one account     *)
(* before another transfer and the other one after it.                     *)
(***************************************************************************)
THEOREM DemoImplements == DemoSpec => RemoteSpec
<1>1. DemoInit => RemoteInit
  BY DEF DemoInit
<1> QED
  BY <1>1, StepImplements, WholeInvariant, PTL DEF DemoSpec, RemoteSpec

(***************************************************************************)
(* No transfer makes or destroys money (README: "conservation of money"),  *)
(* whatever fails and whenever ccaas-server is killed and comes back, for  *)
(* every number of clients, accounts and transfers, as long as no record   *)
(* of an earlier certifier arrives after the next one has read the store:  *)
(* until then each record that reaches the store finds the two accounts as *)
(* its transfer has read them.                                             *)
(***************************************************************************)
THEOREM MoneyConserved == DemoSpec => []Conservation
<1>1. Whole => Conservation
  <2> SUFFICES ASSUME Whole, phase # "empty", ~ Happened("load"), ~ Happened("stray")
               PROVE  Total(data) = Expected
    BY DEF Conservation
  <2> QED
    BY InvParts DEF Funds, Balanced
<1> QED
  BY <1>1, WholeInvariant, PTL

(***************************************************************************)
(* printResults, which reads the accounts one by one, adds up the sum that *)
(* it expects (main.go: "Balance sum ... PASS") whatever has failed, if it *)
(* finds all accounts and no transfer that was counted as aborted has      *)
(* reached the store.  Once every client has counted its transfers, all    *)
(* records that may still arrive are of such transfers, and so are those   *)
(* that arrived after a restart.                                           *)
(***************************************************************************)
THEOREM ExpectedPrinted == DemoSpec => []PrintedSum
<1>1. Whole => PrintedSum
  <2> SUFFICES ASSUME Whole, Printed, ~ Happened("load"), \A k \in Key : Found(balances[k]),
                      AbortsWithoutEffect
               PROVE  Total(balances) = Expected
    BY DEF PrintedSum, AbortsWithoutEffect
  <2>1. Types /\ Printing /\ Funds /\ AnswerPart
    BY InvParts
  <2>2. DOMAIN balances = Key /\ \A k \in Key : balances[k] = data[k]
    BY <2>1 DEF Printed, Printing, NotFound, Found
  <2>3. Total(data) = Expected
    <3>1. CASE Key = {}
      BY <2>1, <3>1, NoAccounts
    <3>2. CASE Key # {}
      <4>1. phase = "ready" /\ AllDone
        BY <2>1, <2>2, <3>2 DEF Printing
      <4>2. ~ Happened("stray")
        BY <2>1, <4>1, PrintedStates DEF AnswerPart, Strayed, AbortsWithoutEffect
      <4> QED
        BY <2>1, <4>1, <4>2, InvParts DEF Funds, Balanced
    <3> QED
      BY <3>1, <3>2
  <2>4. Total(balances) = Total(data)
    <3> DEFINE v == [k \in Key |-> Atoi(balances[k].value)]
               w == [k \in Key |-> Atoi(data[k].value)]
    <3>1. DOMAIN data = Key
      BY <2>1 DEF Types, DeployTypeOK, StoreTypeOK
    <3>2. Total(balances) = SumFunctionOnSet(v, Key) /\ Total(data) = SumFunctionOnSet(w, Key)
      BY <2>2, <3>1 DEF Total, SumFunction
    <3>3. v = w
      BY <2>2
    <3> HIDE DEF v, w
    <3> QED
      BY <3>2, <3>3
  <2> QED
    BY <2>3, <2>4
<1> QED
  BY <1>1, WholeInvariant, PTL
=============================================================================
