-------------------------- MODULE RemoteTransfers ---------------------------
(***************************************************************************)
(* The bank-transfer demo (cmd/demo) in remote mode: client goroutines     *)
(* move money between accounts, one transaction per transfer, and when all *)
(* of them are done printResults adds up the balances.                     *)
(***************************************************************************)
EXTENDS RemoteImmediate, Strconv

CONSTANTS
    Client,           \* the goroutines of runTransfers
    TxnsPerClient,    \* txnsPerClient
    InitialBalance,   \* initialBalance
    MaxTransfer       \* maxTransfer

\* The sum of all accounts.
Expected == Cardinality(Key) * InitialBalance

\* A transfer reads its two accounts one after the other, and a record that
\* arrives after a restart may be let pass that should not be, so an account may
\* be credited with every transfer and debited with none.
ASSUME DemoAssumption ==
    /\ IsFiniteSet(Key)
    /\ TxnsPerClient \in Nat /\ InitialBalance \in Nat /\ MaxTransfer \in Nat
    /\ MaxTxns = TxnsPerClient * Cardinality(Client)
    /\ NoValue = << >>
    /\ \A n \in 0 .. InitialBalance + MaxTransfer * MaxTxns : Itoa(n) \in Value

VARIABLES
    job,        \* the transfer each client is working on, or NoJob
    rounds,     \* how many transfers it has finished
    counts,     \* committed and aborted of runTransfers
    balances    \* what Get has returned to printResults, for the accounts read so far

demoVars == <<job, rounds, counts, balances>>

allVars == <<vars, demoVars>>

NoJob == [txn |-> NoTxn]

DemoInit ==
    /\ RemoteInit
    /\ job = [c \in Client |-> NoJob]
    /\ rounds = [c \in Client |-> 0]
    /\ counts = [committed |-> 0, aborted |-> 0]
    /\ balances = << >>

LoadAccounts == Load([k \in Key |-> Itoa(InitialBalance)]) /\ UNCHANGED demoVars

StartTransfer(c) ==
    /\ job[c] = NoJob
    /\ rounds[c] < TxnsPerClient
    /\ StartTxn
    /\ \E src \in Key : \E dst \in Key \ {src} : \E amount \in 1 .. MaxTransfer :
        job' = [job EXCEPT ![c] = [txn |-> idCounter + 1, src |-> src, dst |-> dst,
                                   amount |-> amount]]
    /\ UNCHANGED <<rounds, counts, balances>>

\* What the transfer j has read of account k, which it reads once.
HasRead(j, k) == \E o \in observed[j.txn] : o.key = k

Balance(j, k) == Atoi((CHOOSE o \in observed[j.txn] : o.key = k).value)

Covered(j) == Balance(j, j.src) >= j.amount

\* The loop's body: two reads, then two writes and Commit, or Abort.
Transfer(j) ==
    \/ ~ HasRead(j, j.src) /\ ReadKey(j.txn, j.src)
    \/ HasRead(j, j.src) /\ ~ HasRead(j, j.dst) /\ ReadKey(j.txn, j.dst)
    \/ /\ HasRead(j, j.dst)
       /\ Covered(j)
       /\ CASE Len(writeSet[j.txn]) = 0 ->
                  WriteKey(j.txn, j.src, Itoa(Balance(j, j.src) - j.amount))
            [] Len(writeSet[j.txn]) = 1 ->
                  WriteKey(j.txn, j.dst, Itoa(Balance(j, j.dst) + j.amount))
            [] OTHER -> Submit(j.txn) \/ SubmitLost(j.txn)
    \/ Active(j.txn) /\ HasRead(j, j.dst) /\ ~ Covered(j) /\ Discard(j.txn)
    \/ Reply(j.txn) \/ ReplyLost(j.txn) \/ Disconnected(j.txn)

Work(c) ==
    /\ job[c] # NoJob
    /\ Transfer(job[c])
    /\ UNCHANGED demoVars

\* Commit or Abort has returned: the transfer is counted, the next one begins.
Count(c) ==
    /\ job[c] # NoJob
    /\ state[job[c].txn] \in {"committed", "aborted"}
    /\ job' = [job EXCEPT ![c] = NoJob]
    /\ rounds' = [rounds EXCEPT ![c] = @ + 1]
    /\ counts' = [counts EXCEPT ![state[job[c].txn]] = @ + 1]
    /\ UNCHANGED <<balances, data, execVars, certVars, remoteVars, deployVars>>

\* Mutant: printResults does not wait for all clients.
AllDoneAny == \E c \in Client : rounds[c] = TxnsPerClient

AllDone == \A c \in Client : rounds[c] = TxnsPerClient

\* printResults reads the accounts one by one; a Get may fail here as well.
PrintBalance(k) ==
    /\ phase = "ready" /\ AllDone
    /\ k \notin DOMAIN balances
    /\ \E r \in {Get(k)} \cup {NotFound : what \in Faulty \cap {"get"}} :
        balances' = [q \in DOMAIN balances \cup {k} |-> IF q = k THEN r ELSE balances[q]]
    /\ UNCHANGED <<job, rounds, counts, data, execVars, certVars, remoteVars, deployVars>>

Printed == DOMAIN balances = Key

Demo(c) == StartTransfer(c) \/ Work(c) \/ Count(c)

PrintResults == \E k \in Key : PrintBalance(k)

DemoNext ==
    \/ (LoadAccounts \/ PrintResults \/ \E c \in Client : Demo(c)) /\ UNCHANGED mu
    \/ ServerStep /\ UNCHANGED demoVars
    \/ Printed /\ UNCHANGED allVars

DemoSpec == DemoInit /\ [][DemoNext]_allVars

(***************************************************************************)
(* Fairness: the client's goroutines run, a call whose connection is gone  *)
(* or whose reply is there returns, a handler that waits for the mutex     *)
(* gets it (see BenchDriver), and GracefulStop returns when it can.        *)
(* Nobody has to start ccaas-server again.                                 *)
(***************************************************************************)
FairDemoSpec ==
    /\ DemoSpec
    /\ WF_allVars(LoadAccounts /\ UNCHANGED mu)
    /\ WF_allVars(Synchronise /\ UNCHANGED demoVars)
    /\ WF_allVars(PrintResults /\ UNCHANGED mu)
    /\ \A c \in Client : WF_allVars(Demo(c) /\ UNCHANGED mu)
    /\ \A t \in Txn : SF_allVars(Handle(t) /\ UNCHANGED demoVars)
    /\ WF_allVars(Exit /\ UNCHANGED <<mu, demoVars>>)

-----------------------------------------------------------------------------
(***************************************************************************)
(* Conservation of money in the store, at every moment and whatever fails: *)
(* a Get that answers "not found", an ApplyCommit that is lost or late, a  *)
(* SubmitCommit that the client takes for aborted, a certifier that is     *)
(* killed and comes back, with the store's versions or with none.  Only a  *)
(* store that LoadInitialData has not reached has no money, and only a     *)
(* record that arrives after the next certifier has read the store, which  *)
(* then lets transfers pass that have read the accounts before, makes or   *)
(* destroys some.                                                          *)
(***************************************************************************)
Conservation ==
    phase # "empty" /\ ~ Happened("load") /\ ~ Happened("stray") => Total(data) = Expected

(***************************************************************************)
(* What the demo prints is its expected sum (README: "The Balance sum ...  *)
(* PASS line is the correctness check": "conservation of money is verified *)
(* at the end"), whatever fails, unless an account could not be read or a  *)
(* transfer that was counted as aborted is in the store.  printResults     *)
(* reads the accounts one by one when all clients are done: a transfer     *)
(* that is under way then is one whose reply was lost, or whose record is  *)
(* late.                                                                   *)
(***************************************************************************)
PrintedSum ==
    /\ Printed /\ ~ Happened("load")
    /\ \A k \in Key : Found(balances[k])
    /\ \A t \in Txn : state[t] = "aborted" => installed[t] = 0
    => Total(balances) = Expected

\* Every transfer comes to an end and the demo prints its results, even if the
\* certifier dies and nobody starts it again.
DemoFinishes == <>Printed
=============================================================================
