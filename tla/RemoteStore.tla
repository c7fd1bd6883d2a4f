---------------------------- MODULE RemoteStore -----------------------------
(***************************************************************************)
(* The storage layer behind gRPC: GRPCStoreClient and GRPCStorageServer of *)
(* pkg/storage.  A call that succeeds is the call of MemStore.  A call     *)
(* that fails in transport (there are no deadlines: the connection breaks) *)
(* may never have reached the server, or the server may have executed it   *)
(* without the reply arriving, or may still execute it, since its handlers *)
(* ignore the context.  The caller cannot tell these cases apart.          *)
(***************************************************************************)
EXTENDS Transactions

CONSTANTS
    Faulty,     \* what may happen besides: failing calls, a certifier that stops
    MaxFaults   \* bound: how often something goes wrong

ASSUME FaultyAssumption ==
    Faulty \subseteq {"get", "apply", "load", "dump",    \* calls of the store
                      "boot",                            \* DumpState at a restart
                      "sync", "submit",                  \* calls of the certifier
                      "stop", "crash", "panic",          \* of ccaas-server
                      "stray",                           \* see strays
                      "reload"}                          \* a second client

ASSUME MaxFaultsAssumption == MaxFaults \in Nat

VARIABLES
    late,        \* commit records whose ApplyCommit failed for the caller,
                 \* and which the server is still going to execute
    strays,      \* those of them that have outlived the certifier that sent
                 \* them, or the client whose transactions they belong to
    faults,      \* how often each of them has happened
    installed    \* history: the number under which the store has applied the
                 \* record of each transaction, 0 if it has not

remoteVars == <<late, strays, faults, installed>>

CommitRecord == [txnID : Txn, commitSeq : Nat, writes : Seq(CommitWrite)]

RemoteTypeOK ==
    /\ late \in SUBSET CommitRecord
    /\ strays \in SUBSET CommitRecord
    /\ faults \in [Faulty -> Nat]
    /\ installed \in [Txn -> Nat]

NewRemoteStore ==
    /\ late = {}
    /\ strays = {}
    /\ faults = [what \in Faulty |-> 0]
    /\ installed = [t \in Txn |-> 0]

Fails(what) ==
    /\ what \in Faulty
    /\ SumFunction(faults) < MaxFaults
    /\ faults' = [faults EXCEPT ![what] = @ + 1]

Happened(what) == what \in Faulty /\ faults[what] > 0

CommitRecordOf(req, seq) ==
    [txnID |-> req.txnID, commitSeq |-> seq, writes |-> Record(req, seq)]

\* Get returns Found: false on an error, as it does for a missing key.
GetFails(t, k) ==
    /\ Fails("get")
    /\ ReadFrom(t, k, NotFound)
    /\ UNCHANGED <<data, certVars, late, strays, installed>>

\* The server executes ApplyCommit.
Install(rec) ==
    /\ ApplyCommit(rec.writes)
    /\ installed' = IF Rejected(rec.writes)
                    THEN installed
                    ELSE [installed EXCEPT ![rec.txnID] = rec.commitSeq]

\* A record whose caller is gone is lost or arrives from now on.
Abandon(rec) ==
    /\ late' \in {late, late \cup {rec}}
    /\ UNCHANGED <<data, strays, installed>>

ApplyCommitFails(rec) == Fails("apply") /\ Abandon(rec)

\* The server executes a call that its caller has given up.
ApplyLate(rec) ==
    /\ rec \in late
    /\ late' = late \ {rec}
    /\ Install(rec)
    /\ UNCHANGED <<strays, faults, execVars, certVars>>

\* It executes one after a new certifier has called DumpState, or a new client
\* LoadInitialData.  Nobody waits for such records: restart-ccaas.sh sleeps for
\* 0.3 s between the kill and the new start.
ApplyStray(rec) ==
    /\ "stray" \in Faulty
    /\ rec \in strays
    /\ strays' = strays \ {rec}
    /\ Install(rec)
    /\ faults' = IF Rejected(rec.writes) THEN faults ELSE [faults EXCEPT !["stray"] = @ + 1]
    /\ UNCHANGED <<late, execVars, certVars>>

\* LoadInitialData logs an error and returns.  If the server executed the
\* call nevertheless, the effect is that of a call that succeeded.
LoadInitialData(initial) ==
    \/ data' = Loaded(data, initial) /\ UNCHANGED faults
    \/ Fails("load") /\ UNCHANGED data

\* What DumpState returns to the certifier: nil on an error, which is taken
\* for a store without keys.
Dumped(dump, when) ==
    \/ dump = DumpState /\ UNCHANGED faults
    \/ dump = NewMemStore /\ Fails(when)

-----------------------------------------------------------------------------
(***************************************************************************)
(* A commit the client was told of is in the store: each of its writes is  *)
(* the stored entry or was replaced by a later version, whatever calls     *)
(* failed, whichever abandoned records the server still executes, before   *)
(* or after a new certifier has read the store, and wherever that starts   *)
(* to count.  Only ApplyCommit's monotonicity check keeps those from       *)
(* undoing a commit.                                                       *)
(***************************************************************************)
ReportedCommitInStore ==
    \A t \in Txn, k \in Key : state[t] = "committed" /\ Writes(t, k) =>
        \/ data[k].version > result[t].commitSeq
        \/ data[k] = [value   |-> LastWrite(writeSet[t], k).value,
                      version |-> result[t].commitSeq]

\* What t read is what the installed records with numbers up to n have left.
SnapshotAt(t, n) ==
    \A r \in readSet[t] :
        /\ r.versionSeen <= n
        /\ \A u \in Txn \ {t} : Writes(u, r.key) => installed[u] \notin r.versionSeen + 1 .. n

(***************************************************************************)
(* The transactions whose records the store has applied, those included    *)
(* whose client was told "aborted", are a serial history: a writer read    *)
(* what the records with smaller numbers have left, a read-only            *)
(* transaction what some prefix of them has left (a restarted certifier    *)
(* uses the numbers of the latter again).  This is why SubmitCommit leaves *)
(* latestVersion ahead of the store when ApplyCommit fails.  It does not   *)
(* hold once a certifier that started anew has missed records: those of a  *)
(* store whose DumpState failed, or one that arrived after DumpState.      *)
(***************************************************************************)
InstalledHistorySerial ==
    \A t \in Txn : installed[t] # 0 /\ ~ Happened("boot") /\ ~ Happened("stray") =>
        SnapshotAt(t, IF writeSet[t] # << >>
                      THEN installed[t] - 1
                      ELSE Max({0} \cup {r.versionSeen : r \in readSet[t]}))
=============================================================================
