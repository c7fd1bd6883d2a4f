----------------------------- MODULE Deployment -----------------------------
(***************************************************************************)
(* The three processes: a client (cmd/demo or cmd/benchmark in remote      *)
(* mode), ccaas-server and storage-server, whichever certifier runs in     *)
(* ccaas-server.  The servers start empty; the client loads the store,     *)
(* asks the certifier to synchronise and then runs its transactions.  A    *)
(* module that extends this one says what becomes of the variables of its  *)
(* certifier.                                                              *)
(***************************************************************************)
EXTENDS RemoteStore

VARIABLES
    calls,   \* transactions whose SubmitCommit has reached ccaas-server
    phase,   \* the client's start-up
    server   \* the process ccaas-server: "stopping" inside the signal handler,
             \* "closing" inside GracefulStop

deployVars == <<calls, phase, server>>

DeployTypeOK ==
    /\ StoreTypeOK /\ ExecTypeOK /\ RemoteTypeOK
    /\ calls \subseteq Txn
    /\ phase \in {"empty", "loaded", "ready"}
    /\ server \in {"up", "stopping", "closing", "down"}

DeployInit ==
    /\ data = NewMemStore
    /\ NewEngine
    /\ NewRemoteStore
    /\ calls = {}
    /\ phase = "empty"
    /\ server = "up"

\* ccaas-server accepts calls.
Accepting == server \in {"up", "stopping"}

Load(initial) ==
    /\ phase = "empty"
    /\ phase' = "loaded"
    /\ LoadInitialData(initial)
    /\ UNCHANGED <<execVars, certVars, late, strays, installed, calls, server>>

\* Another client process loads the store again, in front of a certifier that
\* has counted on, once the first one has ended and its calls are over.  What
\* the first one kept is gone, and a new history begins; its records may still
\* arrive.
Reload(initial) ==
    /\ phase = "ready"
    /\ \A t \in Txn : state[t] \notin {"active", "submitted"}
    /\ \A t \in calls : result[t] # NoResult
    /\ Fails("reload")
    /\ phase' = "loaded"
    /\ data' = Loaded(data, initial)
    /\ readSet' = [t \in Txn |-> {}]
    /\ writeSet' = [t \in Txn |-> << >>]
    /\ observed' = [t \in Txn |-> {}]
    /\ result' = [t \in Txn |-> NoResult]
    /\ installed' = [t \in Txn |-> 0]
    /\ calls' = {}
    /\ strays' = strays \cup late /\ late' = {}
    /\ UNCHANGED <<idCounter, state, latestVersion, commitSeq, server>>

\* SyncFromStorage.  The client ignores that the call has failed, and the
\* certifier that its own call of DumpState has.
Sync ==
    /\ phase = "loaded"
    /\ phase' = "ready"
    /\ \/ Accepting /\ \E dump \in {DumpState, NewMemStore} : 
            Dumped(dump, "dump") /\ SyncFromStorage(dump)
       \/ Fails("sync") /\ UNCHANGED certVars
       \/ ~ Accepting /\ UNCHANGED <<faults, certVars>>
    /\ UNCHANGED <<data, execVars, late, strays, installed, calls, server>>

\* Steps of the client process that no other process takes part in.
Local == UNCHANGED <<data, certVars, remoteVars, deployVars>>

StartTxn == phase = "ready" /\ Begin /\ Local

ReadKey(t, k) ==
    \/ Read(t, k) /\ Local
    \/ GetFails(t, k) /\ UNCHANGED deployVars

WriteKey(t, k, v) == Write(t, k, v) /\ Local

Discard(t) == Abort(t) /\ Local

\* Commit sends the request.
Submit(t) ==
    /\ Commit(t)
    /\ Accepting
    /\ calls' = calls \cup {t}
    /\ UNCHANGED <<data, certVars, remoteVars, phase, server>>

\* The request never reaches the certifier ...
SubmitLost(t) ==
    /\ Commit(t)
    /\ Fails("submit") \/ (~ Accepting /\ UNCHANGED faults)
    /\ UNCHANGED <<data, certVars, late, strays, installed, deployVars>>

\* ... or the process that was executing it is gone: an error, which the
\* client takes for an abort.
Disconnected(t) ==
    /\ t \notin calls
    /\ CommitReturn(t, Aborted("error"))
    /\ Local

\* The connection breaks while the handler is executing; the handler goes on.
ReplyLost(t) ==
    /\ t \in calls
    /\ Fails("submit")
    /\ CommitReturn(t, Aborted("error"))
    /\ UNCHANGED <<data, certVars, late, strays, installed, deployVars>>

Reply(t) == CommitReturn(t, result[t]) /\ Local

\* The process dies and its handlers with it.
Die ==
    /\ server # "down"
    /\ Fails("crash")
    /\ server' = "down"
    /\ calls' = {}
    /\ UNCHANGED <<execVars, certVars, phase>>

\* Mutant: the counter starts from zero.
RestartFromZero ==
    /\ server = "down"
    /\ server' = "up"
    /\ \E dump \in {DumpState, NewMemStore} :
        Dumped(dump, "boot") /\ latestVersion' = VersionsIn(dump)
    /\ commitSeq' = 0
    /\ strays' = strays \cup late /\ late' = {}
    /\ UNCHANGED <<data, execVars, result, installed, calls, phase>>

\* ccaas-server starts again and makes its certifier from the live store, which
\* may not have executed yet what the old process has sent to it.
Restart ==
    /\ server = "down"
    /\ server' = "up"
    /\ \E dump \in {DumpState, NewMemStore} :
        /\ Dumped(dump, "boot")
        /\ latestVersion' = VersionsIn(dump)
        /\ commitSeq' = MaxVersion(dump)
    /\ strays' = strays \cup late /\ late' = {}
    /\ UNCHANGED <<data, execVars, result, installed, calls, phase>>

\* All handlers have returned: GracefulStop and then Serve and main return.
Exit ==
    /\ server = "closing"
    /\ \A t \in calls : result[t] # NoResult
    /\ server' = "down"
    /\ UNCHANGED <<data, execVars, certVars, remoteVars, calls, phase>>

StorageStep ==
    /\ (\E rec \in late : ApplyLate(rec)) \/ (\E rec \in strays : ApplyStray(rec))
    /\ UNCHANGED deployVars

ClientStep ==
    \/ \E keys \in SUBSET Key : \E initial \in [keys -> Value] :
            Load(initial) \/ Reload(initial)
    \/ StartTxn
    \/ \E t \in Txn :
        \/ \E k \in Key : ReadKey(t, k) \/ \E v \in Value : WriteKey(t, k, v)
        \/ Discard(t) \/ SubmitLost(t) \/ Disconnected(t) \/ ReplyLost(t) \/ Reply(t)

-----------------------------------------------------------------------------
(***************************************************************************)
(* SubmitCommit turns a transaction down as stale only because a record    *)
(* that the store has applied, or is going to apply, replaces something it *)
(* read (README: aborts "are how the certifier rejects non-serialisable    *)
(* interleavings").                                                        *)
(***************************************************************************)
AbortRejectsInterleaving ==
    \A t \in Txn : result[t].decision = "stale" =>
        \E r \in readSet[t], u \in Txn \ {t} :
            /\ Writes(u, r.key)
            /\ \/ installed[u] > r.versionSeen
               \/ \E rec \in late : rec.txnID = u

(***************************************************************************)
(* The same, unless a call has failed that leaves the map and the store,   *)
(* or the store and a reader, with different ideas of a version, or the    *)
(* store has executed a call after a new certifier read it.  A second      *)
(* client's load, lost requests and replies, and a certifier that is       *)
(* killed and comes back when its calls are over do not lead to such an    *)
(* abort.                                                                  *)
(***************************************************************************)
CallFailures == {"get", "apply", "sync", "dump", "boot", "stray"}

AbortUnlessCallFails ==
    \/ \E what \in CallFailures : Happened(what)
    \/ AbortRejectsInterleaving

\* A process that has been told to stop exits: GracefulStop waits for the
\* handlers, so each of them has to come to an end.
ShutdownCompletes == server \in {"stopping", "closing"} ~> server = "down"
-----------------------------------------------------------------------------
(***************************************************************************)
(* Facts that the properties above rest on, whichever certifier runs.  H   *)
(* holds the transaction, if any, whose record the certifier is handing to *)
(* the store, under the number commitSeq.                                  *)
(***************************************************************************)

\* The numbers under which t's record is in the store or may still get there.
Numbers(t, H) ==
    ({installed[t]} \ {0})
    \cup {rec.commitSeq : rec \in {q \in late : q.txnID = t}}
    \cup {commitSeq : u \in H \cap {t}}

Without(bad) == \A what \in bad : ~ Happened(what)

\* Transactions run only between the synchronisation and the next load.
NotRunning(H) ==
    phase # "ready" =>
        /\ H = {} /\ calls = {} /\ late = {}
        /\ \A t \in Txn : /\ state[t] \notin {"active", "submitted"}
                          /\ readSet[t] = {} /\ writeSet[t] = << >> /\ observed[t] = {}
                          /\ result[t] = NoResult
                          /\ installed[t] = 0 \/ Happened("stray")

\* What has been submitted, numbered or answered is not changed any more.
SentNotActive(H) ==
    \A t \in Txn :
        t \in calls \/ result[t] # NoResult \/ Numbers(t, H) # {}
        => state[t] \notin {"unborn", "active"}

\* A late record is the one SubmitCommit made, it is the only one of its
\* transaction, and its number is not in use.
LateRecords(H) ==
    \A rec \in late :
        /\ rec = CommitRecordOf(Request(rec.txnID), rec.commitSeq)
        /\ rec.commitSeq \in 1 .. commitSeq
        /\ H # {} => rec.commitSeq # commitSeq
        /\ installed[rec.txnID] = 0
        /\ rec.txnID \notin H
        /\ rec.txnID \in calls => result[rec.txnID] # NoResult
        /\ \A other \in late : other.txnID = rec.txnID => other = rec

\* The write set that a record was made from.
Written(rec) ==
    [i \in 1 .. Len(rec.writes) |-> [key |-> rec.writes[i].key, value |-> rec.writes[i].value]]

\* So is a stray, of a transaction that its client has given up.  Its number may
\* be in use again, and its client's reads and writes may be gone.
StrayRecords(H) ==
    \A rec \in strays :
        /\ rec.commitSeq # 0
        /\ \A i \in 1 .. Len(rec.writes) : rec.writes[i].newVersion = rec.commitSeq
        /\ writeSet[rec.txnID] \in {<< >>, Written(rec)}
        /\ installed[rec.txnID] = 0
        /\ rec.txnID \notin H
        /\ state[rec.txnID] \notin {"unborn", "active"}
        /\ rec.txnID \in calls => result[rec.txnID] # NoResult
        /\ \A other \in late \cup (strays \ {rec}) : other.txnID # rec.txnID

\* Calls are answered before their record is in the store, or is given up.
Unanswered(H) ==
    /\ \A t \in calls : result[t] = NoResult => installed[t] = 0 /\ server # "down"
    /\ \A t \in H :
        /\ H = {t} /\ t \in calls /\ result[t] = NoResult /\ commitSeq > 0
        /\ \A k \in Key : Writes(t, k) => latestVersion[k] = commitSeq

InstalledHeld ==
    \A t \in Txn, k \in Key : Writes(t, k) => installed[t] <= data[k].version

MapBounded == \A k \in Key : latestVersion[k] <= commitSeq

\* The client has learned the certifier's answer, or there was nothing to do.
ReportedAnswer ==
    \A t \in Txn : state[t] = "committed" => IsCommitted(t) \/ writeSet[t] = << >>

ClientInv(H) ==
    /\ NotRunning(H) /\ NotBegun /\ SentNotActive(H)
    /\ LateRecords(H) /\ StrayRecords(H)
    /\ Unanswered(H) /\ ReportedAnswer

VersionInv == InstalledHeld /\ ReadsNotAhead /\ ReadsRecorded /\ MapBounded

\* The map is not behind the numbers of any record that it has let pass.
MapCoversNumbers(H) ==
    \A t \in Txn, k \in Key : Writes(t, k) =>
        \A n \in Numbers(t, H) : n <= latestVersion[k]

ReadsBelow(H) ==
    \A t \in Txn : Numbers(t, H) # {} =>
        \A r \in readSet[t] : r.versionSeen <= commitSeq

\* InstalledHistorySerial, for the late records as well.
WritersSerial(H) ==
    \A t \in Txn : \A n \in Numbers(t, H), r \in readSet[t] : writeSet[t] # << >> =>
        /\ r.versionSeen < n
        /\ \A u \in Txn \ {t} : Writes(u, r.key) =>
            \A m \in Numbers(u, H) : ~ (r.versionSeen < m /\ m < n)

ReadersSerial(H) ==
    \A t \in Txn : Numbers(t, H) # {} /\ writeSet[t] = << >> =>
        \A r, s \in readSet[t] : \A u \in Txn \ {t} : Writes(u, r.key) =>
            \A m \in Numbers(u, H) : ~ (r.versionSeen < m /\ m <= s.versionSeen)

\* What leaves the map of a certifier behind the records in the store.
MapFailures == {"boot", "stray"}

SerialInv(H) ==
    MapCoversNumbers(H) /\ ReadsBelow(H) /\ WritersSerial(H) /\ ReadersSerial(H)

\* The map knows of every version that has replaced one that was read.
ReplacedKnown ==
    \A t \in Txn : \A r \in readSet[t] :
        r.versionSeen # data[r.key].version => data[r.key].version <= latestVersion[r.key]

\* While t's record is handed over its reads are current, and the records that
\* may arrive in the meantime are too old to change that.
SentReadsCurrent(H) ==
    \A t \in H : \A r \in readSet[t] :
        /\ r.versionSeen = data[r.key].version
        /\ \A rec \in late : Writes(rec.txnID, r.key) => rec.commitSeq <= r.versionSeen

ReadInv(H) == ObservedCurrent /\ ReplacedKnown /\ SentReadsCurrent(H)

\* The certifier that takes the client's calls has started from the store.
Synced == phase = "ready" /\ (Accepting \/ calls # {})

\* The next number is above every version in the store.
NumbersFresh(H) ==
    Synced => \A k \in Key : /\ data[k].version <= commitSeq
                             /\ H # {} => data[k].version < commitSeq

SyncFailures == {"sync", "dump", "boot", "stray"}

DeployInv(H) ==
    /\ ClientInv(H)
    /\ VersionInv
    /\ Without(MapFailures) => SerialInv(H)
    /\ Without({"get"} \cup MapFailures) => ReadInv(H)
    /\ Without(SyncFailures) => NumbersFresh(H)
=============================================================================
