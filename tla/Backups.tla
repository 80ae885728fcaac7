-------------------------------- MODULE Backups --------------------------------
(***************************************************************************)
(* Backup and restore of a database under the gateway that writes it       *)
(* (gateway/src/tools/infrastructure.py, products/shared/src/              *)
(* db_security.py).  What takes long runs in threads, which a time-out of  *)
(* their request does not stop.  A backup is named by the second in which  *)
(* it began.  The database is that of billing, and holds deposits, each a  *)
(* balance and a ledger row, committed one after the other.                *)
(***************************************************************************)
EXTENDS Coroutines

CONSTANTS MaxSecond,
          Opening     \* a deposit from before

\* A restore names the backup whose answer it has; what comes after an answer
\* comes after that of a restore.
ASSUME BackupConstants ==
    /\ MaxSecond \in Nat /\ Opening \notin Requests
    /\ \A w \in Workloads : \A r \in Requests :
          /\ w[r].op = "restore" => w[r].of \in Requests /\ w[w[r].of].op = "backup"
          /\ w[r].op = "backup" => w[r].encrypt \in BOOLEAN
          /\ "after" \in DOMAIN w[r] => w[r].after \in Requests /\ w[w[r].after].op = "restore"

VARIABLES
    live,     \* the database: bal and row, sets of deposits
    second,
    files,    \* second -> kind -> what is there
    keys,     \* backup_keys: whose keys are there
    path,     \* the second in the name that a request works with
    thread,   \* what a request has a thread do: "idle", "failed" if it raised
    copied,   \* history: what a backup has copied
    loaded,   \* history: what a restore has loaded
    met,      \* history: restores of one file that overlapped
    torn      \* history: deposits between whose commits a copy or a load fell

backupVars == <<live, second, files, keys, path, thread, copied, loaded, met, torn>>

Empty == [bal |-> {}, row |-> {}]
NoFile == [there |-> FALSE, data |-> Empty, key |-> Opening]
File(data, key) == [there |-> TRUE, data |-> data, key |-> key]
FileOf(r, kind) == files[path[r]][kind]
Put(r, kind, file) == files' = [files EXCEPT ![path[r]][kind] = file]
Hand(r, work) == thread' = [thread EXCEPT ![r] = work] /\ Go(r, work)
Returned(r, op, work) == At(r, op, work) /\ thread[r] \notin {"copy", "encrypt", "decrypt", "load"}
Ends(r, result) == thread' = [thread EXCEPT ![r] = result]
Between == {d \in Requests : At(d, "deposit", "record")}

\* The client sends it when the request it names has been answered.
Answered(r) == "after" \in DOMAIN job[r] => pc[job[r].after] \in Terminal
\* Without a backup nothing is restored, and what would follow that is not sent.
NotRestored(r) == Op(r) = "restore" /\ pc[r] = "new" /\ pc[job[r].of] # "done"

-----------------------------------------------------------------------------
\* A deposit: its two commits.
DepositBalance(r) ==
    /\ At(r, "deposit", "new") /\ Answered(r)
    /\ live' = [live EXCEPT !.bal = @ \cup {r}]
    /\ Go(r, "record")
    /\ UNCHANGED <<second, files, keys, path, thread, copied, loaded, met, torn>>

RecordDeposit(r) ==
    /\ At(r, "deposit", "record")
    /\ live' = [live EXCEPT !.row = @ \cup {r}]
    /\ Go(r, "done")
    /\ UNCHANGED <<second, files, keys, path, thread, copied, loaded, met, torn>>

-----------------------------------------------------------------------------
\* _backup_database.
BeginBackup(r) ==
    /\ At(r, "backup", "new")
    /\ path' = [path EXCEPT ![r] = second]
    /\ Hand(r, "copy")
    /\ UNCHANGED <<live, second, files, keys, copied, loaded, met, torn>>

\* The size of the copy is read; a backup of the same second may have taken it.
AfterCopy(r) ==
    /\ Returned(r, "backup", "copy")
    /\ \/ /\ FileOf(r, "db").there /\ job[r].encrypt
          /\ Hand(r, "encrypt")
       \/ /\ ~(FileOf(r, "db").there /\ job[r].encrypt)
          /\ Go(r, IF FileOf(r, "db").there THEN "done" ELSE "error")
          /\ UNCHANGED thread
    /\ UNCHANGED <<live, second, files, keys, path, copied, loaded, met, torn>>

\* The plain copy goes, and the key is kept for the client.
EndBackup(r) ==
    /\ Returned(r, "backup", "encrypt")
    /\ IF thread[r] = "failed" \/ ~FileOf(r, "db").there
       THEN Go(r, "error") /\ UNCHANGED <<files, keys>>
       ELSE /\ Put(r, "db", NoFile)
            /\ keys' = keys \cup {r}
            /\ Go(r, "done")
    /\ UNCHANGED <<live, second, path, thread, copied, loaded, met, torn>>

\* _restore_database, with the filename and the key_id of an answer.
Busy(q) == Running(q) \/ thread[q] \in {"decrypt", "load"}
BeginRestore(r) ==
    /\ At(r, "restore", "new") /\ pc[job[r].of] = "done"
    /\ LET b == job[r].of
           kind == IF job[b].encrypt THEN "enc" ELSE "db"
           others == {q \in Requests \ {r} : Op(q) = "restore" /\ job[q].of = b /\ Busy(q)} IN
       /\ path' = [path EXCEPT ![r] = path[b]]
       /\ met' = IF others = {} THEN met ELSE met \cup others \cup {r}
       /\ IF files[path[b]][kind].there
          THEN Hand(r, IF job[b].encrypt THEN "decrypt" ELSE "load")
          ELSE Go(r, "error") /\ UNCHANGED thread
    /\ UNCHANGED <<live, second, files, keys, copied, loaded, torn>>

AfterDecryption(r) ==
    /\ Returned(r, "restore", "decrypt")
    /\ \/ /\ thread[r] = "idle" /\ FileOf(r, "dec").there
          /\ Hand(r, "load")
       \/ /\ thread[r] = "failed" \/ ~FileOf(r, "dec").there
          /\ Go(r, "error")
          /\ UNCHANGED thread
    /\ UNCHANGED <<live, second, files, keys, path, copied, loaded, met, torn>>

\* What was decrypted is deleted, if it is still there.
EndRestore(r) ==
    /\ Returned(r, "restore", "load")
    /\ IF job[job[r].of].encrypt THEN Put(r, "dec", NoFile) ELSE UNCHANGED files
    /\ Go(r, "done")
    /\ UNCHANGED <<live, second, keys, path, thread, copied, loaded, met, torn>>

BackupStep(r) == \/ DepositBalance(r) \/ RecordDeposit(r) \/ BeginBackup(r) \/ AfterCopy(r)
                 \/ EndBackup(r) \/ BeginRestore(r) \/ AfterDecryption(r) \/ EndRestore(r)

-----------------------------------------------------------------------------
\* The threads.  The backup API of SQLite copies what is committed, at once.
CopyLive(r) ==
    /\ thread[r] = "copy"
    /\ Put(r, "db", File(live, Opening))
    /\ copied' = [copied EXCEPT ![r] = live]
    /\ torn' = torn \cup Between
    /\ Ends(r, "idle")
    /\ UNCHANGED <<live, keys, loaded>>

EncryptFile(r) ==
    /\ thread[r] = "encrypt"
    /\ IF FileOf(r, "db").there
       THEN Put(r, "enc", File(FileOf(r, "db").data, r)) /\ Ends(r, "idle")
       ELSE Ends(r, "failed") /\ UNCHANGED files
    /\ UNCHANGED <<live, keys, copied, loaded, torn>>

DecryptFile(r) ==
    /\ thread[r] = "decrypt"
    /\ IF FileOf(r, "enc").key = job[r].of
       THEN Put(r, "dec", File(FileOf(r, "enc").data, Opening)) /\ Ends(r, "idle")
       ELSE Ends(r, "failed") /\ UNCHANGED files
    /\ UNCHANGED <<live, keys, copied, loaded, torn>>

\* sqlite3.connect creates a source that is not there: an empty database.
LoadFile(r) ==
    /\ thread[r] = "load"
    /\ LET data == FileOf(r, IF job[job[r].of].encrypt THEN "dec" ELSE "db").data IN
       /\ live' = data
       /\ loaded' = [loaded EXCEPT ![r] = data]
    /\ torn' = torn \cup Between
    /\ Ends(r, "idle")
    /\ UNCHANGED <<files, keys, copied>>

ThreadStep ==
    \/ /\ \E r \in Requests : CopyLive(r) \/ EncryptFile(r) \/ DecryptFile(r) \/ LoadFile(r)
       /\ UNCHANGED <<second, path, met>>
    \/ /\ second < MaxSecond /\ \E r \in Requests : Op(r) = "backup"
       /\ second' = second + 1
       /\ UNCHANGED <<live, files, keys, path, thread, copied, loaded, met, torn>>

\* The threads end with the process; what a statement has not committed is not there.
BackupCrash ==
    /\ thread' = [r \in Requests |-> "idle"]
    /\ UNCHANGED <<live, second, files, keys, path, copied, loaded, met, torn>>

BackupInit ==
    /\ live = [bal |-> {Opening}, row |-> {Opening}]
    /\ second = 0
    /\ files = [s \in 0..MaxSecond |-> [kind \in {"db", "enc", "dec"} |-> NoFile]]
    /\ keys = {}
    /\ path = [r \in Requests |-> MaxSecond + 1]
    /\ thread = [r \in Requests |-> "idle"]
    /\ copied = [r \in Requests |-> Empty] /\ loaded = [r \in Requests |-> Empty]
    /\ met = {} /\ torn = {}

-----------------------------------------------------------------------------
Twin(b) == \E q \in Requests \ {b} : Op(q) = "backup" /\ path[q] = path[b]

\* The answer to a backup names a file that has what was copied, and whose key
\* is kept, until the end, unless another backup began in the same second; and
\* what a restore was answered for is what that backup had copied, unless two
\* restores of the file overlapped.
BackupsRestore ==
    /\ \A b \in Requests : Op(b) = "backup" /\ pc[b] = "done" /\ ~Twin(b) =>
          IF job[b].encrypt THEN FileOf(b, "enc") = File(copied[b], b) /\ b \in keys
                            ELSE FileOf(b, "db") = File(copied[b], Opening)
    /\ \A r \in Requests \ met : Op(r) = "restore" /\ pc[r] = "done" /\ ~Twin(job[r].of) =>
          loaded[r] = copied[job[r].of]

\* The database is never emptied, unless two restores of one file overlap, or
\* the file had two backups; and a deposit is there as a whole, unless it was
\* cut, or a copy or a load fell between its commits.
LiveWhole ==
    /\ met = {} /\ (\A r \in Requests : Op(r) = "restore" => ~Twin(job[r].of)) => Opening \in live.bal \cap live.row
    /\ \A d \in Requests \ torn : (d \in live.bal) # (d \in live.row) =>
          d \in Between \/ cut[d] = "record"

\* A deposit that is sent when the answer to the only restore is there stays,
\* unless that answer was a time-out: its thread may still load.
LaterDepositsStay == \A d \in Requests : Op(d) = "deposit" /\ pc[d] = "done" /\ "after" \in DOMAIN job[d] =>
    \/ d \in live.bal \cap live.row
    \/ pc[job[d].after] = "504"
    \/ \E q \in Requests \ {job[d].after} : Op(q) = "restore"

BackupsRight == BackupsRestore /\ LiveWhole /\ LaterDepositsStay
============================================================================
