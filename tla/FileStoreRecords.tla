--------------------------- MODULE FileStoreRecords ---------------------------
(***************************************************************************)
(* The file store's definition locks, item states, completion and cursor   *)
(* (stores/file/file-migration-store.ts; its run lifecycle is the module   *)
(* FileMigrationStore).  Every record is a file.  A record is written      *)
(* aside and renamed, so that it changes as a whole; only a lock file is   *)
(* created in place, and is empty until its text is written.  Callers are  *)
(* processes on one directory.                                             *)
(***************************************************************************)
EXTENDS StoreBackend

\* The lock file exists, and its text decodes.
Readable(lock) == Present(lock) /\ lock.token > 0

\* writeNewFileString creates the file (flag wx): an existing one means that
\* the definition is already locked.
FileAcquire(c, d, r) ==
    /\ StartCall(c, IF Present(locks[d]) THEN Idle
                    ELSE [pc |-> "write-lock", definition |-> d, owner |-> r,
                          token |-> calls + 1])
    /\ locks' = IF Present(locks[d]) THEN locks
                ELSE [locks EXCEPT ![d].version = calls + 1]
    /\ UNCHANGED <<held, broken>>

\* The text is written to the file that was created; it is lost when that
\* file has been removed since.
FileWriteLock(c) ==
    LET k == call[c]
        d == k.definition
    IN /\ call[c].pc = "write-lock"
       /\ locks' = IF locks[d].version = k.token
                   THEN [locks EXCEPT ![d].ownerRunId = k.owner,
                                      ![d].token = k.token]
                   ELSE locks
       /\ held' = [held EXCEPT ![c][d] = k.token]
       /\ Return(c)
       /\ UNCHANGED broken

\* releaseDefinitionLock: no file is a release; a file that does not decode or
\* names another token is an error.
FileReleaseRead(c, d) ==
    /\ held[c][d] > 0
    /\ StartCall(c, IF Readable(locks[d]) /\ locks[d].token = held[c][d]
                    THEN [pc |-> "remove-lock", definition |-> d,
                          break |-> FALSE]
                    ELSE Idle)
    /\ held' = IF Readable(locks[d]) /\ locks[d].token = held[c][d] THEN held
               ELSE [held EXCEPT ![c][d] = 0]
    /\ UNCHANGED <<locks, broken>>

\* breakDefinitionLock reads the file too: one without its text is an error.
FileBreakRead(c, d) ==
    /\ StartCall(c, IF Readable(locks[d])
                    THEN [pc |-> "remove-lock", definition |-> d,
                          break |-> TRUE]
                    ELSE Idle)
    /\ UNCHANGED lockVars

\* removeFileIfExists removes whatever file has the lock's path by then.
FileRemoveLock(c) ==
    LET k == call[c]
        d == k.definition
    IN /\ call[c].pc = "remove-lock"
       /\ locks' = [locks EXCEPT ![d] = NoLock]
       /\ held' = IF k.break THEN held ELSE [held EXCEPT ![c][d] = 0]
       /\ broken' = IF k.break THEN broken \union {locks[d].version}
                    ELSE broken
       /\ Return(c)

FileLock(c, d) ==
    /\ (\E r \in Run : FileAcquire(c, d, r)) \/ FileReleaseRead(c, d)
         \/ FileBreakRead(c, d)
    /\ UNCHANGED <<runVars, itemVars>>

FileLockStep(c) ==
    /\ FileWriteLock(c) \/ FileRemoveLock(c)
    /\ UNCHANGED <<runVars, itemVars>>

-----------------------------------------------------------------------------
(* Items, completion and cursor *)

FileUpsertItemState(c, i) ==
    /\ SingleCall(c)
    /\ items' = [items EXCEPT ![i] = UpsertedItem(items[i], calls + 1)]
    /\ UNCHANGED <<completion, cursor>>

\* observeItemState reads; a missing item or a known inventory is a return.
FileObserveRead(c, i, r) ==
    /\ StartCall(c, IF Present(items[i]) /\ items[i].inventory # r
                    THEN [pc |-> "observe", item |-> i, run |-> r,
                          state |-> items[i]]
                    ELSE Idle)
    /\ UNCHANGED itemVars

\* The whole state is written back, without looking again.
FileObserveWrite(c) ==
    /\ call[c].pc = "observe"
    /\ items' = [items EXCEPT ![call[c].item] =
                    [call[c].state EXCEPT !.inventory = call[c].run]]
    /\ Return(c)
    /\ UNCHANGED <<completion, cursor>>

\* The projection lock of the definition is held by a removal.
Removing == \E c \in Caller : call[c] # Idle /\ "restore" \in DOMAIN call[c]

\* recordSourcePassCompletion waits for the projection lock.
FileRecordCompletion(c) ==
    /\ ~Removing
    /\ SingleCall(c)
    /\ completion' = [covers |-> {i \in Item : Present(items[i])},
                      version |-> 1]
    /\ UNCHANGED <<items, cursor>>

FileSetSourceCursor(c) ==
    /\ SingleCall(c)
    /\ cursor' = [covers |-> {i \in Item : Present(items[i])}, version |-> 1]
    /\ UNCHANGED <<items, completion>>

FileDeleteSourceCursor(c) ==
    /\ SingleCall(c)
    /\ cursor' = NoObject
    /\ UNCHANGED <<items, completion>>

\* removeRolledBackItem, under the projection lock: an absent item is a
\* return; otherwise completion and cursor are kept to be restored.
FileRemoveRead(c, i) ==
    /\ ~Removing
    /\ StartCall(c, IF Present(items[i])
                    THEN [pc |-> "remove-completion", item |-> i,
                          restore |-> [completion |-> completion,
                                       cursor |-> cursor]]
                    ELSE Idle)
    /\ UNCHANGED itemVars

FileRemoveStep(c) ==
    \/ /\ call[c].pc = "remove-completion"
       /\ completion' = NoObject
       /\ Continue(c, [call[c] EXCEPT !.pc = "remove-cursor"])
       /\ UNCHANGED <<items, cursor>>
    \/ /\ call[c].pc = "remove-cursor"
       /\ cursor' = NoObject
       /\ Continue(c, [call[c] EXCEPT !.pc = "remove-item"])
       /\ UNCHANGED <<items, completion>>
    \/ /\ call[c].pc = "remove-item"
       /\ items' = [items EXCEPT ![call[c].item] = NoItem]
       /\ Return(c)
       /\ UNCHANGED <<completion, cursor>>

\* A removal that fails goes on to restore the cursor and the completion it
\* had read; a restore that fails leaves the rest as it is.
FileRemoveFails(c) ==
    /\ call[c].pc \in {"remove-completion", "remove-cursor", "remove-item"}
    /\ lost < MaxLost
    /\ call' = [call EXCEPT ![c].pc = "restore-cursor"]
    /\ lost' = lost + 1
    /\ UNCHANGED <<itemVars, calls, overlapped>>

FileRestore(c) ==
    LET k == call[c]
    IN \/ /\ call[c].pc = "restore-cursor"
          /\ cursor' = IF Present(k.restore.cursor) THEN k.restore.cursor
                       ELSE cursor
          /\ Continue(c, [k EXCEPT !.pc = "restore-completion"])
          /\ UNCHANGED <<items, completion>>
       \/ /\ call[c].pc = "restore-completion"
          /\ completion' = IF Present(k.restore.completion)
                           THEN k.restore.completion ELSE completion
          /\ Return(c)
          /\ UNCHANGED <<items, cursor>>

\* The calls of the runner that holds the lock, and of one that lost it.
FileItem(c) ==
    /\ \/ \E i \in Item :
            \/ FileUpsertItemState(c, i)
            \/ \E r \in Run : FileObserveRead(c, i, r)
            \/ c = Holder /\ FileRemoveRead(c, i)
       \/ c = Holder /\ FileRecordCompletion(c)
       \/ c = Holder /\ FileSetSourceCursor(c)
       \/ c = Holder /\ FileDeleteSourceCursor(c)
    /\ UNCHANGED <<runVars, lockVars>>

FileItemStep(c) ==
    /\ FileObserveWrite(c) \/ FileRemoveStep(c) \/ FileRemoveFails(c)
         \/ FileRestore(c)
    /\ UNCHANGED <<runVars, lockVars>>
=============================================================================
