----------------------------- MODULE Attachments -----------------------------
(***************************************************************************)
(* The files of one user: AttachmentService and its repository, the object *)
(* store beside the database, and CleanupWorker.run_once, which removes    *)
(* what nobody sent and what belonged to purged conversations.             *)
(***************************************************************************)
EXTENDS Naturals, FiniteSets

CONSTANTS File,         \* attachments that may be uploaded
          Uploader,     \* uploads that may be in progress at once
          Conversation,
          MaxUnbound,   \* attachment_max_unbound_count_per_user
          NoFile,
          Unsent        \* the absence of a conversation

ASSUME AttachmentsAssumption ==
    /\ NoFile \notin File /\ Unsent \notin Conversation
    /\ IsFiniteSet(File) /\ IsFiniteSet(Uploader)
    /\ MaxUnbound \in Nat \ {0}

VARIABLES
    row,     \* attachments.status, "none" without a row
    sentTo,  \* the conversation of the message a file is bound to
    stale,   \* files past the expires_at of their upload
    object,  \* files the object store holds
    upload,  \* what each upload is doing
    erasing, \* deleted by their owner, the object still to be removed
    life,    \* each conversation's status
    due,     \* conversations past their retention, or deleted long ago
    cleaner, \* what CleanupWorker is doing
    marred   \* files hit by a fault, or sent while their conversation was purged

store == <<row, sentTo, stale, object>>
conversations == <<life, due>>
fileVars == <<store, upload, erasing, conversations, cleaner, marred>>

Idle == [pc |-> "idle", file |-> NoFile]
AtRest == [pc |-> "rest", purging |-> {}, locked |-> {}, doomed |-> {}]

FilesInit ==
    /\ row = [f \in File |-> "none"] /\ sentTo = [f \in File |-> Unsent]
    /\ stale = {} /\ object = {} /\ erasing = {} /\ marred = {}
    /\ upload = [u \in Uploader |-> Idle]
    /\ life = [v \in Conversation |-> "active"] /\ due = {}
    /\ cleaner = AtRest

\* Nothing is left of the file, or of another that had its name in this model.
Unused(f) ==
    /\ row[f] = "none" /\ f \notin object \cup erasing \cup cleaner.doomed
    /\ \A u \in Uploader : upload[u].file # f

-----------------------------------------------------------------------------
(* Uploading *)

Unbound == {f \in File : row[f] = "UPLOADED" /\ f \notin stale}

\* A variant that is off by one.
StartUploadOver(u, f) ==
    /\ upload[u].pc = "idle" /\ Unused(f)
    /\ Cardinality(Unbound) <= MaxUnbound
    /\ upload' = [upload EXCEPT ![u] = [pc |-> "storing", file |-> f]]
    /\ marred' = marred \ {f}
    /\ UNCHANGED <<store, erasing, conversations, cleaner>>

\* usage_for_owner in a session of its own, before anything is written.
StartUpload(u, f) ==
    /\ upload[u].pc = "idle" /\ Unused(f)
    /\ Cardinality(Unbound) < MaxUnbound
    /\ upload' = [upload EXCEPT ![u] = [pc |-> "storing", file |-> f]]
    /\ marred' = marred \ {f}
    /\ UNCHANGED <<store, erasing, conversations, cleaner>>

Put(u) ==
    /\ upload[u].pc = "storing"
    /\ object' = object \cup {upload[u].file}
    /\ upload' = [upload EXCEPT ![u] = [pc |-> "inserting", file |-> upload[u].file]]
    /\ UNCHANGED <<row, sentTo, stale, erasing, conversations, cleaner, marred>>

Insert(u) ==
    /\ upload[u].pc = "inserting"
    /\ row' = [row EXCEPT ![upload[u].file] = "UPLOADED"]
    /\ upload' = [upload EXCEPT ![u] = Idle]
    /\ UNCHANGED <<sentTo, stale, object, erasing, conversations, cleaner, marred>>

\* An insert that fails takes the object back.
InsertFails(u) ==
    /\ upload[u].pc = "inserting"
    /\ object' = object \ {upload[u].file}
    /\ upload' = [upload EXCEPT ![u] = Idle]
    /\ UNCHANGED <<row, sentTo, stale, erasing, conversations, cleaner, marred>>

\* put raises, the call is cancelled, or the process dies.
UploadDies(u) ==
    /\ upload[u].pc # "idle"
    /\ marred' = marred \cup {upload[u].file}
    /\ upload' = [upload EXCEPT ![u] = Idle]
    /\ UNCHANGED <<store, erasing, conversations, cleaner>>

\* attachment_unbound_ttl_seconds pass.
ExpireFile(f) ==
    /\ row[f] = "UPLOADED" /\ f \notin stale
    /\ stale' = stale \cup {f}
    /\ UNCHANGED <<row, sentTo, object, upload, erasing, conversations, cleaner, marred>>

-----------------------------------------------------------------------------
(* Sending and deleting, each under the lock of the rows *)

\* validate_for_message and bind_rows in a new message's transaction, which
\* holds the conversation: each file is uploaded, in time, in no other message.
Send(v, F) ==
    /\ life[v] = "active" /\ F # {}
    /\ F \subseteq Unbound \ cleaner.locked
    /\ row' = [f \in File |-> IF f \in F THEN "BOUND" ELSE row[f]]
    /\ sentTo' = [f \in File |-> IF f \in F THEN v ELSE sentTo[f]]
    /\ marred' = IF v \in cleaner.purging THEN marred \cup F ELSE marred
    /\ UNCHANGED <<stale, object, upload, erasing, conversations, cleaner>>

\* A variant that does not look whether the file was sent.
DeleteOwnedAny(f) ==
    /\ row[f] # "none" /\ f \notin cleaner.locked
    /\ row' = [row EXCEPT ![f] = "DELETED"]
    /\ erasing' = erasing \cup {f}
    /\ UNCHANGED <<sentTo, stale, object, upload, conversations, cleaner, marred>>

\* delete_owned commits the row's status, then removes the object.
DeleteOwned(f) ==
    /\ row[f] # "none" /\ sentTo[f] = Unsent /\ f \notin cleaner.locked
    /\ row' = [row EXCEPT ![f] = "DELETED"]
    /\ erasing' = erasing \cup {f}
    /\ UNCHANGED <<sentTo, stale, object, upload, conversations, cleaner, marred>>

EraseDeleted(f) ==
    /\ f \in erasing /\ erasing' = erasing \ {f}
    /\ \/ object' = object \ {f} /\ UNCHANGED marred
       \/ marred' = marred \cup {f} /\ UNCHANGED object
    /\ UNCHANGED <<row, sentTo, stale, upload, conversations, cleaner>>

DeleteConversation(v) ==
    /\ life[v] = "active"
    /\ life' = [life EXCEPT ![v] = "deleted"]
    /\ UNCHANGED <<store, upload, erasing, due, cleaner, marred>>

\* expires_at passes, also of a conversation in use, or purge_before does.
RetentionEnds(v) ==
    /\ life[v] # "gone" /\ v \notin due
    /\ due' = due \cup {v}
    /\ UNCHANGED <<store, upload, erasing, life, cleaner, marred>>

-----------------------------------------------------------------------------
(* CleanupWorker.run_once: a transaction that lists and deletes, then the  *)
(* object store                                                            *)

FilesOf(V) == {f \in File : sentTo[f] \in V}
ExpiredUnbound == {f \in File : row[f] = "UPLOADED" /\ f \in stale}

\* A variant that looks only at the deadline of the upload.
CleanListDeadline ==
    /\ cleaner.pc = "rest"
    /\ cleaner' = [pc |-> "listed", purging |-> due, locked |-> stale,
                   doomed |-> FilesOf(due) \cup stale]
    /\ UNCHANGED <<store, upload, erasing, conversations, marred>>

\* The files of the conversations to purge are read without a lock.
CleanList ==
    /\ cleaner.pc = "rest"
    /\ cleaner' = [pc |-> "listed", purging |-> due, locked |-> ExpiredUnbound,
                   doomed |-> FilesOf(due) \cup ExpiredUnbound]
    /\ UNCHANGED <<store, upload, erasing, conversations, marred>>

\* A conversation's messages and files go with it.
CleanPurge ==
    /\ cleaner.pc = "listed"
    /\ LET gone == cleaner.locked \cup FilesOf(cleaner.purging) IN
       /\ row' = [f \in File |-> IF f \in gone THEN "none" ELSE row[f]]
       /\ sentTo' = [f \in File |-> IF f \in gone THEN Unsent ELSE sentTo[f]]
       /\ stale' = stale \ gone
    /\ life' = [v \in Conversation |-> IF v \in cleaner.purging THEN "gone" ELSE life[v]]
    /\ due' = due \ cleaner.purging
    /\ cleaner' = [pc |-> "erasing", purging |-> {}, locked |-> {}, doomed |-> cleaner.doomed]
    /\ UNCHANGED <<object, upload, erasing, marred>>

\* delete_storage_rows passes over an object it cannot remove.
CleanErase(f) ==
    /\ cleaner.pc = "erasing" /\ f \in cleaner.doomed
    /\ cleaner' = [cleaner EXCEPT !.doomed = @ \ {f}]
    /\ \/ object' = object \ {f} /\ UNCHANGED marred
       \/ marred' = marred \cup {f} /\ UNCHANGED object
    /\ UNCHANGED <<row, sentTo, stale, upload, erasing, conversations>>

CleanEnd ==
    /\ cleaner.pc = "erasing" /\ cleaner.doomed = {}
    /\ cleaner' = AtRest
    /\ UNCHANGED <<store, upload, erasing, conversations, marred>>

\* Before its commit the cleaner leaves nothing; after it, objects without rows.
CrashCleaner ==
    /\ cleaner.pc # "rest"
    /\ marred' = IF cleaner.pc = "erasing" THEN marred \cup cleaner.doomed ELSE marred
    /\ cleaner' = AtRest
    /\ UNCHANGED <<store, upload, erasing, conversations>>

-----------------------------------------------------------------------------
FilesNext ==
    \/ \E u \in Uploader : Put(u) \/ Insert(u) \/ InsertFails(u) \/ UploadDies(u)
    \/ \E u \in Uploader, f \in File : StartUpload(u, f)
    \/ \E f \in File : ExpireFile(f) \/ DeleteOwned(f) \/ EraseDeleted(f) \/ CleanErase(f)
    \/ \E v \in Conversation : DeleteConversation(v) \/ RetentionEnds(v)
    \/ \E v \in Conversation, F \in SUBSET File : Send(v, F)
    \/ CleanList \/ CleanPurge \/ CleanEnd \/ CrashCleaner

FilesSpec == FilesInit /\ [][FilesNext]_fileVars

-----------------------------------------------------------------------------
\* Every variable holds a value of its type, an upload has a file exactly while
\* it runs, and what the cleaner has locked stays unsent.
FilesTypeOK ==
    /\ row \in [File -> {"none", "UPLOADED", "BOUND", "DELETED"}]
    /\ sentTo \in [File -> Conversation \cup {Unsent}]
    /\ stale \subseteq File /\ object \subseteq File /\ erasing \subseteq File
    /\ upload \in [Uploader -> [pc : {"idle", "storing", "inserting"}, file : File \cup {NoFile}]]
    /\ \A u \in Uploader : upload[u].pc = "idle" <=> upload[u].file = NoFile
    /\ life \in [Conversation -> {"active", "deleted", "gone"}] /\ due \subseteq Conversation
    /\ cleaner \in [pc : {"rest", "listed", "erasing"}, purging : SUBSET Conversation,
                     locked : SUBSET File, doomed : SUBSET File]
    /\ \A f \in cleaner.locked : row[f] = "UPLOADED" /\ sentTo[f] = Unsent
    /\ marred \subseteq File

InHand(f) ==
    \/ \E u \in Uploader : upload[u].file = f
    \/ f \in erasing
    \/ cleaner.pc = "erasing" /\ f \in cleaner.doomed

(***************************************************************************)
(* Database and object store agree, whoever uploads, sends, deletes and    *)
(* cleans up at once: the object of a file that was sent, or can be, is    *)
(* there and nobody is about to remove it; an object without such a row is *)
(* about to be removed, unless a fault hit it or it was sent to a          *)
(* conversation while that was being purged; and no message refers to a    *)
(* file that is gone.  The limit on files not yet sent is checked before a *)
(* file is stored and never again: uploads side by side pass it, each by   *)
(* no more than the one file it carries.                                   *)
(***************************************************************************)
StoresAgree ==
    /\ \A f \in File :
         IF row[f] \in {"UPLOADED", "BOUND"}
         THEN f \in object /\ ~InHand(f)
         ELSE /\ f \in object => InHand(f) \/ f \in marred
              /\ sentTo[f] = Unsent
    /\ Cardinality(Unbound) < MaxUnbound + Cardinality(Uploader)
=============================================================================
