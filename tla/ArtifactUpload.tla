----------------------------- MODULE ArtifactUpload -----------------------------
(***************************************************************************)
(* The upload of one artifact: ArtifactUploadService over the Serializable *)
(* repository, and the S3 storage adapter, cut at the calls to the object  *)
(* store.  A transaction that also calls the store is cut there too: it    *)
(* works on the row it found, and its save fails when another one has been *)
(* committed since.  Any number of clients send any call at any time; one  *)
(* that names an old revision is refused and is left out.                  *)
(*                                                                         *)
(* Contents are what the digests tell apart: the expected one, and others. *)
(* A multipart upload has the contents that were put; its ETags stand for  *)
(* them.  That a transfer expires only refuses calls, and is left out.     *)
(***************************************************************************)
EXTENDS Naturals, FiniteSets

CONSTANTS Handlers,    \* requests served at the same time
          Last,        \* the parts are 1 .. Last
          Contents,    \* what each part may hold
          Expected,    \* the content that the expected digest demands
          None,
          MaxUploads,  \* bound of the multipart uploads that are created
          MaxFaults    \* bound of the requests that die

VARIABLES row,         \* artifact_upload_sessions
          control,     \* the multipart upload in the control object of the session, or None
          uploads,     \* multipart upload -> whether it is open, and its parts
          grants,      \* the transfers
          quarantine,  \* the assembled object before it is verified, or None
          published,   \* versions under the published key
          call,        \* what the requests are doing
          told,        \* what clients were told
          faults

store == <<control, uploads, grants, quarantine, published>>
vars == <<row, store, call, told, faults>>

Parts == 1 .. Last
Uploads == 1 .. MaxUploads
Exact == [p \in Parts |-> Expected]
Anything == UNION {Contents[p] : p \in Parts}
Objects == [Parts -> Anything]
Idle == [at |-> "idle"]

Init ==
    /\ row = [state |-> "OPEN", parts |-> [p \in Parts |-> None], object |-> None, revision |-> 1]
    /\ control = None
    /\ uploads = [u \in Uploads |-> [state |-> "NONE", parts |-> [p \in Parts |-> None]]]
    /\ grants = {}
    /\ quarantine = None
    /\ published = {}
    /\ call = [h \in Handlers |-> Idle]
    /\ told = [parts |-> {}, state |-> "OPEN"]
    /\ faults = 0

-----------------------------------------------------------------------------
(* The row. *)

Recorded == {p \in Parts : row.parts[p] # None}

\* rowToDomain replays the session from its parts and its state, and throws when that makes
\* another revision: an ABORTED or EXPIRED row is taken to have been OPEN before.
Readable ==
    row.revision = 1 + Cardinality(Recorded)
                     + CASE row.state = "OPEN" -> 0
                         [] row.state = "COMPLETED" -> 2
                         [] OTHER -> 1

\* (Mutant of Saves: the revision and the state are not compared.)
SavesBlindly(h) == TRUE

\* save compares the revision and the state that were found.
Saves(h) == row = call[h].found

Begin(h, step, found) ==
    /\ call[h].at = "idle" /\ Readable
    /\ call' = [call EXCEPT ![h] = [at |-> step, found |-> found, part |-> None, content |-> None,
                                    upload |-> None, version |-> None]]

Goto(h, step) == call' = [call EXCEPT ![h].at = step]
\* The request is answered; a refusal and an error change nothing more.
Return(h) == call' = [call EXCEPT ![h] = Idle]

-----------------------------------------------------------------------------
(* issuePartTransfer.  The second find is in the snapshot of the first one. *)

issuePartTransfer(h, p, c) ==
    /\ row.state = "OPEN"
    /\ call[h].at = "idle" /\ Readable
    /\ call' = [call EXCEPT ![h] = [at |-> "control", found |-> None, part |-> p, content |-> c,
                                    upload |-> None, version |-> None]]
    /\ UNCHANGED <<row, store, told, faults>>

\* findOrCreateUploadControl: what is there, or a new multipart upload.
ReadControl(h) ==
    /\ call[h].at = "control"
    /\ IF control # None
       THEN /\ call' = [call EXCEPT ![h].at = "grant", ![h].upload = control]
            /\ UNCHANGED uploads
       ELSE \E u \in Uploads :
            /\ uploads[u].state = "NONE" /\ \A w \in 1 .. u - 1 : uploads[w].state # "NONE"
            /\ uploads' = [uploads EXCEPT ![u].state = "open"]
            /\ call' = [call EXCEPT ![h].at = "put", ![h].upload = u]
    /\ UNCHANGED <<row, control, grants, quarantine, published, told, faults>>

\* putControl writes only when there is none; who comes late takes back its own upload.
PutControl(h) ==
    /\ call[h].at = "put"
    /\ IF control = None
       THEN control' = call[h].upload /\ Goto(h, "grant") /\ UNCHANGED uploads
       ELSE /\ uploads' = [uploads EXCEPT ![call[h].upload].state = "gone"]
            /\ call' = [call EXCEPT ![h].at = "grant", ![h].upload = control]
            /\ UNCHANGED control
    /\ UNCHANGED <<row, grants, quarantine, published, told, faults>>

\* The transfer is stored and its URL signed: for one upload, part and content.
Grant(h) ==
    /\ call[h].at = "grant"
    /\ grants' = grants \cup {<<call[h].upload, call[h].part, call[h].content>>}
    /\ Return(h)
    /\ UNCHANGED <<row, control, uploads, quarantine, published, told, faults>>

\* A client uses the URL of a transfer, as often as it likes.
PutPart(g) ==
    /\ g \in grants
    /\ uploads[g[1]].state = "open"
    /\ uploads' = [uploads EXCEPT ![g[1]].parts[g[2]] = g[3]]
    /\ UNCHANGED <<row, control, grants, quarantine, published, call, told, faults>>

-----------------------------------------------------------------------------
(* recordPart *)

\* A part that is there is accepted again with the same digest only.
recordPart(h, p, c) ==
    /\ row.state = "OPEN" /\ row.parts[p] \in {None, c}
    /\ call[h].at = "idle" /\ Readable
    /\ call' = [call EXCEPT ![h] = [at |-> "verify", found |-> row, part |-> p, content |-> c,
                                    upload |-> None, version |-> None]]
    /\ UNCHANGED <<row, store, told, faults>>

\* verifyPart: there is a transfer for this, and the upload has the part.
Verified(p, c) ==
    /\ control # None
    /\ \E g \in grants : g[2] = p /\ g[3] = c
    /\ uploads[control].state = "open" /\ uploads[control].parts[p] = c

VerifyPart(h) ==
    /\ call[h].at = "verify"
    /\ IF Verified(call[h].part, call[h].content) THEN Goto(h, "record") ELSE Return(h)
    /\ UNCHANGED <<row, store, told, faults>>

\* The part is added to the row that was found; one that was there changes nothing.
WithPart(h) ==
    LET found == call[h].found IN
    IF found.parts[call[h].part] # None THEN row
    ELSE [found EXCEPT !.parts[call[h].part] = call[h].content, !.revision = @ + 1]

SavePart(h) ==
    /\ call[h].at = "record"
    /\ IF call[h].found.parts[call[h].part] # None \/ Saves(h)
       THEN row' = WithPart(h) /\ told' = [told EXCEPT !.parts = @ \cup {<<call[h].part, call[h].content>>}]
       ELSE UNCHANGED <<row, told>>
    /\ Return(h)
    /\ UNCHANGED <<store, faults>>

-----------------------------------------------------------------------------
(* complete *)

\* beginArtifactUploadFinalizationV1, in a transaction of its own; a session that is FINALIZING
\* is taken up again.
complete(h) ==
    /\ \/ /\ row.state = "OPEN" /\ Recorded = Parts
          /\ row' = [row EXCEPT !.state = "FINALIZING", !.revision = @ + 1]
       \/ /\ row.state = "FINALIZING"
          /\ row' = row
    /\ Begin(h, "recover", row')
    /\ UNCHANGED <<store, told, faults>>

Newest == CHOOSE o \in published : \A q \in published : q.version =< o.version

\* finalize: what an earlier attempt has published is recovered.
Recover(h) ==
    /\ call[h].at = "recover"
    /\ IF published # {} /\ Newest.parts = Exact
       THEN call' = [call EXCEPT ![h].at = "settle", ![h].version = Newest.version]
       ELSE Goto(h, "list")
    /\ UNCHANGED <<row, store, told, faults>>

\* The listed parts are the recorded ones.
Complete(h) == uploads[control].state = "open" /\ uploads[control].parts = call[h].found.parts

ListParts(h) ==
    /\ call[h].at = "list"
    /\ IF Complete(h) THEN Goto(h, "assemble") ELSE Return(h)
    /\ UNCHANGED <<row, store, told, faults>>

\* CompleteMultipartUpload: the store compares the ETags, and an upload is completed once.
Assemble(h) ==
    /\ call[h].at = "assemble"
    /\ IF Complete(h)
       THEN /\ uploads' = [uploads EXCEPT ![control].state = "gone"]
            /\ quarantine' = uploads[control].parts
            /\ Goto(h, "digest")
       ELSE Return(h) /\ UNCHANGED <<uploads, quarantine>>
    /\ UNCHANGED <<row, control, grants, published, told, faults>>

\* The digest of the assembled object: another one is deleted.
Digest(h) ==
    /\ call[h].at = "digest"
    /\ IF quarantine = Exact
       THEN Goto(h, "copy") /\ UNCHANGED quarantine
       ELSE Return(h) /\ quarantine' = None
    /\ UNCHANGED <<row, control, uploads, grants, published, told, faults>>

\* The exact version is copied, and what was published is read again.
Copy(h) ==
    LET new == Cardinality(published) + 1 IN
    /\ call[h].at = "copy"
    /\ published' = published \cup {[version |-> new, parts |-> quarantine]}
    /\ call' = [call EXCEPT ![h].at = "clean", ![h].version = new]
    /\ UNCHANGED <<row, control, uploads, grants, quarantine, told, faults>>

Clean(h) ==
    /\ call[h].at = "clean"
    /\ quarantine' = None
    /\ Goto(h, "settle")
    /\ UNCHANGED <<row, control, uploads, grants, published, told, faults>>

\* completeArtifactUploadFinalizationV1, in a transaction of its own: the row as it is now.
Settle(h) ==
    /\ call[h].at = "settle"
    /\ IF Readable /\ row.state \in {"FINALIZING", "COMPLETED"}
       THEN /\ row' = IF row.state = "COMPLETED" THEN row
                      ELSE [row EXCEPT !.state = "COMPLETED", !.object = call[h].version,
                                       !.revision = @ + 1]
            /\ told' = [told EXCEPT !.state = "COMPLETED"]
       ELSE UNCHANGED <<row, told>>
    /\ Return(h)
    /\ UNCHANGED <<store, faults>>

-----------------------------------------------------------------------------
(* abort, and expire, which is the same but for the state *)

abort(h) ==
    /\ row.state \in {"OPEN", "FINALIZING"}
    /\ Begin(h, "stop", row)
    /\ UNCHANGED <<row, store, told, faults>>

\* AbortMultipartUpload, whose failure is swallowed.
AbortStorage(h) ==
    /\ call[h].at = "stop"
    /\ uploads' = IF control = None THEN uploads ELSE [uploads EXCEPT ![control].state = "gone"]
    /\ Goto(h, "save")
    /\ UNCHANGED <<row, control, grants, quarantine, published, told, faults>>

SaveStopped(h, state) ==
    /\ call[h].at = "save"
    /\ IF Saves(h)
       THEN /\ row' = [call[h].found EXCEPT !.state = state, !.revision = @ + 1]
            /\ told' = [told EXCEPT !.state = state]
       ELSE UNCHANGED <<row, told>>
    /\ Return(h)
    /\ UNCHANGED <<store, faults>>

\* A request dies, or a call to the store or to the database fails.
Die(h) ==
    /\ call[h].at # "idle" /\ faults < MaxFaults
    /\ faults' = faults + 1
    /\ Return(h)
    /\ UNCHANGED <<row, store, told>>

-----------------------------------------------------------------------------
Transfer(h) == ReadControl(h) \/ PutControl(h) \/ Grant(h)

Finalize(h) ==
    \/ Recover(h) \/ ListParts(h) \/ Assemble(h) \/ Digest(h) \/ Copy(h) \/ Clean(h) \/ Settle(h)

Next ==
    \/ \E h \in Handlers :
        \/ \E p \in Parts : \E c \in Contents[p] : issuePartTransfer(h, p, c) \/ recordPart(h, p, c)
        \/ Transfer(h) \/ VerifyPart(h) \/ SavePart(h)
        \/ complete(h) \/ Finalize(h)
        \/ abort(h) \/ AbortStorage(h) \/ \E state \in {"ABORTED", "EXPIRED"} : SaveStopped(h, state)
        \/ Die(h)
    \/ \E g \in grants : PutPart(g)

Spec == Init /\ [][Next]_vars

-----------------------------------------------------------------------------
\* Rows and objects are of the types of the schema and the store.
TypeOK ==
    /\ row.state \in {"OPEN", "FINALIZING", "COMPLETED", "ABORTED", "EXPIRED"}
    /\ row.parts \in [Parts -> Anything \cup {None}] /\ row.revision \in 1 .. Last + 3
    /\ control \in Uploads \cup {None}
    /\ \A u \in Uploads : uploads[u].state \in {"NONE", "open", "gone"}
    /\ grants \subseteq Uploads \X Parts \X Anything
    /\ quarantine \in Objects \cup {None}
    /\ \A o \in published : o.version \in Nat /\ o.parts \in Objects
    /\ faults \in 0 .. MaxFaults

\* IAE-014 and IAE-023: whatever parts were replaced, calls repeated, aborted or cut off on the
\* way, there is at most one published object, it is the expected one, and a completed session names it.
PublishedIsExact ==
    /\ Cardinality(published) =< 1
    /\ \A o \in published : o.parts = Exact
    /\ row.state = "COMPLETED" => row.object \in {o.version : o \in published}

\* What a client was told stays true: the parts it need not send again, and the end of the session.
ToldIsTrue ==
    /\ \A t \in told.parts : row.parts[t[1]] = t[2]
    /\ told.state # "OPEN" => row.state = told.state
=============================================================================
