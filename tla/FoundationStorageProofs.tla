---------------------- MODULE FoundationStorageProofs ----------------------
(* Theorems about Foundation, for every value of the constants, continued:  *)
(* uploads, the audit log, sessions and the sign-out of the Android app.    *)
EXTENDS FoundationProofs

-----------------------------------------------------------------------------
(* ArtifactUpload: the requests for an upload.                              *)

\* The instance has a Cardinality of its own, which is the one the lemmas of sets are about.
LEMMA UploadCardinality == \A S : Upload!Cardinality(S) = Cardinality(S)
  BY Zenon DEF Upload!Cardinality, Cardinality

\* The parts that are recorded or stored for an upload.
UploadParts == [Upload!Parts -> Upload!Anything \cup {None}]

\* The row of the artifact.
UploadRows == [state : {"OPEN", "FINALIZING", "COMPLETED", "ABORTED", "EXPIRED"}, parts : UploadParts,
               object : Nat \cup {None}, revision : Nat]

\* The steps of a request that finalizes the upload.
UploadFinalizes == {"recover", "list", "assemble", "digest", "copy", "clean", "settle"}

\* What a request keeps from one step to the next.
UploadCalls == [at : {"control", "put", "grant", "verify", "record", "stop",
    "save"} \cup UploadFinalizes,
                found : UploadRows \cup {None}, part : Upload!Parts \cup {None},
                    content : Upload!Anything \cup {None},
                upload : Upload!Uploads \cup {None}, version : Nat \cup {None}]

\* What a request under way relies on: parts that were recorded stay, the multipart upload that is
\* finalized is the one of the control object, and only who has assembled it may publish.
UploadCall(c) ==
    /\ c.at \in {"control", "put", "grant", "verify", "record"} => c.part \in Upload!Parts
        /\ c.content \in Upload!Anything
    /\ c.at \in {"put", "grant"} => c.upload \in Upload!Uploads
    /\ c.at \in {"verify", "record"} =>
          /\ c.found \in UploadRows /\ c.found.state = "OPEN"
          /\ c.found.parts[c.part] \in {None, c.content}
          /\ \A p \in Upload!Parts : c.found.parts[p] # None => artifact.parts[p] = c.found.parts[p]
    /\ c.at \in {"stop", "save"} => c.found \in UploadRows /\ c.found.state \in {"OPEN", "FINALIZING"}
    /\ c.at \in UploadFinalizes \cup {"record"} => control \in Upload!Uploads
    /\ c.at \in {"clean", "settle"} => \E o \in published : o.version = c.version
    /\ c.at \in {"digest", "copy"} => published = {} /\ uploads[control].state = "gone"
    /\ c.at = "copy" => quarantine = Upload!Exact

\* The rows, and what they owe to the object store.
UploadState ==
    /\ artifact \in UploadRows
    /\ control \in Upload!Uploads \cup {None}
    /\ uploads \in [Upload!Uploads -> [state : {"NONE", "open", "gone"}, parts : UploadParts]]
    /\ grants \subseteq Upload!Uploads \X Upload!Parts \X Upload!Anything
    /\ told_upload \in [parts : SUBSET (Upload!Parts \X Upload!Anything), state : {"OPEN", "COMPLETED",
        "ABORTED", "EXPIRED"}]
    /\ artifact.state \in {"FINALIZING", "COMPLETED"} => control \in Upload!Uploads
    /\ \A p \in Upload!Parts : artifact.parts[p] # None => control \in Upload!Uploads
    /\ published # {} => control \in Upload!Uploads /\ uploads[control].state = "gone"
    /\ \A o, q \in published : o = q
    /\ \A o \in published : o.version \in Nat /\ o.parts = Upload!Exact
    /\ artifact.state = "COMPLETED" => \E o \in published : o.version = artifact.object
    /\ Upload!ToldIsTrue

\* The inductive invariant: what is stored for the row, what each request has read of it, and that one
\* request at most has the lock under which the object is checked and copied.
UploadInv ==
    /\ UploadState
    /\ request_step \in [UploadHandlers -> UploadCalls \cup {Upload!Idle}]
    /\ \A h \in UploadHandlers : UploadCall(request_step[h])
    /\ \A g, h \in UploadHandlers : request_step[g].at \in {"digest", "copy"}
        /\ request_step[h].at \in {"digest", "copy"} => g = h

\* A request that is not under way promises nothing.
LEMMA UploadIdle == Upload!Idle.at = "idle" /\ UploadCall(Upload!Idle)
  BY DEF Upload!Idle, UploadCall, UploadFinalizes

\* There is neither an upload nor a request at first.
LEMMA UploadInit == Upload!Init => UploadInv
  <1> SUFFICES ASSUME Upload!Init PROVE UploadInv
    OBVIOUS
  <1> USE DEF Upload!Init
  <1>1. [p \in Upload!Parts |-> None] \in UploadParts
    BY DEF UploadParts
  <1>2. artifact \in UploadRows /\ \A p \in Upload!Parts : artifact.parts[p] = None
    BY <1>1 DEF UploadRows
  <1>3. uploads \in [Upload!Uploads -> [state : {"NONE", "open", "gone"}, parts : UploadParts]]
    BY <1>1
  <1>4. Upload!ToldIsTrue
    BY DEF Upload!ToldIsTrue
  <1>5. UploadState
    BY <1>2, <1>3, <1>4 DEF UploadState
  <1> QED
    BY <1>5, UploadIdle DEF UploadInv

\* A request takes a step, and the others do not lose what they rely on.
LEMMA UploadMoves ==
    ASSUME UploadInv, NEW h \in UploadHandlers, NEW n \in UploadCalls \cup {Upload!Idle},
           request_step' = [request_step EXCEPT ![h] = n], UploadState', UploadCall(n)',
           n.at \in {"digest", "copy"} =>
               \A g \in UploadHandlers \ {h} : request_step[g].at \notin {"digest", "copy"},
           \A c \in UploadCalls : UploadCall(c) /\ (\E g \in UploadHandlers \ {h} :
               request_step[g] = c) => UploadCall(c)'
    PROVE  UploadInv'
  <1>1. \A g \in UploadHandlers : request_step'[g] = IF g = h THEN n ELSE request_step[g]
    BY DEF UploadInv
  <1>2. request_step' \in [UploadHandlers -> UploadCalls \cup {Upload!Idle}]
    BY DEF UploadInv
  <1>3. \A g \in UploadHandlers : UploadCall(request_step[g])'
    <2> SUFFICES ASSUME NEW g \in UploadHandlers PROVE UploadCall(request_step[g])'
      OBVIOUS
    <2>1. CASE g = h
      BY <1>1, <2>1 DEF UploadCall
    <2>2. CASE g # h /\ request_step[g] = Upload!Idle
      BY <1>1, <2>2, UploadIdle DEF UploadCall, Upload!Idle, UploadFinalizes
    <2>3. CASE g # h /\ request_step[g] # Upload!Idle
      <3> DEFINE c == request_step[g]
      <3>1. request_step[g] \in UploadCalls /\ UploadCall(request_step[g])
                /\ request_step'[g] = request_step[g]
        BY <1>1, <2>3 DEF UploadInv
      <3>2. PICK k \in UploadCalls : k = request_step[g]
        BY <3>1
      <3>3. UploadCall(k)'
        BY <2>3, <3>1, <3>2
      <3> QED
        BY <3>1, <3>2, <3>3 DEF UploadCall
    <2> QED
      BY <2>1, <2>2, <2>3
  <1>4. \A g, k \in UploadHandlers : request_step'[g].at \in {"digest", "copy"}
            /\ request_step'[k].at \in {"digest", "copy"} => g = k
    BY <1>1 DEF UploadInv
  <1> QED
    BY <1>2, <1>3, <1>4 DEF UploadInv

\* A step that changes neither the row nor the object store.
LEMMA UploadSteps ==
    ASSUME UploadInv, NEW h \in UploadHandlers, NEW n \in UploadCalls \cup {Upload!Idle},
           request_step' = [request_step EXCEPT ![h] = n], UploadCall(n),
           n.at \in {"digest", "copy"} => request_step[h].at \in {"digest", "copy"},
           UNCHANGED <<artifact, control, uploads, quarantine, published, told_upload>>,
           grants' \subseteq Upload!Uploads \X Upload!Parts \X Upload!Anything
    PROVE  UploadInv'
  <1>1. UploadState'
    BY DEF UploadInv, UploadState, Upload!ToldIsTrue
  <1>2. \A c \in UploadCalls \cup {Upload!Idle} : UploadCall(c) => UploadCall(c)'
    BY DEF UploadCall
  <1>3. n.at \in {"digest", "copy"} =>
            \A g \in UploadHandlers \ {h} : request_step[g].at \notin {"digest", "copy"}
    BY DEF UploadInv
  <1> QED
    BY <1>1, <1>2, <1>3, UploadMoves

\* What the row was found to be may be written in its place, with a part or another state.
LEMMA UploadWrites ==
    ASSUME UploadInv, NEW h \in UploadHandlers, NEW n \in UploadCalls \cup {Upload!Idle},
           request_step' = [request_step EXCEPT ![h] = n], UploadState', UploadCall(n)',
           n.at \notin {"digest", "copy"},
           \A p \in Upload!Parts : artifact.parts[p] # None => artifact'.parts[p] = artifact.parts[p],
           UNCHANGED <<control, uploads, quarantine, published>>
    PROVE  UploadInv'
  <1>1. \A c \in UploadCalls : UploadCall(c) => UploadCall(c)'
    BY DEF UploadCall
  <1> QED
    BY <1>1, UploadMoves

\* The shape of a request that is under way.
LEMMA UploadCallShape ==
    ASSUME UploadInv, NEW h \in UploadHandlers, request_step[h].at # "idle"
    PROVE  request_step[h] \in UploadCalls /\ UploadCall(request_step[h])
  BY DEF UploadInv, Upload!Idle

\* A request ends without a word.
LEMMA UploadReturns ==
    ASSUME UploadInv, NEW h \in UploadHandlers, Upload!Return(h),
           UNCHANGED <<artifact, control, uploads, quarantine, published, told_upload>>,
           grants' \subseteq Upload!Uploads \X Upload!Parts \X Upload!Anything
    PROVE  UploadInv'
  <1>1. request_step' = [request_step EXCEPT ![h] = Upload!Idle]
            /\ Upload!Idle \in UploadCalls \cup {Upload!Idle}
    BY DEF Upload!Return
  <1>2. Upload!Idle.at \notin {"digest", "copy"}
    BY UploadIdle
  <1> QED
    BY <1>1, <1>2, UploadIdle, UploadSteps

\* The steps of issuePartTransfer, and the use of its URL.
LEMMA UploadTransfers ==
    ASSUME UploadInv, NEW h \in UploadHandlers, Upload!ReadControl(h) \/ Upload!PutControl(h)
        \/ Upload!Grant(h)
    PROVE  UploadInv'
  <1> DEFINE c == request_step[h]
  <1>0. /\ c \in UploadCalls /\ UploadCall(c)
            /\ request_step \in [UploadHandlers -> UploadCalls \cup {Upload!Idle}]
        /\ c.part \in Upload!Parts /\ c.content \in Upload!Anything
            /\ control \in Upload!Uploads \cup {None}
        /\ uploads \in [Upload!Uploads -> [state : {"NONE", "open", "gone"}, parts : UploadParts]]
    BY UploadCallShape DEF Upload!ReadControl, Upload!PutControl, Upload!Grant, UploadInv, UploadState,
       UploadCall
  <1>1. ASSUME NEW u \in Upload!Uploads, NEW s \in {"open", "gone"},
            uploads' = [uploads EXCEPT ![u].state = s],
               uploads[u].state \in {"NONE", "open"}, u # control
        PROVE  /\ uploads' \in [Upload!Uploads -> [state : {"NONE", "open", "gone"},
                   parts : UploadParts]]
               /\ control \in Upload!Uploads => uploads'[control] = uploads[control]
    <2>1. [uploads[u] EXCEPT !.state = s] \in [state : {"NONE", "open", "gone"}, parts : UploadParts]
      BY <1>0
    <2>2. uploads' = [uploads EXCEPT ![u] = [uploads[u] EXCEPT !.state = s]]
      BY <1>0, <1>1
    <2> QED
      BY <1>0, <1>1, <2>1, <2>2
  <1>2. CASE Upload!ReadControl(h) /\ control # None
    <2> DEFINE n == [c EXCEPT !.at = "grant", !.upload = control]
    <2>1. request_step' = [request_step EXCEPT ![h] = n] /\ UNCHANGED <<artifact, control, uploads,
              grants, quarantine, published, told_upload>>
      BY <1>0, <1>2 DEF Upload!ReadControl
    <2>2. n \in UploadCalls /\ n.at = "grant" /\ n.upload \in Upload!Uploads /\ n.part \in Upload!Parts
              /\ n.content \in Upload!Anything
      BY <1>0, <1>2 DEF UploadCalls
    <2> HIDE DEF n
    <2>3. UploadCall(n)
      BY <2>2 DEF UploadCall, UploadFinalizes
    <2> QED
      BY <2>1, <2>2, <2>3, UploadSteps DEF UploadInv, UploadState
  <1>3. CASE Upload!ReadControl(h) /\ control = None
    <2>1. PICK u \in Upload!Uploads : /\ uploads[u].state = "NONE"
                               /\ uploads' = [uploads EXCEPT ![u].state = "open"]
                               /\ request_step' = [request_step EXCEPT ![h].at = "put", ![h].upload = u]
      BY <1>3 DEF Upload!ReadControl
    <2>2. control \notin Upload!Uploads
      BY <1>3, UploadAssumption
    <2>3. PICK n \in UploadCalls : n = [c EXCEPT !.at = "put", !.upload = u]
      BY <1>0 DEF UploadCalls
    <2>4. request_step' = [request_step EXCEPT ![h] = n]
      BY <1>0, <2>1, <2>3
    <2>5. n.at = "put" /\ n.upload = u /\ n.part \in Upload!Parts /\ n.content \in Upload!Anything
      BY <1>0, <2>3 DEF UploadCalls
    <2>6. UploadCall(n)'
      BY <2>5 DEF UploadCall, UploadFinalizes
    <2>7. uploads' \in [Upload!Uploads -> [state : {"NONE", "open", "gone"}, parts : UploadParts]]
      BY <1>1, <2>1, <2>2
    <2>8. UNCHANGED <<artifact, control, grants, quarantine, published, told_upload>>
      BY <1>3 DEF Upload!ReadControl
    <2>9. UploadState'
      BY <2>2, <2>7, <2>8 DEF UploadInv, UploadState, Upload!ToldIsTrue
    <2>10. \A d \in UploadCalls : UploadCall(d) => UploadCall(d)'
      BY <2>2, <2>8 DEF UploadCall, UploadFinalizes
    <2> QED
      BY <2>4, <2>5, <2>6, <2>9, <2>10, UploadMoves
  <1>4. CASE Upload!PutControl(h) /\ control = None
    <2>1. control \notin Upload!Uploads /\ c.upload \in Upload!Uploads
      BY <1>0, <1>4, UploadAssumption DEF Upload!PutControl, UploadCall
    <2>2. PICK n \in UploadCalls : n = [c EXCEPT !.at = "grant"]
      BY <1>0 DEF UploadCalls
    <2>3. request_step' = [request_step EXCEPT ![h] = n] /\ control' = c.upload
          /\ UNCHANGED <<artifact, uploads, grants, quarantine, published, told_upload>>
      BY <1>0, <1>4, <2>2 DEF Upload!PutControl, Upload!Goto
    <2>4. n.at = "grant" /\ n.upload = c.upload /\ n.part \in Upload!Parts
              /\ n.content \in Upload!Anything
      BY <1>0, <2>2 DEF UploadCalls
    <2>5. UploadCall(n)'
      BY <2>1, <2>4 DEF UploadCall, UploadFinalizes
    <2>6. UploadState'
      BY <2>1, <2>3 DEF UploadInv, UploadState, Upload!ToldIsTrue
    <2>7. \A d \in UploadCalls : UploadCall(d) => UploadCall(d)'
      BY <2>1, <2>3 DEF UploadCall, UploadFinalizes
    <2> QED
      BY <2>3, <2>4, <2>5, <2>6, <2>7, UploadMoves
  <1>5. CASE Upload!PutControl(h) /\ control # None
    <2>1. control \in Upload!Uploads /\ c.upload \in Upload!Uploads
      BY <1>0, <1>5 DEF Upload!PutControl, UploadCall
    <2>2. PICK n \in UploadCalls : n = [c EXCEPT !.at = "grant", !.upload = control]
      BY <1>0, <2>1 DEF UploadCalls
    <2>3. request_step' = [request_step EXCEPT ![h] = n]
              /\ uploads' = [uploads EXCEPT ![c.upload].state = "gone"]
          /\ UNCHANGED <<artifact, control, grants, quarantine, published, told_upload>>
      BY <1>0, <1>5, <2>2 DEF Upload!PutControl
    <2>4. n.at = "grant" /\ n.upload \in Upload!Uploads /\ n.part \in Upload!Parts
              /\ n.content \in Upload!Anything
      BY <1>0, <2>1, <2>2 DEF UploadCalls
    <2>5. UploadCall(n)'
      BY <2>1, <2>4 DEF UploadCall, UploadFinalizes
    <2>6. /\ uploads' \in [Upload!Uploads -> [state : {"NONE", "open", "gone"}, parts : UploadParts]]
          /\ uploads[control].state = "gone" => uploads'[control].state = "gone"
      <3>1. [uploads[c.upload] EXCEPT !.state = "gone"] \in [state : {"NONE", "open", "gone"},
                parts : UploadParts]
        BY <1>0, <2>1
      <3>2. [uploads[c.upload] EXCEPT !.state = "gone"].state = "gone"
        BY <1>0, <2>1
      <3>3. uploads' = [uploads EXCEPT ![c.upload] = [uploads[c.upload] EXCEPT !.state = "gone"]]
        BY <1>0, <2>3
      <3> QED
        BY <1>0, <2>1, <3>1, <3>2, <3>3
    <2>7. UploadState'
      BY <2>1, <2>3, <2>6 DEF UploadInv, UploadState, Upload!ToldIsTrue
    <2>8. \A d \in UploadCalls : UploadCall(d) => UploadCall(d)'
      BY <2>3, <2>6 DEF UploadCall, UploadFinalizes
    <2> QED
      BY <2>3, <2>4, <2>5, <2>7, <2>8, UploadMoves
  <1>6. CASE Upload!Grant(h)
    <2>1. c.upload \in Upload!Uploads
      BY <1>0, <1>6 DEF Upload!Grant, UploadCall
    <2>2. grants' \subseteq Upload!Uploads \X Upload!Parts \X Upload!Anything
      BY <1>0, <1>6, <2>1 DEF Upload!Grant, UploadInv, UploadState
    <2> QED
      BY <1>6, <2>2, UploadReturns DEF Upload!Grant
  <1> QED
    BY <1>2, <1>3, <1>4, <1>5, <1>6

\* A client uses a grant to store a part, the right one or another.
LEMMA UploadPuts == ASSUME UploadInv, NEW g \in grants, Upload!PutPart(g) PROVE UploadInv'
  <1>1. /\ uploads \in [Upload!Uploads -> [state : {"NONE", "open", "gone"}, parts : UploadParts]]
        /\ g[1] \in Upload!Uploads /\ g[2] \in Upload!Parts /\ g[3] \in Upload!Anything
    BY DEF UploadInv, UploadState
  <1> DEFINE u == [uploads[g[1]] EXCEPT !.parts[g[2]] = g[3]]
  <1>2. u \in [state : {"NONE", "open", "gone"}, parts : UploadParts] /\ u.state = uploads[g[1]].state
    <2> DEFINE q == [uploads[g[1]].parts EXCEPT ![g[2]] = g[3]]
    <2>1. q \in UploadParts
      BY <1>1 DEF UploadParts
    <2>2. u = [uploads[g[1]] EXCEPT !.parts = q]
      BY <1>1
    <2> HIDE DEF q, u
    <2> QED
      BY <1>1, <2>1, <2>2
  <1>3. uploads' = [uploads EXCEPT ![g[1]] = u]
        /\ UNCHANGED <<artifact, control, grants, quarantine, published, request_step, told_upload>>
    BY <1>1 DEF Upload!PutPart
  <1> HIDE DEF u
  <1>4. /\ uploads' \in [Upload!Uploads -> [state : {"NONE", "open", "gone"}, parts : UploadParts]]
        /\ \A w \in Upload!Uploads : uploads'[w].state = uploads[w].state
    BY <1>1, <1>2, <1>3
  <1>5. UploadState'
    BY <1>3, <1>4 DEF UploadInv, UploadState, Upload!ToldIsTrue
  <1>6. \A h \in UploadHandlers : UploadCall(request_step[h])'
    BY <1>3, <1>4 DEF UploadInv, UploadCall, UploadFinalizes
  <1> QED
    BY <1>3, <1>5, <1>6 DEF UploadInv

\* A request begins.
LEMMA UploadBegins ==
    ASSUME UploadInv, NEW h \in UploadHandlers,
           \/ \E p \in Upload!Parts : \E c \in UploadContents[p] : Upload!issuePartTransfer(h, p, c)
               \/ Upload!recordPart(h, p, c)
           \/ Upload!abort(h)
    PROVE  UploadInv'
  <1>1. ASSUME NEW p \in Upload!Parts, NEW c \in UploadContents[p] PROVE c \in Upload!Anything
    BY DEF Upload!Anything
  <1>2. artifact \in UploadRows /\ grants \subseteq Upload!Uploads \X Upload!Parts \X Upload!Anything
    BY DEF UploadInv, UploadState
  <1>3. ASSUME NEW p \in Upload!Parts, NEW c \in UploadContents[p], Upload!issuePartTransfer(h, p, c)
        PROVE UploadInv'
    <2> DEFINE n == [at |-> "control", found |-> None, part |-> p, content |-> c, upload |-> None,
            version |-> None]
    <2>1. n \in UploadCalls /\ n.at = "control" /\ n.part \in Upload!Parts
              /\ n.content \in Upload!Anything
      BY <1>1, <1>3 DEF UploadCalls
    <2>2. request_step' = [request_step EXCEPT ![h] = n] /\ UNCHANGED <<artifact, control, uploads,
              grants, quarantine, published, told_upload>>
      BY <1>3 DEF Upload!issuePartTransfer, Upload!store
    <2> HIDE DEF n
    <2>3. UploadCall(n)
      BY <2>1 DEF UploadCall, UploadFinalizes
    <2> QED
      BY <1>2, <2>1, <2>2, <2>3, UploadSteps
  <1>4. ASSUME NEW p \in Upload!Parts, NEW c \in UploadContents[p], Upload!recordPart(h, p, c)
        PROVE UploadInv'
    <2> DEFINE n == [at |-> "verify", found |-> artifact, part |-> p, content |-> c, upload |-> None,
            version |-> None]
    <2>1. n \in UploadCalls /\ n.at = "verify" /\ n.part = p /\ n.content = c /\ n.found = artifact
              /\ c \in Upload!Anything
      BY <1>1, <1>2, <1>4 DEF UploadCalls
    <2>2. request_step' = [request_step EXCEPT ![h] = n] /\ UNCHANGED <<artifact, control, uploads,
              grants, quarantine, published, told_upload>>
          /\ artifact.state = "OPEN" /\ artifact.parts[p] \in {None, c}
      BY <1>4 DEF Upload!recordPart, Upload!store
    <2> HIDE DEF n
    <2>3. UploadCall(n)
      BY <1>2, <2>1, <2>2 DEF UploadCall, UploadFinalizes
    <2> QED
      BY <1>2, <2>1, <2>2, <2>3, UploadSteps
  <1>5. CASE Upload!abort(h)
    <2> DEFINE n == [at |-> "stop", found |-> artifact, part |-> None, content |-> None,
            upload |-> None, version |-> None]
    <2>1. n \in UploadCalls /\ n.at = "stop" /\ n.found = artifact
      BY <1>2 DEF UploadCalls
    <2>2. request_step' = [request_step EXCEPT ![h] = n] /\ UNCHANGED <<artifact, control, uploads,
              grants, quarantine, published, told_upload>>
          /\ artifact.state \in {"OPEN", "FINALIZING"}
      BY <1>5 DEF Upload!abort, Upload!Begin, Upload!store
    <2> HIDE DEF n
    <2>3. UploadCall(n)
      BY <1>2, <2>1, <2>2 DEF UploadCall, UploadFinalizes
    <2> QED
      BY <1>2, <2>1, <2>2, <2>3, UploadSteps
  <1> QED
    BY <1>3, <1>4, <1>5

\* recordPart: the part is verified and added to the row.
LEMMA UploadRecords == ASSUME UploadInv, NEW h \in UploadHandlers, Upload!VerifyPart(h)
    \/ Upload!SavePart(h) PROVE UploadInv'
  <1> DEFINE c == request_step[h]
  <1>0. /\ c \in UploadCalls /\ UploadCall(c)
            /\ request_step \in [UploadHandlers -> UploadCalls \cup {Upload!Idle}]
        /\ artifact \in UploadRows /\ grants \subseteq Upload!Uploads \X Upload!Parts \X Upload!Anything
        /\ c.found \in UploadRows /\ c.part \in Upload!Parts /\ c.content \in Upload!Anything
            /\ c.found.state = "OPEN"
        /\ told_upload \in [parts : SUBSET (Upload!Parts \X Upload!Anything),
            state : {"OPEN", "COMPLETED", "ABORTED", "EXPIRED"}]
    BY UploadCallShape DEF Upload!VerifyPart, Upload!SavePart, UploadInv, UploadState, UploadCall
  <1>1. CASE Upload!VerifyPart(h)
    <2>1. CASE Upload!Verified(c.part, c.content)
      <3> DEFINE n == [c EXCEPT !.at = "record"]
      <3>1. /\ n \in UploadCalls /\ n.at = "record" /\ n.part = c.part /\ n.content = c.content
            /\ n.found = c.found
        BY <1>0 DEF UploadCalls
      <3>2. request_step' = [request_step EXCEPT ![h] = n] /\ UNCHANGED <<artifact, control, uploads,
                grants, quarantine, published, told_upload>>
            /\ c.at = "verify"
        BY <1>0, <1>1, <2>1 DEF Upload!VerifyPart, Upload!Goto, Upload!store
      <3>3. control \in Upload!Uploads
        BY <2>1 DEF Upload!Verified, UploadInv, UploadState
      <3> HIDE DEF n
      <3>4. UploadCall(n)
        BY <1>0, <3>1, <3>2, <3>3 DEF UploadCall, UploadFinalizes
      <3> QED
        BY <1>0, <3>1, <3>2, <3>4, UploadSteps
    <2>2. CASE ~Upload!Verified(c.part, c.content)
      BY <1>0, <1>1, <2>2, UploadReturns DEF Upload!VerifyPart, Upload!store
    <2> QED
      BY <2>1, <2>2
  <1>2. CASE Upload!SavePart(h)
    <2>0. /\ c.at = "record" /\ control \in Upload!Uploads
          /\ c.found.parts[c.part] \in {None, c.content}
          /\ \A p \in Upload!Parts : c.found.parts[p] # None => artifact.parts[p] = c.found.parts[p]
          /\ request_step' = [request_step EXCEPT ![h] = Upload!Idle]
              /\ Upload!Idle \in UploadCalls \cup {Upload!Idle}
          /\ UNCHANGED <<control, uploads, grants, quarantine, published>>
          /\ c.found.parts \in UploadParts
      BY <1>0, <1>2 DEF Upload!SavePart, UploadCall, Upload!Return, Upload!store, UploadRows
    <2>1. CASE ~(c.found.parts[c.part] # None \/ Upload!Saves(h))
      BY <1>0, <1>2, <2>0, <2>1, UploadReturns DEF Upload!SavePart, Upload!store
    <2> DEFINE t == [told_upload EXCEPT !.parts = @ \cup {<<c.part, c.content>>}]
    <2>2. /\ t \in [parts : SUBSET (Upload!Parts \X Upload!Anything), state : {"OPEN", "COMPLETED",
              "ABORTED", "EXPIRED"}]
          /\ t.parts = told_upload.parts \cup {<<c.part, c.content>>} /\ t.state = told_upload.state
      BY <1>0
    <2> HIDE DEF t
    <2>3. CASE c.found.parts[c.part] # None
      <3>1. artifact' = artifact /\ told_upload' = t
        BY <1>2, <2>3 DEF Upload!SavePart, Upload!WithPart, t
      <3>2. artifact.parts[c.part] = c.content
        BY <1>0, <2>0, <2>3
      <3>3. UploadState'
        BY <2>0, <2>2, <3>1, <3>2 DEF UploadInv, UploadState, Upload!ToldIsTrue
      <3> QED
        BY <2>0, <3>1, <3>3, UploadIdle, UploadWrites DEF UploadCall, Upload!Idle, UploadFinalizes
    <2>4. CASE c.found.parts[c.part] = None /\ Upload!Saves(h)
      <3> DEFINE q == [c.found.parts EXCEPT ![c.part] = c.content]
                 v == c.found.revision + 1
      <3>1. artifact' = [c.found EXCEPT !.parts = q, !.revision = v] /\ told_upload' = t
                /\ artifact = c.found
        BY <1>0, <1>2, <2>4 DEF Upload!SavePart, Upload!WithPart, t, Upload!Saves, UploadRows
      <3>2. q \in UploadParts /\ v \in Nat
        BY <1>0, <2>0 DEF UploadParts, UploadRows
      <3>3. \A p \in Upload!Parts : q[p] = IF p = c.part THEN c.content ELSE c.found.parts[p]
        BY <1>0, <2>0 DEF UploadParts
      <3> HIDE DEF q, v
      <3>4. artifact' \in UploadRows /\ artifact'.parts = q /\ artifact'.state = "OPEN"
        BY <1>0, <3>1, <3>2 DEF UploadRows
      <3>5. \A p \in Upload!Parts : artifact.parts[p] # None => artifact'.parts[p] = artifact.parts[p]
        BY <2>4, <3>1, <3>3, <3>4
      <3>6. c.content # None
        BY <1>0, UploadAssumption
      <3>7. \A g \in told_upload'.parts : artifact'.parts[g[1]] = g[2]
        <4> SUFFICES ASSUME NEW g \in told_upload'.parts PROVE artifact'.parts[g[1]] = g[2]
          OBVIOUS
        <4>1. CASE g = <<c.part, c.content>>
          BY <1>0, <3>3, <3>4, <4>1
        <4>2. CASE g \in told_upload.parts
          <5>1. g[1] \in Upload!Parts /\ g[2] \in Upload!Anything /\ artifact.parts[g[1]] = g[2]
            BY <1>0, <4>2 DEF UploadInv, UploadState, Upload!ToldIsTrue
          <5> QED
            BY <3>5, <5>1, UploadAssumption
        <4> QED
          BY <2>2, <3>1, <4>1, <4>2
      <3>8. Upload!ToldIsTrue'
        BY <1>0, <2>2, <3>1, <3>4, <3>7 DEF UploadInv, UploadState, Upload!ToldIsTrue
      <3>9. UploadState'
        BY <2>0, <2>2, <3>1, <3>4, <3>8 DEF UploadInv, UploadState
      <3> QED
        BY <2>0, <3>5, <3>9, UploadIdle, UploadWrites DEF UploadCall, Upload!Idle, UploadFinalizes
    <2> QED
      BY <2>1, <2>3, <2>4
  <1> QED
    BY <1>1, <1>2

\* The row changes its state, and is what it was.
LEMMA UploadRowMoves ==
    ASSUME UploadInv, NEW h \in UploadHandlers, NEW n \in UploadCalls \cup {Upload!Idle},
           request_step' = [request_step EXCEPT ![h] = n], UploadCall(n)', n.at \notin {"digest",
               "copy"},
           artifact' \in UploadRows, artifact'.parts = artifact.parts,
           artifact'.state \in {"FINALIZING", "COMPLETED"} => control \in Upload!Uploads,
           artifact'.state = "COMPLETED" => \E o \in published : o.version = artifact'.object,
           UNCHANGED <<control, uploads, grants, quarantine, published>>,
           told_upload' \in [parts : {told_upload.parts}, state : {"OPEN", "COMPLETED", "ABORTED",
               "EXPIRED"}],
           told_upload'.state # "OPEN" => artifact'.state = told_upload'.state
    PROVE  UploadInv'
  <1>1. told_upload'.parts = told_upload.parts
        /\ told_upload' \in [parts : SUBSET (Upload!Parts \X Upload!Anything),
            state : {"OPEN", "COMPLETED", "ABORTED", "EXPIRED"}]
    BY DEF UploadInv, UploadState
  <1>2. Upload!ToldIsTrue'
    BY <1>1 DEF UploadInv, UploadState, Upload!ToldIsTrue
  <1>3. UploadState'
    BY <1>1, <1>2 DEF UploadInv, UploadState
  <1> QED
    BY <1>3, UploadWrites

\* complete, abort and expire, and what is answered to them.
LEMMA UploadEnds ==
    ASSUME UploadInv, NEW h \in UploadHandlers,
           \/ Upload!complete(h) \/ Upload!Settle(h)
           \/ \E state \in {"ABORTED", "EXPIRED"} : Upload!SaveStopped(h, state)
    PROVE  UploadInv'
  <1> DEFINE c == request_step[h]
  <1>0. /\ request_step \in [UploadHandlers -> UploadCalls \cup {Upload!Idle}]
            /\ artifact \in UploadRows
        /\ told_upload \in [parts : SUBSET (Upload!Parts \X Upload!Anything),
            state : {"OPEN", "COMPLETED", "ABORTED", "EXPIRED"}]
        /\ told_upload.state # "OPEN" => artifact.state = told_upload.state
        /\ artifact.state \in {"FINALIZING", "COMPLETED"} => control \in Upload!Uploads
        /\ artifact.state = "COMPLETED" => \E o \in published : o.version = artifact.object
        /\ grants \subseteq Upload!Uploads \X Upload!Parts \X Upload!Anything
        /\ told_upload = [parts |-> told_upload.parts, state |-> told_upload.state]
    BY DEF UploadInv, UploadState, Upload!ToldIsTrue
  <1>1. UploadCall(Upload!Idle)' /\ Upload!Idle.at \notin {"digest", "copy"}
            /\ Upload!Idle \in UploadCalls \cup {Upload!Idle}
    BY UploadIdle DEF UploadCall, Upload!Idle, UploadFinalizes
  <1>2. CASE Upload!complete(h)
    <2>1. /\ artifact' \in UploadRows /\ artifact'.parts = artifact.parts
              /\ artifact'.state = "FINALIZING"
          /\ control \in Upload!Uploads /\ told_upload.state = "OPEN"
      <3>1. CASE artifact.state = "OPEN" /\ Upload!Recorded = Upload!Parts
                /\ artifact' = [artifact EXCEPT !.state = "FINALIZING", !.revision = @ + 1]
        <4>1. 1 \in Upload!Parts
          BY UploadAssumption DEF Upload!Parts
        <4>2. control \in Upload!Uploads
          BY <3>1, <4>1 DEF Upload!Recorded, UploadInv, UploadState
        <4>3. artifact.revision + 1 \in Nat
          BY <1>0 DEF UploadRows
        <4> QED
          BY <1>0, <3>1, <4>2, <4>3 DEF UploadRows
      <3>2. CASE artifact.state = "FINALIZING" /\ artifact' = artifact
        BY <1>0, <3>2
      <3> QED
        BY <1>2, <3>1, <3>2 DEF Upload!complete
    <2>2. PICK n \in UploadCalls : n = [at |-> "recover", found |-> artifact', part |-> None,
              content |-> None,
                                        upload |-> None, version |-> None]
      BY <2>1 DEF UploadCalls, UploadFinalizes
    <2>3. request_step' = [request_step EXCEPT ![h] = n] /\ UNCHANGED <<control, uploads, grants,
              quarantine, published, told_upload>>
      BY <1>2, <2>2 DEF Upload!complete, Upload!Begin, Upload!store
    <2>4. n.at = "recover"
      BY <2>2
    <2>5. UploadCall(n)'
      BY <2>1, <2>3, <2>4 DEF UploadCall, UploadFinalizes
    <2>6. told_upload' \in [parts : {told_upload.parts}, state : {"OPEN", "COMPLETED", "ABORTED",
              "EXPIRED"}]
      BY <1>0, <2>3
    <2> QED
      BY <1>0, <2>1, <2>3, <2>4, <2>5, <2>6, UploadRowMoves
  <1>3. ASSUME c.at \in {"settle", "save"}, Upload!Return(h),
            UNCHANGED <<artifact, told_upload, Upload!store>> PROVE UploadInv'
    BY <1>0, <1>3, UploadReturns DEF Upload!store
  <1>4. CASE Upload!Settle(h)
    <2>1. CASE Upload!Readable /\ artifact.state \in {"FINALIZING", "COMPLETED"}
      <3>1. /\ c \in UploadCalls /\ UploadCall(c) /\ c.at = "settle"
            /\ c.version \in Nat \cup {None}
        BY <1>4, UploadCallShape DEF Upload!Settle, UploadCalls
      <3>2. /\ request_step' = [request_step EXCEPT ![h] = Upload!Idle]
            /\ UNCHANGED <<control, uploads, grants, quarantine, published>>
            /\ told_upload' = [told_upload EXCEPT !.state = "COMPLETED"]
            /\ artifact' = IF artifact.state = "COMPLETED" THEN artifact
                      ELSE [artifact EXCEPT !.state = "COMPLETED", !.object = c.version,
                          !.revision = @ + 1]
        BY <1>4, <2>1 DEF Upload!Settle, Upload!Return, Upload!store
      <3>3. \E o \in published : o.version = c.version
        BY <3>1 DEF UploadCall
      <3>4. artifact' \in UploadRows /\ artifact'.parts = artifact.parts
                /\ artifact'.state = "COMPLETED"
            /\ (artifact.state = "COMPLETED" => artifact'.object = artifact.object)
            /\ (artifact.state # "COMPLETED" => artifact'.object = c.version)
        <4>1. artifact.revision + 1 \in Nat
          BY <1>0 DEF UploadRows
        <4> QED
          BY <1>0, <3>1, <3>2, <4>1 DEF UploadRows
      <3>5. told_upload' \in [parts : {told_upload.parts}, state : {"OPEN", "COMPLETED", "ABORTED",
                "EXPIRED"}]
        BY <1>0, <3>2
      <3>6. told_upload'.state = "COMPLETED"
        BY <1>0, <3>2
      <3>7. \E o \in published : o.version = artifact'.object
        BY <1>0, <3>3, <3>4
      <3> QED
        BY <1>0, <1>1, <2>1, <3>2, <3>4, <3>5, <3>6, <3>7, UploadRowMoves
    <2>2. CASE ~(Upload!Readable /\ artifact.state \in {"FINALIZING", "COMPLETED"})
      BY <1>3, <1>4, <2>2 DEF Upload!Settle
    <2> QED
      BY <2>1, <2>2
  <1>5. ASSUME NEW state \in {"ABORTED", "EXPIRED"}, Upload!SaveStopped(h, state) PROVE UploadInv'
    <2>1. CASE Upload!Saves(h)
      <3>1. /\ c \in UploadCalls /\ UploadCall(c) /\ c.at = "save"
            /\ artifact = c.found /\ artifact.state \in {"OPEN", "FINALIZING"}
        BY <1>5, <2>1, UploadCallShape DEF Upload!SaveStopped, Upload!Saves, UploadCall
      <3>2. /\ request_step' = [request_step EXCEPT ![h] = Upload!Idle]
            /\ UNCHANGED <<control, uploads, grants, quarantine, published>>
            /\ told_upload' = [told_upload EXCEPT !.state = state]
            /\ artifact' = [artifact EXCEPT !.state = state, !.revision = @ + 1]
        BY <1>5, <2>1, <3>1 DEF Upload!SaveStopped, Upload!Return, Upload!store
      <3>3. artifact' \in UploadRows /\ artifact'.parts = artifact.parts /\ artifact'.state = state
        <4>1. artifact.revision + 1 \in Nat
          BY <1>0 DEF UploadRows
        <4> QED
          BY <1>0, <3>2, <4>1 DEF UploadRows
      <3>4. told_upload' \in [parts : {told_upload.parts}, state : {"OPEN", "COMPLETED", "ABORTED",
                "EXPIRED"}]
            /\ told_upload'.state = state
        BY <1>0, <3>2
      <3> QED
        BY <1>0, <1>1, <3>2, <3>3, <3>4, UploadRowMoves
    <2>2. CASE ~Upload!Saves(h)
      BY <1>3, <1>5, <2>2 DEF Upload!SaveStopped
    <2> QED
      BY <2>1, <2>2
  <1> QED
    BY <1>2, <1>4, <1>5

\* finalize: what was assembled once is published once.
LEMMA UploadFinalizations ==
    ASSUME UploadInv, NEW h \in UploadHandlers,
           \/ Upload!Recover(h) \/ Upload!ListParts(h) \/ Upload!Assemble(h) \/ Upload!Digest(h)
               \/ Upload!Copy(h) \/ Upload!Clean(h) \/ Upload!AbortStorage(h)
    PROVE  UploadInv'
  <1> DEFINE c == request_step[h]
  <1>0. /\ c \in UploadCalls /\ UploadCall(c)
            /\ request_step \in [UploadHandlers -> UploadCalls \cup {Upload!Idle}]
        /\ grants \subseteq Upload!Uploads \X Upload!Parts \X Upload!Anything
        /\ uploads \in [Upload!Uploads -> [state : {"NONE", "open", "gone"}, parts : UploadParts]]
        /\ control \in Upload!Uploads \cup {None}
        /\ \A o, q \in published : o = q
        /\ \A o \in published : o.version \in Nat /\ o.parts = Upload!Exact
    BY UploadCallShape DEF Upload!Recover, Upload!ListParts, Upload!Assemble, Upload!Digest,
       Upload!Copy, Upload!Clean, Upload!AbortStorage, UploadInv, UploadState
  <1>1. ASSUME NEW s \in {"recover", "list", "assemble", "digest", "copy", "clean", "settle", "save"},
               NEW v \in Nat \cup {None}
        PROVE  LET n == [c EXCEPT !.at = s, !.version = v]
               IN  n \in UploadCalls /\ n.at = s /\ n.version = v /\ n.found = c.found
    <2> DEFINE n == [c EXCEPT !.at = s, !.version = v]
               steps == {"control", "put", "grant", "verify", "record", "stop",
                   "save"} \cup UploadFinalizes
    <2>1. s \in steps
      BY <1>1 DEF UploadFinalizes
    <2>2. c \in UploadCalls
      BY <1>0
    <2> HIDE DEF steps
    <2>3. n \in UploadCalls
      BY <1>1, <2>1, <2>2 DEF UploadCalls, steps
    <2>4. n.at = s /\ n.version = v /\ n.found = c.found
      BY <2>2 DEF UploadCalls
    <2> QED
      BY <2>3, <2>4
  <1>2. ASSUME NEW s \in {"recover", "list", "assemble", "digest", "copy", "clean", "settle", "save"}
        PROVE  LET n == [c EXCEPT !.at = s]
               IN  n \in UploadCalls /\ n.at = s /\ n.version = c.version /\ n.found = c.found
    BY <1>0, <1>2 DEF UploadCalls, UploadFinalizes
  <1>3. ASSUME Upload!Return(h), UNCHANGED <<artifact, Upload!store, told_upload>> PROVE UploadInv'
    BY <1>0, <1>3, UploadReturns DEF Upload!store
  <1>4. CASE Upload!Recover(h)
    <2>1. CASE published # {} /\ Upload!Newest.parts = Upload!Exact
      <3>1. PICK o \in published : published = {o}
        BY <1>0, <2>1
      <3>2. Upload!Newest = o /\ o.version \in Nat
        BY <1>0, <3>1 DEF Upload!Newest
      <3> DEFINE n == [c EXCEPT !.at = "settle", !.version = o.version]
      <3>3. request_step' = [request_step EXCEPT ![h] = n] /\ UNCHANGED <<artifact, control, uploads,
                grants, quarantine, published, told_upload>>
            /\ c.at = "recover"
        BY <1>0, <1>4, <2>1, <3>2 DEF Upload!Recover, Upload!store
      <3>4. n \in UploadCalls /\ n.at = "settle" /\ n.version = o.version
        BY <1>1, <3>2
      <3> HIDE DEF n
      <3>5. UploadCall(n)
        BY <1>0, <3>3, <3>4 DEF UploadCall, UploadFinalizes
      <3> QED
        BY <1>0, <3>3, <3>4, <3>5, UploadSteps
    <2>2. CASE ~(published # {} /\ Upload!Newest.parts = Upload!Exact)
      <3> DEFINE n == [c EXCEPT !.at = "list"]
      <3>1. request_step' = [request_step EXCEPT ![h] = n] /\ UNCHANGED <<artifact, control, uploads,
                grants, quarantine, published, told_upload>>
            /\ c.at = "recover"
        BY <1>0, <1>4, <2>2 DEF Upload!Recover, Upload!store, Upload!Goto
      <3>2. n \in UploadCalls /\ n.at = "list"
        BY <1>2
      <3> HIDE DEF n
      <3>3. UploadCall(n)
        BY <1>0, <3>1, <3>2 DEF UploadCall, UploadFinalizes
      <3> QED
        BY <1>0, <3>1, <3>2, <3>3, UploadSteps
    <2> QED
      BY <2>1, <2>2
  <1>5. CASE Upload!ListParts(h)
    <2>1. CASE Upload!Complete(h)
      <3> DEFINE n == [c EXCEPT !.at = "assemble"]
      <3>1. request_step' = [request_step EXCEPT ![h] = n] /\ UNCHANGED <<artifact, control, uploads,
                grants, quarantine, published, told_upload>>
            /\ c.at = "list"
        BY <1>0, <1>5, <2>1 DEF Upload!ListParts, Upload!store, Upload!Goto
      <3>2. n \in UploadCalls /\ n.at = "assemble"
        BY <1>2
      <3> HIDE DEF n
      <3>3. UploadCall(n)
        BY <1>0, <3>1, <3>2 DEF UploadCall, UploadFinalizes
      <3> QED
        BY <1>0, <3>1, <3>2, <3>3, UploadSteps
    <2>2. CASE ~Upload!Complete(h)
      BY <1>3, <1>5, <2>2 DEF Upload!ListParts
    <2> QED
      BY <2>1, <2>2
  <1>6. CASE Upload!Assemble(h)
    <2>1. CASE Upload!Complete(h)
      <3>1. /\ c.at = "assemble" /\ control \in Upload!Uploads /\ uploads[control].state = "open"
        BY <1>0, <1>6, <2>1 DEF Upload!Assemble, Upload!Complete, UploadCall, UploadFinalizes
      <3>2. PICK n \in UploadCalls : n = [c EXCEPT !.at = "digest"]
        BY <1>2
      <3>3. n.at = "digest"
        BY <1>2, <3>2
      <3>4. /\ request_step' = [request_step EXCEPT ![h] = n]
                /\ uploads' = [uploads EXCEPT ![control].state = "gone"]
            /\ UNCHANGED <<artifact, control, grants, published, told_upload>>
        BY <1>0, <1>6, <2>1, <3>2 DEF Upload!Assemble, Upload!Goto
      <3>5. /\ uploads' \in [Upload!Uploads -> [state : {"NONE", "open", "gone"}, parts : UploadParts]]
            /\ uploads'[control].state = "gone"
        <4>1. [uploads[control] EXCEPT !.state = "gone"] \in [state : {"NONE", "open", "gone"},
                  parts : UploadParts]
          BY <1>0, <3>1
        <4>2. [uploads[control] EXCEPT !.state = "gone"].state = "gone"
          BY <1>0, <3>1
        <4>3. uploads' = [uploads EXCEPT ![control] = [uploads[control] EXCEPT !.state = "gone"]]
          BY <1>0, <3>4
        <4> QED
          BY <1>0, <3>1, <4>1, <4>2, <4>3
      <3>6. published = {}
        BY <3>1 DEF UploadInv, UploadState
      <3>7. UploadState'
        BY <3>1, <3>4, <3>5, <3>6 DEF UploadInv, UploadState, Upload!ToldIsTrue
      <3>8. UploadCall(n)'
        BY <3>1, <3>3, <3>4, <3>5, <3>6 DEF UploadCall, UploadFinalizes
      <3>9. \A g \in UploadHandlers : request_step[g].at \notin {"digest", "copy"}
        BY <3>1 DEF UploadInv, UploadCall
      <3>10. \A d \in UploadCalls : UploadCall(d) /\ d.at \notin {"digest", "copy"} => UploadCall(d)'
        BY <3>4 DEF UploadCall
      <3> QED
        BY <3>3, <3>4, <3>7, <3>8, <3>9, <3>10, UploadMoves
    <2>2. CASE ~Upload!Complete(h)
      BY <1>3, <1>6, <2>2 DEF Upload!Assemble, Upload!store
    <2> QED
      BY <2>1, <2>2
  <1>7. CASE Upload!Digest(h)
    <2>0. c.at = "digest" /\ published = {} /\ control \in Upload!Uploads
              /\ uploads[control].state = "gone"
          /\ \A g \in UploadHandlers \ {h} : request_step[g].at \notin {"digest", "copy"}
      BY <1>0, <1>7 DEF Upload!Digest, UploadCall, UploadFinalizes, UploadInv
    <2>1. CASE quarantine = Upload!Exact
      <3> DEFINE n == [c EXCEPT !.at = "copy"]
      <3>1. request_step' = [request_step EXCEPT ![h] = n] /\ UNCHANGED <<artifact, control, uploads,
                grants, quarantine, published, told_upload>>
        BY <1>0, <1>7, <2>1 DEF Upload!Digest, Upload!Goto
      <3>2. n \in UploadCalls /\ n.at = "copy"
        BY <1>2
      <3> HIDE DEF n
      <3>3. UploadCall(n)
        BY <2>0, <2>1, <3>2 DEF UploadCall, UploadFinalizes
      <3> QED
        BY <1>0, <2>0, <3>1, <3>2, <3>3, UploadSteps
    <2>2. CASE quarantine # Upload!Exact
      <3>1. request_step' = [request_step EXCEPT ![h] = Upload!Idle] /\ UNCHANGED <<artifact, control,
                uploads, grants, published, told_upload>>
        BY <1>7, <2>2 DEF Upload!Digest, Upload!Return
      <3>2. UploadState'
        BY <3>1 DEF UploadInv, UploadState, Upload!ToldIsTrue
      <3>3. UploadCall(Upload!Idle)' /\ Upload!Idle.at \notin {"digest", "copy"}
                /\ Upload!Idle \in UploadCalls \cup {Upload!Idle}
        BY UploadIdle DEF UploadCall, Upload!Idle, UploadFinalizes
      <3>4. \A d \in UploadCalls : UploadCall(d) /\ d.at \notin {"digest", "copy"} => UploadCall(d)'
        BY <3>1 DEF UploadCall
      <3> QED
        BY <2>0, <3>1, <3>2, <3>3, <3>4, UploadMoves
    <2> QED
      BY <2>1, <2>2
  <1>8. CASE Upload!Copy(h)
    <2>0. c.at = "copy" /\ published = {} /\ control \in Upload!Uploads
              /\ uploads[control].state = "gone"
          /\ quarantine = Upload!Exact /\ \A g \in UploadHandlers \ {h} :
              request_step[g].at \notin {"digest", "copy"}
      BY <1>0, <1>8 DEF Upload!Copy, UploadCall, UploadFinalizes, UploadInv
    <2> DEFINE new == Upload!Cardinality(published) + 1
    <2>1. new \in Nat
      BY <2>0, FS_EmptySet, UploadCardinality
    <2>2. /\ published' = {[version |-> new, parts |-> Upload!Exact]}
          /\ request_step' = [request_step EXCEPT ![h].at = "clean", ![h].version = new]
          /\ UNCHANGED <<artifact, control, uploads, grants, quarantine, told_upload>>
      BY <1>8, <2>0 DEF Upload!Copy
    <2> HIDE DEF new
    <2>3. PICK v \in Nat : v = new
      BY <2>1
    <2>4. PICK n \in UploadCalls : n = [c EXCEPT !.at = "clean", !.version = v]
      BY <1>1
    <2>5. n.at = "clean" /\ n.version = v
      BY <1>1, <2>4
    <2>6. request_step' = [request_step EXCEPT ![h] = n] /\ published' = {[version |-> v,
              parts |-> Upload!Exact]}
      BY <1>0, <2>2, <2>3, <2>4
    <2>10. PICK o : o = [version |-> v, parts |-> Upload!Exact]
      OBVIOUS
    <2>11. published' = {o} /\ o.version = v /\ o.parts = Upload!Exact
      BY <2>6, <2>10
    <2>7. UploadCall(n)'
      BY <2>0, <2>2, <2>5, <2>11 DEF UploadCall, UploadFinalizes
    <2>8. UploadState'
      <3>1. artifact.state # "COMPLETED"
        BY <2>0 DEF UploadInv, UploadState
      <3> QED
        BY <2>0, <2>2, <2>11, <3>1 DEF UploadInv, UploadState, Upload!ToldIsTrue
    <2>9. \A d \in UploadCalls : UploadCall(d) /\ d.at \notin {"digest", "copy"} => UploadCall(d)'
      BY <2>0, <2>2 DEF UploadCall
    <2> QED
      BY <2>0, <2>5, <2>6, <2>7, <2>8, <2>9, UploadMoves
  <1>9. CASE Upload!Clean(h)
    <2>1. PICK n \in UploadCalls : n = [c EXCEPT !.at = "settle"]
      BY <1>2
    <2>2. n.at = "settle" /\ n.version = c.version
      BY <1>2, <2>1
    <2>3. /\ request_step' = [request_step EXCEPT ![h] = n] /\ UNCHANGED <<artifact, control, uploads,
              grants, published, told_upload>>
          /\ c.at = "clean" /\ published # {}
      BY <1>0, <1>9, <2>1 DEF Upload!Clean, Upload!Goto, UploadCall
    <2>4. UploadCall(n)'
      BY <1>0, <2>2, <2>3 DEF UploadCall, UploadFinalizes
    <2>5. UploadState'
      BY <2>3 DEF UploadInv, UploadState, Upload!ToldIsTrue
    <2>6. \A d \in UploadCalls : UploadCall(d) => UploadCall(d)'
      BY <2>3 DEF UploadCall
    <2> QED
      BY <2>2, <2>3, <2>4, <2>5, <2>6, UploadMoves
  <1>10. CASE Upload!AbortStorage(h)
    <2>1. PICK n \in UploadCalls : n = [c EXCEPT !.at = "save"]
      BY <1>2
    <2>2. n.at = "save" /\ n.found = c.found
      BY <1>2, <2>1
    <2>3. /\ request_step' = [request_step EXCEPT ![h] = n] /\ UNCHANGED <<artifact, control, grants,
              quarantine, published, told_upload>>
          /\ c.at = "stop"
          /\ uploads' = IF control = None THEN uploads ELSE [uploads EXCEPT ![control].state = "gone"]
      BY <1>0, <1>10, <2>1 DEF Upload!AbortStorage, Upload!Goto
    <2>4. /\ uploads' \in [Upload!Uploads -> [state : {"NONE", "open", "gone"}, parts : UploadParts]]
          /\ control \in Upload!Uploads => uploads'[control].state = "gone"
      <3>1. CASE control = None
        BY <1>0, <2>3, <3>1, UploadAssumption
      <3>2. CASE control # None
        <4>0. control \in Upload!Uploads
          BY <1>0, <3>2
        <4>1. [uploads[control] EXCEPT !.state = "gone"] \in [state : {"NONE", "open", "gone"},
                  parts : UploadParts]
          BY <1>0, <4>0
        <4>2. [uploads[control] EXCEPT !.state = "gone"].state = "gone"
          BY <1>0, <4>0
        <4>3. uploads' = [uploads EXCEPT ![control] = [uploads[control] EXCEPT !.state = "gone"]]
          BY <1>0, <2>3, <3>2
        <4> QED
          BY <1>0, <4>0, <4>1, <4>2, <4>3
      <3> QED
        BY <3>1, <3>2
    <2>5. UploadCall(n)'
      BY <1>0, <2>2, <2>3 DEF UploadCall, UploadFinalizes
    <2>6. UploadState'
      BY <2>3, <2>4 DEF UploadInv, UploadState, Upload!ToldIsTrue
    <2>7. \A d \in UploadCalls : UploadCall(d) => UploadCall(d)'
      BY <2>3, <2>4 DEF UploadCall, UploadFinalizes
    <2> QED
      BY <2>2, <2>3, <2>5, <2>6, <2>7, UploadMoves
  <1> QED
    BY <1>4, <1>5, <1>6, <1>7, <1>8, <1>9, <1>10

\* Every step keeps the invariant.
LEMMA UploadStep == ASSUME UploadInv, [Upload!Next]_Upload!vars PROVE UploadInv'
  <1>1. CASE UNCHANGED Upload!vars
    BY <1>1 DEF Upload!vars, Upload!store, UploadInv, UploadState, UploadCall, UploadFinalizes,
       Upload!ToldIsTrue
  <1>2. ASSUME NEW h \in UploadHandlers, Upload!Die(h) PROVE UploadInv'
    <2>1. grants \subseteq Upload!Uploads \X Upload!Parts \X Upload!Anything
      BY DEF UploadInv, UploadState
    <2> QED
      BY <1>2, <2>1, UploadReturns DEF Upload!Die, Upload!store
  <1> QED
    BY <1>1, <1>2, UploadTransfers, UploadPuts, UploadBegins, UploadRecords, UploadEnds,
       UploadFinalizations
    DEF Upload!Next, Upload!Transfer, Upload!Finalize

\* What the invariant says about the published objects and about what clients were told.
LEMMA UploadHolds == UploadInv => Upload!PublishedIsExact /\ Upload!ToldIsTrue
  <1> SUFFICES ASSUME UploadInv PROVE Upload!PublishedIsExact /\ Upload!ToldIsTrue
    OBVIOUS
  <1>1. Cardinality(published) =< 1
    <2>1. CASE published = {}
      BY <2>1, FS_EmptySet
    <2>2. CASE published # {}
      <3>1. PICK o \in published : published = {o}
        BY <2>2 DEF UploadInv, UploadState
      <3>2. Cardinality({o}) = 1
        BY FS_Singleton
      <3> QED
        BY <3>1, <3>2
    <2> QED
      BY <2>1, <2>2
  <1> QED
    BY <1>1, UploadCardinality DEF UploadInv, UploadState, Upload!PublishedIsExact

\* How many parts of a row are recorded.
UploadCount(rec) == Cardinality({p \in Upload!Parts : rec.parts[p] # None})

\* Every change of a row is a revision: one for each part, and those of its state.
UploadRevised ==
    artifact.revision \in
        CASE artifact.state = "OPEN" -> {1 + UploadCount(artifact)}
          [] artifact.state = "FINALIZING" -> {2 + UploadCount(artifact)}
          [] artifact.state = "COMPLETED" -> {3 + UploadCount(artifact)}
          [] OTHER -> {2 + UploadCount(artifact), 3 + UploadCount(artifact)}

\* What is finalized has all its parts, so that an object can be made of them.
UploadWhole ==
    /\ artifact.state \in {"FINALIZING", "COMPLETED"} => artifact.parts \in Upload!Objects
    /\ \A h \in UploadHandlers :
          request_step[h].at \in UploadFinalizes => request_step[h].found.parts \in Upload!Objects

\* What the types of the component say beside UploadInv.
UploadShown ==
    /\ UploadRevised
    /\ UploadWhole
    /\ quarantine \in Upload!Objects \cup {None}
    /\ published # {} => Upload!Exact \in Upload!Objects
    /\ deaths \in 0 .. UploadMaxFaults

\* The recorded parts are counted.
LEMMA UploadCounts ==
    ASSUME NEW rec, rec.parts \in UploadParts
    PROVE  /\ UploadCount(rec) \in 0 .. UploadLast
           /\ \A q \in Upload!Parts, c \in Upload!Anything : \A new :
                 rec.parts[q] = None /\ new.parts = [rec.parts EXCEPT ![q] = c]
                 => UploadCount(new) = UploadCount(rec) + 1
  <1> PICK S : S = {p \in Upload!Parts : rec.parts[p] # None}
    OBVIOUS
  <1>1. IsFiniteSet(Upload!Parts) /\ Cardinality(Upload!Parts) = UploadLast
    <2>1. 1 \in Int /\ UploadLast \in Int /\ 1 <= UploadLast
      BY UploadAssumption
    <2>2. IsFiniteSet(1 .. UploadLast) /\ Cardinality(1 .. UploadLast) = UploadLast - 1 + 1
      BY <2>1, FS_Interval
    <2> QED
      BY <2>1, <2>2 DEF Upload!Parts
  <1>2. IsFiniteSet(S) /\ Cardinality(S) <= UploadLast /\ Cardinality(S) \in Nat
    BY <1>1, FS_Subset, FS_CardinalityType
  <1>3. ASSUME NEW q \in Upload!Parts, NEW c \in Upload!Anything, NEW new,
               rec.parts[q] = None, new.parts = [rec.parts EXCEPT ![q] = c]
        PROVE  UploadCount(new) = UploadCount(rec) + 1
    <2>1. c # None
      BY UploadAssumption
    <2>2. \A p \in Upload!Parts : new.parts[p] = IF p = q THEN c ELSE rec.parts[p]
      BY <1>3 DEF UploadParts
    <2>3. {p \in Upload!Parts : new.parts[p] # None} = S \cup {q} /\ q \notin S
      BY <1>3, <2>1, <2>2
    <2>4. Cardinality(S \cup {q}) = Cardinality(S) + 1
      BY <1>2, <2>3, FS_AddElement
    <2> QED
      BY <2>3, <2>4 DEF UploadCount
  <1> QED
    BY <1>2, <1>3, UploadAssumption DEF UploadCount

\* The parts of a row that has all of them make an object.
LEMMA UploadMakesObject ==
    ASSUME artifact.parts \in UploadParts, Upload!Recorded = Upload!Parts
    PROVE  artifact.parts \in Upload!Objects
  BY DEF Upload!Recorded, UploadParts, Upload!Objects

\* What a request has in hand, when one of them has gone on.
LEMMA UploadStaysWhole ==
    ASSUME UploadInv, UploadShown, NEW h \in UploadHandlers, NEW n,
           request_step' = [request_step EXCEPT ![h] = n],
           n.at \in UploadFinalizes => n.found.parts \in Upload!Objects,
           artifact'.state \in {"FINALIZING", "COMPLETED"} => artifact'.parts \in Upload!Objects
    PROVE  UploadWhole'
  <1>1. \A g \in UploadHandlers : request_step'[g] = IF g = h THEN n ELSE request_step[g]
    BY DEF UploadInv
  <1> QED
    BY <1>1 DEF UploadShown, UploadWhole

\* The request h is answered, or goes on with what it has found.
LEMMA UploadKeepsFound ==
    ASSUME UploadInv, UploadShown, NEW h \in UploadHandlers,
           \/ Upload!Return(h)
           \/ \E n : /\ request_step' = [request_step EXCEPT ![h] = n]
                         /\ n.found = request_step[h].found
                     /\ n.at \in UploadFinalizes => request_step[h].at \in UploadFinalizes,
           artifact'.state \in {"FINALIZING", "COMPLETED"} => artifact'.parts \in Upload!Objects
    PROVE  UploadWhole'
  <1>1. CASE Upload!Return(h)
    <2>1. Upload!Idle.at \notin UploadFinalizes
      BY DEF Upload!Idle, UploadFinalizes
    <2> QED
      BY <1>1, <2>1, UploadStaysWhole DEF Upload!Return
  <1>2. ASSUME NEW n, request_step' = [request_step EXCEPT ![h] = n], n.found = request_step[h].found,
               n.at \in UploadFinalizes => request_step[h].at \in UploadFinalizes
        PROVE  UploadWhole'
    <2>1. n.at \in UploadFinalizes => n.found.parts \in Upload!Objects
      BY <1>2 DEF UploadShown, UploadWhole
    <2> QED
      BY <1>2, <2>1, UploadStaysWhole
  <1> QED
    BY <1>1, <1>2

\* A request goes on with what it has found.
LEMMA UploadEdits ==
    ASSUME UploadInv, NEW h \in UploadHandlers, request_step[h] \in UploadCalls, NEW step, NEW v,
           \/ request_step' = [request_step EXCEPT ![h].at = step]
           \/ request_step' = [request_step EXCEPT ![h].at = step, ![h].upload = v]
           \/ request_step' = [request_step EXCEPT ![h].at = step, ![h].version = v]
    PROVE  \E n : /\ request_step' = [request_step EXCEPT ![h] = n]
                 /\ n.at = step /\ n.found = request_step[h].found
  <1>1. request_step \in [UploadHandlers -> UploadCalls \cup {Upload!Idle}]
    BY DEF UploadInv
  <1>2. ASSUME NEW n, n.at = step, n.found = request_step[h].found,
               request_step' = [request_step EXCEPT ![h] = n]
        PROVE  \E m : /\ request_step' = [request_step EXCEPT ![h] = m]
                     /\ m.at = step /\ m.found = request_step[h].found
    BY <1>2
  <1>3. CASE request_step' = [request_step EXCEPT ![h].at = step]
    <2> PICK n : n = [request_step[h] EXCEPT !.at = step]
      OBVIOUS
    <2>1. n.at = step /\ n.found = request_step[h].found
      BY DEF UploadCalls
    <2>2. request_step' = [request_step EXCEPT ![h] = n]
      BY <1>1, <1>3
    <2> QED
      BY <1>2, <2>1, <2>2
  <1>4. CASE request_step' = [request_step EXCEPT ![h].at = step, ![h].upload = v]
    <2> PICK n : n = [request_step[h] EXCEPT !.at = step, !.upload = v]
      OBVIOUS
    <2>1. n.at = step /\ n.found = request_step[h].found
      BY DEF UploadCalls
    <2>2. request_step' = [request_step EXCEPT ![h] = n]
      BY <1>1, <1>4
    <2> QED
      BY <1>2, <2>1, <2>2
  <1>5. CASE request_step' = [request_step EXCEPT ![h].at = step, ![h].version = v]
    <2> PICK n : n = [request_step[h] EXCEPT !.at = step, !.version = v]
      OBVIOUS
    <2>1. n.at = step /\ n.found = request_step[h].found
      BY DEF UploadCalls
    <2>2. request_step' = [request_step EXCEPT ![h] = n]
      BY <1>1, <1>5
    <2> QED
      BY <1>2, <2>1, <2>2
  <1> QED
    BY <1>3, <1>4, <1>5

\* The row stays, and the step is one of a request that does not finalize.
LEMMA UploadRowStays ==
    ASSUME UploadInv, UploadShown, UNCHANGED <<artifact, quarantine, published>>, UploadWhole',
           deaths' \in 0 .. UploadMaxFaults
    PROVE  UploadShown'
  <1>1. UploadRevised'
    BY DEF UploadShown, UploadRevised, UploadCount
  <1> QED
    BY <1>1 DEF UploadShown

\* Every step keeps the types.
LEMMA UploadShows == ASSUME UploadInv, UploadShown, [Upload!Next]_Upload!vars PROVE UploadShown'
  <1>1. /\ artifact \in UploadRows /\ artifact.parts \in UploadParts /\ artifact.revision \in Nat
        /\ request_step \in [UploadHandlers -> UploadCalls \cup {Upload!Idle}]
    BY DEF UploadInv, UploadState, UploadRows
  <1>2. artifact.state \in {"FINALIZING", "COMPLETED"} => artifact.parts \in Upload!Objects
    BY DEF UploadShown, UploadWhole
  <1>3. UploadCount(artifact) \in Nat
    BY <1>1, UploadCounts, UploadAssumption
  <1>4. deaths \in 0 .. UploadMaxFaults
    BY DEF UploadShown
  <1>5. ASSUME NEW h \in UploadHandlers, NEW p \in Upload!Parts, NEW c,
               Upload!issuePartTransfer(h, p, c) \/ Upload!recordPart(h, p, c)
        PROVE  UploadShown'
    <2> PICK n, m : /\ n = [at |-> "control", found |-> None, part |-> p, content |-> c,
                            upload |-> None, version |-> None]
                    /\ m = [at |-> "verify", found |-> artifact, part |-> p, content |-> c,
                            upload |-> None, version |-> None]
      OBVIOUS
    <2>1. \E k \in {n, m} : request_step' = [request_step EXCEPT ![h] = k] /\ k.at \in {"control",
              "verify"}
      BY <1>5 DEF Upload!issuePartTransfer, Upload!recordPart
    <2>2. UNCHANGED <<artifact, quarantine, published, deaths>>
      BY <1>5 DEF Upload!issuePartTransfer, Upload!recordPart, Upload!store
    <2>3. UploadWhole'
      BY <1>2, <2>1, <2>2, UploadStaysWhole DEF UploadFinalizes
    <2> QED
      BY <1>4, <2>2, <2>3, UploadRowStays
  <1>6. ASSUME NEW h \in UploadHandlers, Upload!Transfer(h) \/ Upload!VerifyPart(h) PROVE UploadShown'
    <2>1. UNCHANGED <<artifact, quarantine, published, deaths>>
      BY <1>6 DEF Upload!Transfer, Upload!ReadControl, Upload!PutControl, Upload!Grant,
         Upload!VerifyPart,
                  Upload!store
    <2>2. \/ Upload!Return(h)
          \/ \E n : /\ request_step' = [request_step EXCEPT ![h] = n] /\ n.at \in {"grant", "put",
                        "record"}
      <3>1. request_step[h] \in UploadCalls
        BY <1>1, <1>6 DEF Upload!Transfer, Upload!ReadControl, Upload!PutControl, Upload!Grant,
                          Upload!VerifyPart, Upload!Idle
      <3>2. \/ Upload!Return(h)
            \/ \E step \in {"grant", "put", "record"} : \E u :
                  \/ request_step' = [request_step EXCEPT ![h].at = step]
                  \/ request_step' = [request_step EXCEPT ![h].at = step, ![h].upload = u]
        BY <1>6 DEF Upload!Transfer, Upload!ReadControl, Upload!PutControl, Upload!Grant,
                    Upload!VerifyPart, Upload!Goto
      <3> QED
        <4>1. CASE Upload!Return(h)
          BY <4>1
        <4>2. ASSUME NEW step \in {"grant", "put", "record"}, NEW u,
                     \/ request_step' = [request_step EXCEPT ![h].at = step]
                     \/ request_step' = [request_step EXCEPT ![h].at = step, ![h].upload = u]
              PROVE  \E n : request_step' = [request_step EXCEPT ![h] = n] /\ n.at = step
          <5>1. PICK n : /\ request_step' = [request_step EXCEPT ![h] = n]
                         /\ n.at = step /\ n.found = request_step[h].found
            BY <3>1, <4>2, UploadEdits
          <5> QED
            BY <5>1
        <4> QED
          BY <3>2, <4>1, <4>2
    <2>3. UploadWhole'
      <3>1. CASE Upload!Return(h)
        BY <1>2, <2>1, <3>1, UploadKeepsFound
      <3>2. ASSUME NEW n, request_step' = [request_step EXCEPT ![h] = n], n.at \in {"grant", "put",
                "record"}
            PROVE  UploadWhole'
        BY <1>2, <2>1, <3>2, UploadStaysWhole DEF UploadFinalizes
      <3> QED
        BY <2>2, <3>1, <3>2
    <2> QED
      BY <1>4, <2>1, <2>3, UploadRowStays
  <1>7. ASSUME NEW h \in UploadHandlers, Upload!Die(h) PROVE UploadShown'
    <2>1. Upload!Return(h) /\ UNCHANGED <<artifact, quarantine, published>>
              /\ deaths' \in 0 .. UploadMaxFaults
      BY <1>4, <1>7, UploadAssumption DEF Upload!Die, Upload!store
    <2>2. UploadWhole'
      BY <1>2, <2>1, UploadKeepsFound
    <2> QED
      BY <2>1, <2>2, UploadRowStays
  <1>8. ASSUME NEW h \in UploadHandlers, Upload!SavePart(h) PROVE UploadShown'
    <2>1. Upload!Return(h) /\ UNCHANGED <<quarantine, published, deaths>>
              /\ request_step[h] \in UploadCalls
          /\ UploadCall(request_step[h]) /\ request_step[h].at = "record"
      BY <1>8, UploadCallShape DEF Upload!SavePart, Upload!store
    <2>2. CASE artifact' = artifact
      BY <1>2, <1>4, <2>1, <2>2, UploadKeepsFound, UploadRowStays
    <2>3. CASE artifact' # artifact
      <3> PICK found, q, c : found = request_step[h].found /\ q = request_step[h].part
                             /\ c = request_step[h].content
        OBVIOUS
      <3>1. artifact = found /\ found.parts[q] = None
            /\ artifact' = [found EXCEPT !.parts[q] = c, !.revision = @ + 1]
        BY <1>8, <2>3 DEF Upload!SavePart, Upload!WithPart, Upload!Saves
      <3>2. found.state = "OPEN" /\ q \in Upload!Parts /\ c \in Upload!Anything
        BY <2>1 DEF UploadCall
      <3>3. artifact'.state = "OPEN" /\ artifact'.parts = [artifact.parts EXCEPT ![q] = c]
            /\ artifact'.revision = artifact.revision + 1
        BY <1>1, <3>1, <3>2 DEF UploadRows
      <3>4. artifact.revision = 1 + UploadCount(artifact)
        BY <3>1, <3>2 DEF UploadShown, UploadRevised
      <3>5. PICK new : new = artifact'
        OBVIOUS
      <3>6. UploadCount(new) = UploadCount(artifact) + 1
        <4>1. artifact.parts[q] = None /\ new.parts = [artifact.parts EXCEPT ![q] = c]
          BY <3>1, <3>3, <3>5
        <4> QED
          BY <1>1, <3>2, <4>1, UploadCounts
      <3>7. artifact'.revision = 1 + UploadCount(new)
        BY <1>3, <3>3, <3>4, <3>6
      <3>8. UploadRevised'
        BY <3>3, <3>5, <3>7 DEF UploadRevised, UploadCount
      <3>9. UploadWhole'
        BY <2>1, <3>3, UploadKeepsFound
      <3> QED
        BY <1>4, <2>1, <3>8, <3>9 DEF UploadShown
    <2> QED
      BY <2>2, <2>3
  <1>9. ASSUME NEW h \in UploadHandlers, Upload!complete(h) PROVE UploadShown'
    <2> PICK n : n = [at |-> "recover", found |-> artifact', part |-> None, content |-> None,
                      upload |-> None, version |-> None]
      OBVIOUS
    <2>1. UNCHANGED <<quarantine, published, deaths>> /\ request_step' = [request_step EXCEPT ![h] = n]
          /\ n.found = artifact'
      BY <1>9 DEF Upload!complete, Upload!store, Upload!Begin
    <2>2. CASE artifact.state = "FINALIZING" /\ artifact' = artifact
      <3>1. UploadWhole'
        BY <1>2, <2>1, <2>2, UploadStaysWhole
      <3> QED
        BY <1>4, <2>1, <2>2, <3>1, UploadRowStays
    <2>3. CASE artifact.state = "OPEN" /\ Upload!Recorded = Upload!Parts
               /\ artifact' = [artifact EXCEPT !.state = "FINALIZING", !.revision = @ + 1]
      <3>1. artifact'.state = "FINALIZING" /\ artifact'.parts = artifact.parts
            /\ artifact'.revision = artifact.revision + 1
        BY <1>1, <2>3 DEF UploadRows
      <3>2. artifact.revision = 1 + UploadCount(artifact)
        BY <2>3 DEF UploadShown, UploadRevised
      <3>3. PICK new : new = artifact'
        OBVIOUS
      <3>4. UploadCount(new) = UploadCount(artifact)
        BY <3>1, <3>3 DEF UploadCount
      <3>5. artifact'.revision = 2 + UploadCount(new)
        BY <1>3, <3>1, <3>2, <3>4
      <3>6. UploadRevised'
        BY <3>1, <3>3, <3>5 DEF UploadRevised, UploadCount
      <3>7. artifact'.parts \in Upload!Objects
        BY <1>1, <2>3, <3>1, UploadMakesObject
      <3>8. UploadWhole'
        BY <2>1, <3>7, UploadStaysWhole
      <3> QED
        BY <1>4, <2>1, <3>6, <3>8 DEF UploadShown
    <2> QED
      BY <1>9, <2>2, <2>3 DEF Upload!complete
  <1>10. ASSUME NEW h \in UploadHandlers, Upload!Settle(h) PROVE UploadShown'
    <2>1. Upload!Return(h) /\ UNCHANGED <<quarantine, published, deaths>>
      BY <1>10 DEF Upload!Settle, Upload!store
    <2>2. CASE artifact' = artifact
      BY <1>2, <1>4, <2>1, <2>2, UploadKeepsFound, UploadRowStays
    <2>3. CASE artifact' # artifact
      <3> PICK o : o = request_step[h].version
        OBVIOUS
      <3>1. artifact.state = "FINALIZING"
            /\ artifact' = [artifact EXCEPT !.state = "COMPLETED", !.object = o, !.revision = @ + 1]
        BY <1>10, <2>3 DEF Upload!Settle
      <3>2. artifact'.state = "COMPLETED" /\ artifact'.parts = artifact.parts
            /\ artifact'.revision = artifact.revision + 1
        BY <1>1, <3>1 DEF UploadRows
      <3>3. artifact.revision = 2 + UploadCount(artifact)
        BY <3>1 DEF UploadShown, UploadRevised
      <3>4. PICK new : new = artifact'
        OBVIOUS
      <3>5. UploadCount(new) = UploadCount(artifact)
        BY <3>2, <3>4 DEF UploadCount
      <3>6. artifact'.revision = 3 + UploadCount(new)
        BY <1>3, <3>2, <3>3, <3>5
      <3>7. UploadRevised'
        BY <3>2, <3>4, <3>6 DEF UploadRevised, UploadCount
      <3>8. UploadWhole'
        BY <1>2, <2>1, <3>1, <3>2, UploadKeepsFound
      <3> QED
        BY <1>4, <2>1, <3>7, <3>8 DEF UploadShown
    <2> QED
      BY <2>2, <2>3
  <1>11. ASSUME NEW h \in UploadHandlers, NEW state \in {"ABORTED", "EXPIRED"}, Upload!SaveStopped(h,
             state)
         PROVE  UploadShown'
    <2>1. Upload!Return(h) /\ UNCHANGED <<quarantine, published, deaths>> /\ request_step[h].at = "save"
          /\ UploadCall(request_step[h])
      BY <1>11, UploadCallShape DEF Upload!SaveStopped, Upload!store
    <2>2. CASE artifact' = artifact
      BY <1>2, <1>4, <2>1, <2>2, UploadKeepsFound, UploadRowStays
    <2>3. CASE artifact' # artifact
      <3>1. artifact.state \in {"OPEN", "FINALIZING"}
            /\ artifact' = [artifact EXCEPT !.state = state, !.revision = @ + 1]
        BY <1>11, <2>1, <2>3 DEF Upload!SaveStopped, Upload!Saves, UploadCall
      <3>2. artifact'.state = state /\ artifact'.parts = artifact.parts
            /\ artifact'.revision = artifact.revision + 1
        BY <1>1, <3>1 DEF UploadRows
      <3>3. artifact.revision \in {1 + UploadCount(artifact), 2 + UploadCount(artifact)}
        BY <3>1 DEF UploadShown, UploadRevised
      <3>4. PICK new : new = artifact'
        OBVIOUS
      <3>5. UploadCount(new) = UploadCount(artifact)
        BY <3>2, <3>4 DEF UploadCount
      <3>6. artifact'.revision \in {2 + UploadCount(new), 3 + UploadCount(new)}
        BY <1>3, <3>2, <3>3, <3>5
      <3>7. UploadRevised'
        BY <3>2, <3>4, <3>6 DEF UploadRevised, UploadCount
      <3>8. UploadWhole'
        BY <2>1, <3>2, UploadKeepsFound
      <3> QED
        BY <1>4, <2>1, <3>7, <3>8 DEF UploadShown
    <2> QED
      BY <2>2, <2>3
  <1>12. ASSUME NEW h \in UploadHandlers, Upload!abort(h) \/ Upload!AbortStorage(h) PROVE UploadShown'
    <2>1. UNCHANGED <<artifact, quarantine, published, deaths>>
      BY <1>12 DEF Upload!abort, Upload!AbortStorage, Upload!store
    <2>2. \E n : request_step' = [request_step EXCEPT ![h] = n] /\ n.at \in {"stop", "save"}
      <3>1. CASE Upload!abort(h)
        <4> PICK n : n = [at |-> "stop", found |-> artifact, part |-> None, content |-> None,
                          upload |-> None, version |-> None]
          OBVIOUS
        <4>1. request_step' = [request_step EXCEPT ![h] = n] /\ n.at = "stop"
          BY <3>1 DEF Upload!abort, Upload!Begin
        <4> QED
          BY <4>1
      <3>2. CASE Upload!AbortStorage(h)
        <4>1. request_step[h] \in UploadCalls
          BY <1>1, <3>2 DEF Upload!AbortStorage, Upload!Idle
        <4>2. [request_step[h] EXCEPT !.at = "save"].at = "save"
          BY <4>1 DEF UploadCalls
        <4> QED
          BY <3>2, <4>2 DEF Upload!AbortStorage, Upload!Goto
      <3> QED
        BY <1>12, <3>1, <3>2
    <2>3. UploadWhole'
      BY <1>2, <2>1, <2>2, UploadStaysWhole DEF UploadFinalizes
    <2> QED
      BY <1>4, <2>1, <2>3, UploadRowStays
  <1>13. ASSUME NEW h \in UploadHandlers,
                \/ Upload!Recover(h) \/ Upload!ListParts(h) \/ Upload!Assemble(h) \/ Upload!Digest(h)
                \/ Upload!Copy(h) \/ Upload!Clean(h)
         PROVE  UploadShown'
    <2>1. UNCHANGED <<artifact, deaths>> /\ request_step[h].at \in UploadFinalizes
      BY <1>13 DEF Upload!Recover, Upload!ListParts, Upload!Assemble, Upload!Digest, Upload!Copy,
                   Upload!Clean, Upload!store, UploadFinalizes
    <2>2. request_step[h] \in UploadCalls
      BY <1>1, <2>1 DEF UploadFinalizes, Upload!Idle
    <2>3. \/ Upload!Return(h)
          \/ \E n : request_step' = [request_step EXCEPT ![h] = n] /\ n.found = request_step[h].found
      <3>1. \/ Upload!Return(h)
            \/ \E step : request_step' = [request_step EXCEPT ![h].at = step]
            \/ \E step, v : request_step' = [request_step EXCEPT ![h].at = step, ![h].version = v]
        BY <1>13, Zenon DEF Upload!Recover, Upload!ListParts, Upload!Assemble, Upload!Digest,
           Upload!Copy,
                            Upload!Clean, Upload!Goto
      <3> QED
        <4>1. CASE Upload!Return(h)
          BY <4>1
        <4>2. ASSUME NEW step, NEW v,
                     \/ request_step' = [request_step EXCEPT ![h].at = step]
                     \/ request_step' = [request_step EXCEPT ![h].at = step, ![h].version = v]
              PROVE  \E n : request_step' = [request_step EXCEPT ![h] = n]
                  /\ n.found = request_step[h].found
          BY <2>2, <4>2, UploadEdits
        <4> QED
          BY <3>1, <4>1, <4>2
    <2>4. UploadWhole'
      BY <1>2, <2>1, <2>3, UploadKeepsFound
    <2>5. quarantine' \in {quarantine, None} \/ quarantine' = request_step[h].found.parts
      BY <1>13 DEF Upload!Recover, Upload!ListParts, Upload!Assemble, Upload!Complete, Upload!Digest,
                   Upload!Copy, Upload!Clean, Upload!store
    <2>6. quarantine' \in Upload!Objects \cup {None}
      BY <2>1, <2>5 DEF UploadShown, UploadWhole
    <2>7. UploadRevised'
      BY <2>1 DEF UploadShown, UploadRevised, UploadCount
    <2>8. published' # {} => Upload!Exact \in Upload!Objects
      <3>1. CASE Upload!Copy(h)
        <4>1. quarantine = Upload!Exact
          BY <3>1, UploadCallShape DEF Upload!Copy, UploadCall
        <4> QED
          BY <4>1, UploadAssumption DEF UploadShown
      <3>2. CASE published' = published
        BY <3>2 DEF UploadShown
      <3> QED
        BY <1>13, <3>1, <3>2 DEF Upload!Recover, Upload!ListParts, Upload!Assemble, Upload!Digest,
                                 Upload!Clean, Upload!store
    <2> QED
      BY <1>4, <2>1, <2>4, <2>6, <2>7, <2>8 DEF UploadShown
  <1>14. ASSUME NEW g \in grants, Upload!PutPart(g) PROVE UploadShown'
    BY <1>14 DEF Upload!PutPart, UploadShown, UploadRevised, UploadCount, UploadWhole
  <1>15. CASE UNCHANGED Upload!vars
    BY <1>15 DEF Upload!vars, Upload!store, UploadShown, UploadRevised, UploadCount, UploadWhole
  <1> QED
    BY <1>5, <1>6, <1>7, <1>8, <1>9, <1>10, <1>11, <1>12, <1>13, <1>14, <1>15
       DEF Upload!Next, Upload!Finalize

\* Both invariants together are the types of the component.
LEMMA UploadTypes ==
    /\ Upload!Init => UploadShown
    /\ UploadInv /\ UploadShown => Upload!TypeOK
  <1>1. ASSUME Upload!Init PROVE UploadShown
    <2>1. artifact.state = "OPEN" /\ artifact.revision = 1 /\ \A p \in Upload!Parts :
              artifact.parts[p] = None
      BY <1>1 DEF Upload!Init
    <2>2. {p \in Upload!Parts : artifact.parts[p] # None} = {}
      BY <2>1
    <2>3. UploadCount(artifact) = 0
      BY <2>2, FS_EmptySet DEF UploadCount
    <2>4. UploadRevised
      BY <2>1, <2>3 DEF UploadRevised
    <2>5. UploadWhole
      BY <1>1, <2>1 DEF Upload!Init, Upload!Idle, UploadWhole, UploadFinalizes
    <2> QED
      BY <1>1, <2>4, <2>5, UploadAssumption DEF Upload!Init, UploadShown
  <1>2. ASSUME UploadInv, UploadShown PROVE Upload!TypeOK
    <2>1. artifact \in UploadRows /\ artifact.parts \in UploadParts
      BY <1>2 DEF UploadInv, UploadState, UploadRows
    <2>2. UploadCount(artifact) \in 0 .. UploadLast
      BY <2>1, UploadCounts
    <2>3. artifact.revision \in {1 + UploadCount(artifact), 2 + UploadCount(artifact),
              3 + UploadCount(artifact)}
      BY <1>2 DEF UploadShown, UploadRevised
    <2>4. artifact.revision \in 1 .. UploadLast + 3
      BY <2>2, <2>3, UploadAssumption
    <2>5. \A o \in published : o.version \in Nat /\ o.parts \in Upload!Objects
      BY <1>2 DEF UploadInv, UploadState, UploadShown
    <2> QED
      BY <1>2, <2>1, <2>4, <2>5 DEF UploadInv, UploadState, UploadShown, UploadRows, UploadParts,
         Upload!TypeOK
  <1> QED
    BY <1>1, <1>2

\* The behaviours are those of the component, or leave it as it is.
LEMMA UploadBehaves == Behaviours => Upload!Spec
  <1>1. Start => Upload!Init
    BY DEF Start
  <1>2. [Step]_everything => [Upload!Next]_Upload!vars
    BY DEF Step, everything, upload_vars, Upload!vars, Upload!store
  <1> QED
    BY <1>1, <1>2, PTL DEF Behaviours, Upload!Spec

\* However many requests overlap and processes die, an upload publishes one object, the expected one,
\* and what clients were told of it stays.
THEOREM UploadsAreSafe == Behaviours => []UploadIsSafe
  <1>1. UploadInv => UploadIsSafe
    BY UploadHolds DEF UploadIsSafe
  <1>2. UploadInv /\ [Upload!Next]_Upload!vars => UploadInv'
    BY UploadStep
  <1> QED
    BY <1>1, <1>2, UploadInit, UploadBehaves, PTL DEF Upload!Spec

-----------------------------------------------------------------------------
(* AuditLedger: one chain of events, however many calls overlap.           *)

\* The instance has a Cardinality of its own, which is the one the lemmas of sets are about.
LEMMA LedgerCardinality == \A S : Ledger!Cardinality(S) = Cardinality(S)
  BY Zenon DEF Ledger!Cardinality, Cardinality

\* The event e has the digest of what it says after the event before it, which is there.
LedgerFollows(e) ==
    /\ e.sequence \in Nat \ {0}
    /\ e.sequence = 1 => e.previous = <<>>
    /\ e.sequence # 1 => \E f \in events : f.sequence = e.sequence - 1 /\ f.digest = e.previous
    /\ e.digest = Append(e.previous, Ledger!Item(e))

\* What the unique keys and LedgerFollows make of the events: each number once, up to their count.
LedgerChain ==
    /\ IsFiniteSet(events)
    /\ \A e \in events : LedgerFollows(e) /\ e.sequence \in 1 .. Cardinality(events)
    /\ \A n \in 1 .. Cardinality(events) : \E e \in events : e.sequence = n
    /\ \A e, f \in events : e.sequence = f.sequence \/ e.id = f.id \/ e.key = f.key => e = f

\* The seal s has the digest of the event it names.
LedgerCovers(s) == \E e \in events : e.sequence = s.last /\ e.digest = s.root

\* What the calls hold in hand stays true while others append.
LedgerInHand ==
    /\ writer = [w \in LedgerWriters |-> writer[w]]
    /\ \A w \in LedgerWriters :
          /\ writer[w].at \in {"find", "compare", "insert"} => LedgerFollows(writer[w].row)
          /\ writer[w].at \in {"seal", "insert_seal"} => LedgerCovers(writer[w].row)

\* What is written beside the events.
LedgerSealed ==
    /\ \A s \in seals : LedgerCovers(s)
    /\ \A x, y \in attestations : x.id = y.id => x = y
    /\ assured \subseteq events \union seals \union attestations

\* The inductive invariant.
LedgerInv == LedgerChain /\ LedgerInHand /\ LedgerSealed

\* The invariant is what the property says of the events.
LEMMA LedgerChainIsChained == LedgerChain => Ledger!Chained
  <1> SUFFICES ASSUME LedgerChain PROVE Ledger!Chained
    OBVIOUS
  <1>1. {e.sequence : e \in events} = 1 .. Cardinality(events)
    BY DEF LedgerChain
  <1>2. ASSUME NEW e \in events
        PROVE  /\ e.previous = IF e.sequence = 1 THEN <<>>
                               ELSE (CHOOSE f \in events : f.sequence = e.sequence - 1).digest
               /\ e.digest = Append(e.previous, Ledger!Item(e))
    <2>1. CASE e.sequence = 1
      BY <2>1 DEF LedgerChain, LedgerFollows
    <2>2. CASE e.sequence # 1
      <3>1. PICK f \in events : f.sequence = e.sequence - 1 /\ f.digest = e.previous
        BY <2>2 DEF LedgerChain, LedgerFollows
      <3>2. f = CHOOSE g \in events : g.sequence = e.sequence - 1
        BY <3>1 DEF LedgerChain
      <3> QED
        BY <2>2, <3>1, <3>2 DEF LedgerChain, LedgerFollows
    <2> QED
      BY <2>1, <2>2
  <1> QED
    BY <1>1, <1>2, LedgerCardinality DEF Ledger!Chained

\* The newest event has the number of how many there are.
LEMMA LedgerNewestIsLast ==
    ASSUME LedgerChain, events # {}
    PROVE  Ledger!Newest \in events /\ Ledger!Newest.sequence = Cardinality(events)
        /\ Cardinality(events) \in Nat \ {0}
  <1>1. Cardinality(events) \in Nat \ {0}
    BY FS_EmptySet, FS_CardinalityType DEF LedgerChain
  <1>2. PICK e \in events : e.sequence = Cardinality(events)
    BY <1>1 DEF LedgerChain
  <1>3. \A f \in events : f.sequence \in Nat /\ f.sequence <= Cardinality(events)
    BY <1>1 DEF LedgerChain
  <1>4. Ledger!Newest \in events /\ \A f \in events : f.sequence <= Ledger!Newest.sequence
    BY <1>2, <1>3 DEF Ledger!Newest
  <1> QED
    BY <1>1, <1>2, <1>3, <1>4

\* Events and seals only come, so that what followed or was covered still is.
LEMMA LedgerPersists ==
    ASSUME events \subseteq events'
    PROVE  /\ \A e : LedgerFollows(e) => LedgerFollows(e)'
           /\ \A s : LedgerCovers(s) => LedgerCovers(s)'
  BY DEF LedgerFollows, LedgerCovers, Ledger!Item

\* A call goes on with what it has in hand.
LEMMA LedgerGotoMoves ==
    ASSUME LedgerInHand, NEW w \in LedgerWriters, NEW step, NEW rec, Ledger!Goto(w, step, rec)
    PROVE  /\ writer' = [v \in LedgerWriters |-> writer'[v]]
           /\ writer'[w].at = step /\ writer'[w].row = rec
           /\ \A v \in LedgerWriters \ {w} : writer'[v] = writer[v]
  BY DEF LedgerInHand, Ledger!Goto

\* The steps that record nothing, and tell callers only what is recorded.
LEMMA LedgerQuietSteps ==
    ASSUME LedgerInv, NEW w \in LedgerWriters, NEW step, NEW rec, Ledger!Goto(w, step, rec),
           step \in {"find", "compare", "insert"} => LedgerFollows(rec),
           step \in {"seal", "insert_seal"} => LedgerCovers(rec),
           UNCHANGED <<events, seals, attestations>>,
           assured' \subseteq assured \union events \union seals \union attestations
    PROVE  LedgerInv'
  <1>1. LedgerChain'
    BY DEF LedgerInv, LedgerChain, LedgerFollows, Ledger!Item
  <1>2. LedgerInHand'
    <2>1. /\ writer' = [v \in LedgerWriters |-> writer'[v]]
          /\ writer'[w].at = step /\ writer'[w].row = rec
          /\ \A v \in LedgerWriters \ {w} : writer'[v] = writer[v]
      BY LedgerGotoMoves DEF LedgerInv
    <2>2. events' = events /\ LedgerInHand
      BY DEF LedgerInv
    <2> QED
      BY <2>1, <2>2, LedgerPersists DEF LedgerInHand
  <1>3. LedgerSealed'
    BY DEF LedgerInv, LedgerSealed, LedgerCovers
  <1> QED
    BY <1>1, <1>2, <1>3 DEF LedgerInv

\* The chain is listed, and the new event follows the newest one.
LEMMA LedgerAppendStep ==
    ASSUME LedgerInv, NEW w \in LedgerWriters, NEW i \in LedgerIds, NEW k \in LedgerKeys,
        NEW c \in LedgerContents, Ledger!append(w, i, k, c)
    PROVE  LedgerInv'
  <1> DEFINE next == [id |-> i, key |-> k, content |-> c, sequence |-> Cardinality(events) + 1,
                      previous |-> Ledger!LastDigest, digest |-> Append(Ledger!LastDigest, <<i, k, c>>)]
  <1>1. LedgerFollows(next)
    <2>1. CASE events = {}
      BY <2>1, FS_EmptySet DEF LedgerFollows, Ledger!LastDigest, Ledger!Item
    <2>2. CASE events # {}
      <3>1. Ledger!Newest \in events /\ Ledger!Newest.sequence = Cardinality(events)
                /\ Cardinality(events) \in Nat \ {0}
        BY <2>2, LedgerNewestIsLast DEF LedgerInv
      <3>2. Ledger!LastDigest = Ledger!Newest.digest
        BY <2>2 DEF Ledger!LastDigest
      <3> QED
        BY <3>1, <3>2 DEF LedgerFollows, Ledger!Item
    <2> QED
      BY <2>1, <2>2
  <1>2. \A e \in events : LedgerFollows(e)
    BY DEF LedgerInv, LedgerChain
  <1>3. \E rec : /\ Ledger!Goto(w, "find", rec) /\ LedgerFollows(rec)
                 \/ Ledger!Goto(w, "done", rec)
    <2> HIDE DEF next
    <2>1. (\E e \in events : Ledger!Goto(w, "find", e) \/ Ledger!End(w)) \/ Ledger!Goto(w, "find", next)
      BY LedgerCardinality DEF Ledger!append, next
    <2> QED
      BY <1>1, <1>2, <2>1 DEF Ledger!End
  <1> QED
    BY <1>3, LedgerQuietSteps DEF Ledger!append

\* The answers, and the checks before an insert.
LEMMA LedgerFindSteps ==
    ASSUME LedgerInv, NEW w \in LedgerWriters, Ledger!FindId(w) \/ Ledger!Compare(w)
        \/ Ledger!FindSeal(w)
    PROVE  LedgerInv'
  <1>1. CASE Ledger!FindId(w)
    <2>1. LedgerFollows(writer[w].row)
      BY <1>1 DEF Ledger!FindId, LedgerInv, LedgerInHand
    <2> QED
      BY <1>1, <2>1, LedgerQuietSteps DEF Ledger!FindId, Ledger!End
  <1>2. CASE Ledger!Compare(w)
    <2>1. LedgerFollows(writer[w].row)
      BY <1>2 DEF Ledger!Compare, LedgerInv, LedgerInHand
    <2> QED
      BY <1>2, <2>1, LedgerQuietSteps DEF Ledger!Compare, Ledger!End
  <1>3. CASE Ledger!FindSeal(w)
    <2>1. LedgerCovers(writer[w].row)
      BY <1>3 DEF Ledger!FindSeal, LedgerInv, LedgerInHand
    <2> QED
      BY <1>3, <2>1, LedgerQuietSteps DEF Ledger!FindSeal, Ledger!End
  <1> QED
    BY <1>1, <1>2, <1>3

\* A seal covers the events that were listed.
LEMMA LedgerSealStep == ASSUME LedgerInv, NEW w \in LedgerWriters, Ledger!seal(w) PROVE LedgerInv'
  <1>1. CASE Ledger!Goto(w, "seal", [last |-> Cardinality(events), root |-> Ledger!LastDigest,
            sealedAt |-> w]) /\ events # {}
    <2>1. LedgerCovers([last |-> Cardinality(events), root |-> Ledger!LastDigest, sealedAt |-> w])
      BY <1>1, LedgerNewestIsLast DEF LedgerInv, LedgerCovers, Ledger!LastDigest
    <2> QED
      BY <1>1, <2>1, LedgerQuietSteps DEF Ledger!seal
  <1>2. CASE Ledger!End(w)
    BY <1>2, LedgerQuietSteps DEF Ledger!seal, Ledger!End
  <1> QED
    BY <1>1, <1>2, LedgerCardinality DEF Ledger!seal

\* The number after which an event follows is there, and its own is free: it is the next one.
LEMMA LedgerInsertExtends ==
    ASSUME LedgerChain, NEW e, LedgerFollows(e), Ledger!Free(e), events' = events \union {e}
    PROVE  LedgerChain'
  <1> DEFINE n == Cardinality(events)
  <1>1. n \in Nat /\ IsFiniteSet(events)
    BY FS_CardinalityType DEF LedgerChain
  <1>2. e.sequence = n + 1
    <2>1. e.sequence \notin 1 .. n
      BY DEF LedgerChain, Ledger!Free
    <2>2. e.sequence \in Nat \ {0}
      BY DEF LedgerFollows
    <2>3. e.sequence = 1 \/ e.sequence - 1 \in 1 .. n
      BY <2>2 DEF LedgerChain, LedgerFollows
    <2> HIDE DEF n
    <2> QED
      BY <1>1, <2>1, <2>2, <2>3
  <1>3. e \notin events
    BY DEF Ledger!Free
  <1>4. IsFiniteSet(events') /\ Cardinality(events') = n + 1
    BY <1>1, <1>3, FS_AddElement
  <1>5. \A f \in events' : LedgerFollows(f)'
    BY LedgerPersists DEF LedgerChain
  <1>6. \A f \in events' : f.sequence \in 1 .. n + 1
    BY <1>1, <1>2 DEF LedgerChain
  <1>7. \A m \in 1 .. n + 1 : \E f \in events' : f.sequence = m
    BY <1>1, <1>2 DEF LedgerChain
  <1>8. \A f, g \in events' : f.sequence = g.sequence \/ f.id = g.id \/ f.key = g.key => f = g
    BY DEF LedgerChain, Ledger!Free
  <1> QED
    BY <1>4, <1>5, <1>6, <1>7, <1>8 DEF LedgerChain

\* An insert of the next event.
LEMMA LedgerInsertStep == ASSUME LedgerInv, NEW w \in LedgerWriters, Ledger!Insert(w) PROVE LedgerInv'
  <1>1. CASE Ledger!Free(writer[w].row)
    <2>1. LedgerFollows(writer[w].row) /\ events' = events \union {writer[w].row}
      BY <1>1 DEF Ledger!Insert, LedgerInv, LedgerInHand
    <2>2. LedgerChain'
      BY <1>1, <2>1, LedgerInsertExtends DEF LedgerInv
    <2>3. LedgerInHand'
      BY <2>1, LedgerPersists, LedgerGotoMoves DEF Ledger!Insert, Ledger!End, LedgerInv, LedgerInHand
    <2>4. LedgerSealed'
      BY <1>1, <2>1, LedgerPersists DEF Ledger!Insert, LedgerInv, LedgerSealed
    <2> QED
      BY <2>2, <2>3, <2>4 DEF LedgerInv
  <1>2. CASE ~ Ledger!Free(writer[w].row)
    BY <1>2, LedgerQuietSteps DEF Ledger!Insert, Ledger!End
  <1> QED
    BY <1>1, <1>2

\* What is written beside the events: seals that cover what they name, attestations of a new id.
LEMMA LedgerSealSteps ==
    ASSUME LedgerInv, NEW w \in LedgerWriters, Ledger!InsertSeal(w) \/ Ledger!Attest(w)
        \/ (\E i \in LedgerIds : \E s \in seals : Ledger!create(w, i, s))
    PROVE  LedgerInv'
  <1>1. /\ events' = events
        /\ \E step \in {"done", "attest"} : \E rec : Ledger!Goto(w, step, rec)
    BY DEF Ledger!InsertSeal, Ledger!Attest, Ledger!create, Ledger!End
  <1>2. LedgerChain'
    BY <1>1 DEF LedgerInv, LedgerChain, LedgerFollows, Ledger!Item
  <1>3. LedgerInHand'
    BY <1>1, LedgerPersists, LedgerGotoMoves DEF LedgerInv, LedgerInHand
  <1>4. LedgerSealed'
    <2>1. CASE Ledger!InsertSeal(w)
      <3>1. LedgerCovers(writer[w].row) /\ \A s : LedgerCovers(s) => LedgerCovers(s)'
        BY <1>1, <2>1, LedgerPersists DEF Ledger!InsertSeal, LedgerInv, LedgerInHand
      <3> QED
        BY <2>1, <3>1 DEF Ledger!InsertSeal, LedgerInv, LedgerSealed
    <2>2. CASE Ledger!Attest(w)
      BY <1>1, <2>2, LedgerPersists DEF Ledger!Attest, LedgerInv, LedgerSealed
    <2>3. CASE \E i \in LedgerIds : \E s \in seals : Ledger!create(w, i, s)
      BY <1>1, <2>3, LedgerPersists DEF Ledger!create, LedgerInv, LedgerSealed
    <2> QED
      BY <2>1, <2>2, <2>3
  <1> QED
    BY <1>2, <1>3, <1>4 DEF LedgerInv

\* At first nothing is recorded.
LEMMA LedgerInit == Ledger!Init => LedgerInv
  BY FS_EmptySet DEF Ledger!Init, Ledger!Idle, LedgerInv, LedgerChain, LedgerInHand, LedgerSealed

\* Every step keeps the invariant.
LEMMA LedgerStep == LedgerInv /\ [Ledger!Next]_Ledger!vars => LedgerInv'
  <1> SUFFICES ASSUME LedgerInv, [Ledger!Next]_Ledger!vars PROVE LedgerInv'
    OBVIOUS
  <1>1. CASE UNCHANGED Ledger!vars
    BY <1>1 DEF Ledger!vars, LedgerInv, LedgerChain, LedgerInHand, LedgerSealed, LedgerFollows,
       LedgerCovers, Ledger!Item
  <1>2. CASE Ledger!Next
    BY <1>2, LedgerAppendStep, LedgerFindSteps, LedgerInsertStep, LedgerSealStep, LedgerSealSteps
       DEF Ledger!Next
  <1> QED
    BY <1>1, <1>2

\* The fields of an event.
LedgerNamed(e) == e.id \in LedgerIds /\ e.key \in LedgerKeys /\ e.content \in LedgerContents

\* The calls that are over.
LedgerDone == {w \in LedgerWriters : writer[w].at = "done"}

\* What the types of the component say beside LedgerInv.  A call inserts one event at most, and is
\* over then.
LedgerShown ==
    /\ \A e \in events : LedgerNamed(e)
    /\ \A s \in seals : s.sealedAt \in LedgerWriters
    /\ \A x \in attestations : x.seal \in seals
    /\ \A w \in LedgerWriters :
          /\ writer[w].at \in {"find", "compare", "insert"} => LedgerNamed(writer[w].row)
          /\ writer[w].at \in {"seal", "insert_seal"} => writer[w].row.sealedAt \in LedgerWriters
          /\ writer[w].at = "attest" => writer[w].row.seal \in seals
    /\ Cardinality(events) <= Cardinality(LedgerDone)

\* The calls are finitely many, and so are those that are over, of which there is one more after w.
LEMMA LedgerCounts ==
    ASSUME LedgerInv, NEW w \in LedgerWriters, writer[w].at # "done", NEW step, NEW rec,
           Ledger!Goto(w, step, rec)
    PROVE  /\ Cardinality(LedgerDone) \in Nat /\ Cardinality(LedgerDone') \in Nat
           /\ Cardinality(LedgerDone) <= Cardinality(LedgerDone')
           /\ step = "done" => Cardinality(LedgerDone') = Cardinality(LedgerDone) + 1
  <1>1. IsFiniteSet(LedgerDone) /\ IsFiniteSet(LedgerDone')
    BY LedgerAssumption, FS_Subset DEF LedgerDone
  <1>2. LedgerDone' = IF step = "done" THEN LedgerDone \cup {w} ELSE LedgerDone
    BY LedgerGotoMoves DEF LedgerInv, LedgerDone
  <1>3. w \notin LedgerDone
    BY DEF LedgerDone
  <1>4. Cardinality(LedgerDone \cup {w}) = Cardinality(LedgerDone) + 1
    BY <1>1, <1>3, FS_AddElement
  <1>5. Cardinality(LedgerDone) \in Nat /\ Cardinality(LedgerDone') \in Nat
    BY <1>1, FS_CardinalityType
  <1> QED
    BY <1>2, <1>4, <1>5

\* A step that inserts nothing.
LEMMA LedgerMoves ==
    ASSUME LedgerInv, LedgerShown, NEW w \in LedgerWriters, writer[w].at # "done", NEW step, NEW rec,
           Ledger!Goto(w, step, rec), UNCHANGED events, seals \subseteq seals',
           \A s \in seals' : s.sealedAt \in LedgerWriters,
           \A x \in attestations' : x.seal \in seals',
           step \in {"find", "compare", "insert"} => LedgerNamed(rec),
           step \in {"seal", "insert_seal"} => rec.sealedAt \in LedgerWriters,
           step = "attest" => rec.seal \in seals
    PROVE  LedgerShown'
  <1>1. /\ writer'[w].at = step /\ writer'[w].row = rec
        /\ \A v \in LedgerWriters \ {w} : writer'[v] = writer[v]
    BY LedgerGotoMoves DEF LedgerInv
  <1>2. Cardinality(events') <= Cardinality(LedgerDone')
    <2>1. Cardinality(events) \in Nat
      BY FS_CardinalityType DEF LedgerInv, LedgerChain
    <2> QED
      BY <2>1, LedgerCounts DEF LedgerShown
  <1>3. \A v \in LedgerWriters :
          /\ writer'[v].at \in {"find", "compare", "insert"} => LedgerNamed(writer'[v].row)
          /\ writer'[v].at \in {"seal", "insert_seal"} => writer'[v].row.sealedAt \in LedgerWriters
          /\ writer'[v].at = "attest" => writer'[v].row.seal \in seals'
    BY <1>1 DEF LedgerShown
  <1>4. \A e \in events' : LedgerNamed(e)
    BY DEF LedgerShown
  <1> QED
    BY <1>2, <1>3, <1>4 DEF LedgerShown, LedgerNamed

\* Every step keeps the types.
LEMMA LedgerShows == ASSUME LedgerInv, LedgerShown, [Ledger!Next]_Ledger!vars PROVE LedgerShown'
  <1>1. ASSUME NEW w \in LedgerWriters, NEW i \in LedgerIds, NEW k \in LedgerKeys,
               NEW c \in LedgerContents, Ledger!append(w, i, k, c)
        PROVE  LedgerShown'
    <2>1. PICK step, rec : /\ Ledger!Goto(w, step, rec) /\ step \in {"find", "done"}
                           /\ step = "find" => rec \in events \/ (rec.id = i /\ rec.key = k
                               /\ rec.content = c)
      BY <1>1 DEF Ledger!append, Ledger!End
    <2>2. step = "find" => LedgerNamed(rec)
      BY <2>1 DEF LedgerShown, LedgerNamed
    <2>3. UNCHANGED <<events, seals, attestations>> /\ writer[w].at # "done"
      BY <1>1 DEF Ledger!append
    <2> QED
      BY <2>1, <2>2, <2>3, LedgerMoves DEF LedgerShown
  <1>2. ASSUME NEW w \in LedgerWriters, Ledger!FindId(w) \/ Ledger!Compare(w) PROVE LedgerShown'
    <2>1. LedgerNamed(writer[w].row)
      BY <1>2 DEF Ledger!FindId, Ledger!Compare, LedgerShown
    <2>2. UNCHANGED <<events, seals, attestations>> /\ writer[w].at # "done"
          /\ \E step \in {"compare", "insert", "done"} : \E rec : Ledger!Goto(w, step, rec)
                /\ (step # "done" => rec = writer[w].row)
      BY <1>2 DEF Ledger!FindId, Ledger!Compare, Ledger!End
    <2> QED
      BY <2>1, <2>2, LedgerMoves DEF LedgerShown
  <1>3. ASSUME NEW w \in LedgerWriters, Ledger!seal(w) PROVE LedgerShown'
    <2>1. UNCHANGED <<events, seals, attestations>> /\ writer[w].at # "done"
          /\ \E step \in {"seal", "done"} : \E rec : Ledger!Goto(w, step, rec)
                /\ (step # "done" => rec.sealedAt = w)
      BY <1>3 DEF Ledger!seal, Ledger!End
    <2> QED
      BY <2>1, LedgerMoves DEF LedgerShown
  <1>4. ASSUME NEW w \in LedgerWriters, Ledger!FindSeal(w) PROVE LedgerShown'
    <2>1. writer[w].row.sealedAt \in LedgerWriters
      BY <1>4 DEF Ledger!FindSeal, LedgerShown
    <2>2. UNCHANGED <<events, seals, attestations>> /\ writer[w].at # "done"
          /\ \E step \in {"insert_seal", "done"} : \E rec : Ledger!Goto(w, step, rec)
                /\ (step # "done" => rec = writer[w].row)
      BY <1>4 DEF Ledger!FindSeal, Ledger!End
    <2> QED
      BY <2>1, <2>2, LedgerMoves DEF LedgerShown
  <1>5. ASSUME NEW w \in LedgerWriters, Ledger!InsertSeal(w) PROVE LedgerShown'
    <2>1. writer[w].row.sealedAt \in LedgerWriters
      BY <1>5 DEF Ledger!InsertSeal, LedgerShown
    <2>2. UNCHANGED <<events, attestations>> /\ writer[w].at # "done" /\ Ledger!Goto(w, "done", None)
          /\ seals' \in {seals, seals \cup {writer[w].row}}
      BY <1>5 DEF Ledger!InsertSeal, Ledger!End
    <2>3. seals \subseteq seals' /\ \A s \in seals' : s.sealedAt \in LedgerWriters
      BY <2>1, <2>2 DEF LedgerShown
    <2> QED
      BY <2>2, <2>3, LedgerMoves DEF LedgerShown
  <1>6. ASSUME NEW w \in LedgerWriters, NEW i \in LedgerIds, NEW s \in seals, Ledger!create(w, i, s)
        PROVE  LedgerShown'
    <2>1. UNCHANGED <<events, seals, attestations>> /\ writer[w].at # "done"
          /\ \E rec : Ledger!Goto(w, "attest", rec) /\ rec.seal = s
      BY <1>6 DEF Ledger!create
    <2> QED
      BY <2>1, LedgerMoves DEF LedgerShown
  <1>7. ASSUME NEW w \in LedgerWriters, Ledger!Attest(w) PROVE LedgerShown'
    <2>1. writer[w].row.seal \in seals
      BY <1>7 DEF Ledger!Attest, LedgerShown
    <2>2. UNCHANGED <<events, seals>> /\ writer[w].at # "done" /\ Ledger!Goto(w, "done", None)
          /\ attestations' \in {attestations, attestations \cup {writer[w].row}}
      BY <1>7 DEF Ledger!Attest, Ledger!End
    <2>3. \A x \in attestations' : x.seal \in seals'
      BY <2>1, <2>2 DEF LedgerShown
    <2> QED
      BY <2>2, <2>3, LedgerMoves DEF LedgerShown
  <1>8. ASSUME NEW w \in LedgerWriters, Ledger!Insert(w) PROVE LedgerShown'
    <2> PICK e : e = writer[w].row
      OBVIOUS
    <2>1. UNCHANGED <<seals, attestations>> /\ writer[w].at # "done" /\ Ledger!Goto(w, "done", None)
          /\ LedgerNamed(e)
      BY <1>8 DEF Ledger!Insert, Ledger!End, LedgerShown
    <2>2. CASE events' = events
      BY <2>1, <2>2, LedgerMoves DEF LedgerShown
    <2>3. CASE events' = events \cup {e} /\ e \notin events
      <3>1. /\ writer'[w].at = "done"
            /\ \A v \in LedgerWriters \ {w} : writer'[v] = writer[v]
        BY <2>1, LedgerGotoMoves DEF LedgerInv
      <3>2. Cardinality(events') <= Cardinality(LedgerDone')
        <4>1. Cardinality(events) \in Nat /\ Cardinality(events') = Cardinality(events) + 1
          BY <2>3, FS_CardinalityType, FS_AddElement DEF LedgerInv, LedgerChain
        <4>2. Cardinality(LedgerDone) \in Nat /\ Cardinality(LedgerDone') = Cardinality(LedgerDone) + 1
          BY <2>1, LedgerCounts
        <4> QED
          BY <4>1, <4>2 DEF LedgerShown
      <3>3. \A v \in LedgerWriters :
              /\ writer'[v].at \in {"find", "compare", "insert"} => LedgerNamed(writer'[v].row)
              /\ writer'[v].at \in {"seal", "insert_seal"} => writer'[v].row.sealedAt \in LedgerWriters
              /\ writer'[v].at = "attest" => writer'[v].row.seal \in seals'
        BY <2>1, <3>1 DEF LedgerShown
      <3>4. \A d \in events' : LedgerNamed(d)
        BY <2>1, <2>3 DEF LedgerShown
      <3> QED
        BY <2>1, <3>2, <3>3, <3>4 DEF LedgerShown, LedgerNamed
    <2> QED
      BY <1>8, <2>2, <2>3 DEF Ledger!Insert, Ledger!Free
  <1>9. CASE UNCHANGED Ledger!vars
    BY <1>9 DEF Ledger!vars, LedgerShown, LedgerNamed, LedgerDone
  <1> QED
    BY <1>1, <1>2, <1>3, <1>4, <1>5, <1>6, <1>7, <1>8, <1>9 DEF Ledger!Next

\* Both invariants together are the types of the component.
LEMMA LedgerTypes ==
    /\ Ledger!Init => LedgerShown
    /\ LedgerInv /\ LedgerShown => Ledger!TypeOK
  <1>1. IsFiniteSet(LedgerDone) /\ Cardinality(LedgerDone) \in Nat
        /\ Cardinality(LedgerDone) <= Cardinality(LedgerWriters) /\ Cardinality(LedgerWriters) \in Nat
    BY LedgerAssumption, FS_Subset, FS_CardinalityType DEF LedgerDone
  <1>2. ASSUME Ledger!Init PROVE LedgerShown
    BY <1>1, <1>2, FS_EmptySet DEF Ledger!Init, Ledger!Idle, LedgerShown
  <1>3. ASSUME LedgerInv, LedgerShown PROVE Ledger!TypeOK
    <2>1. Cardinality(events) \in Nat
      BY <1>3, FS_CardinalityType DEF LedgerInv, LedgerChain
    <2>2. \A e \in events : e.sequence \in 1 .. Cardinality(LedgerWriters)
      BY <1>1, <1>3, <2>1 DEF LedgerInv, LedgerChain, LedgerShown
    <2> QED
      BY <1>3, <2>2, LedgerCardinality DEF LedgerShown, LedgerNamed, Ledger!TypeOK
  <1> QED
    BY <1>2, <1>3

\* The behaviours are those of the component, or leave it as it is.
LEMMA LedgerBehaves == Behaviours => Ledger!Spec
  <1>1. Start => Ledger!Init
    BY DEF Start
  <1>2. [Step]_everything => [Ledger!Next]_Ledger!vars
    BY DEF Step, everything, audit_vars, Ledger!vars
  <1> QED
    BY <1>1, <1>2, PTL DEF Behaviours, Ledger!Spec

\* Appends, seals and attestations that overlap in READ COMMITTED transactions leave one chain of
\* events with one event for an id and a key, seals that have the digest of what they name, and
\* everything a caller was told is recorded.
THEOREM LedgersAreSafe == Behaviours => []LedgerIsSafe
  <1>1. LedgerInv => LedgerIsSafe
    BY LedgerChainIsChained DEF LedgerInv, LedgerChain, LedgerSealed, LedgerCovers, LedgerIsSafe,
                                Ledger!LedgerIsSafe
  <1>2. LedgerInv /\ [Ledger!Next]_Ledger!vars => LedgerInv'
    BY LedgerStep
  <1> QED
    BY <1>1, <1>2, LedgerInit, LedgerBehaves, PTL DEF Ledger!Spec

-----------------------------------------------------------------------------
(* SessionRefresh, whose proofs have a module of their own.                 *)

\* What the sessions keep with each kind of client.
SessionsInv ==
    /\ scenario = "web" => Web!SessionInv /\ Web!AccessInv
    /\ scenario = "desktop" => Desktop!SessionInv
    /\ scenario = "android" => Android!SessionInv /\ Android!MobileInv

\* What is assumed of the constants of one is true of all.
LEMMA SessionsNamed == Web!SessionConstants /\ Desktop!SessionConstants /\ Android!SessionConstants
  <1>1. Desktop!SessionConstants
    <2>1. /\ Desktop!Names = Web!Names
          /\ Desktop!Sessions = Web!Sessions
      BY DEF Desktop!Names, Web!Names, Desktop!Sessions, Web!Sessions, Desktop!Reasons, Web!Reasons
    <2>2. /\ Desktop!RowNames = Web!RowNames
          /\ Desktop!Pairs = Web!Pairs
      BY <2>1 DEF Desktop!RowNames, Web!RowNames, Desktop!Pairs, Web!Pairs, Desktop!TokenStates,
         Web!TokenStates
    <2>3. Desktop!IsFiniteSet(SessionCalls) <=> Web!IsFiniteSet(SessionCalls)
      BY Zenon DEF Desktop!IsFiniteSet, Web!IsFiniteSet
    <2> QED
      BY <2>1, <2>2, <2>3, SessionAssumption DEF Web!SessionConstants, Desktop!SessionConstants
  <1>2. Android!SessionConstants
    <2>1. /\ Android!Names = Web!Names
          /\ Android!Sessions = Web!Sessions
      BY DEF Android!Names, Web!Names, Android!Sessions, Web!Sessions, Android!Reasons, Web!Reasons
    <2>2. /\ Android!RowNames = Web!RowNames
          /\ Android!Pairs = Web!Pairs
      BY <2>1 DEF Android!RowNames, Web!RowNames, Android!Pairs, Web!Pairs, Android!TokenStates,
         Web!TokenStates
    <2>3. Android!IsFiniteSet(SessionCalls) <=> Web!IsFiniteSet(SessionCalls)
      BY Zenon DEF Android!IsFiniteSet, Web!IsFiniteSet
    <2> QED
      BY <2>1, <2>2, <2>3, SessionAssumption DEF Web!SessionConstants, Android!SessionConstants
  <1> QED
    BY <1>1, <1>2, SessionAssumption

\* The behaviours begin with one session and one pair, whatever the client.
LEMMA SessionsBegin == Start => SessionsInv
  <1> SUFFICES ASSUME Start PROVE SessionsInv
    OBVIOUS
  <1>1. Web!Init
    BY DEF Start
  <1>2. Desktop!Init
    <2>1. Desktop!Names = Web!Names /\ Desktop!Idle = Web!Idle
      BY DEF Desktop!Names, Web!Names, Desktop!Idle, Web!Idle
    <2> QED
      BY <1>1, <2>1 DEF Web!Init, Desktop!Init, Web!NewSession, Desktop!NewSession, Web!NewPair,
         Desktop!NewPair
  <1>3. Android!Init
    <2>1. Android!Names = Web!Names /\ Android!Idle = Web!Idle
      BY DEF Android!Names, Web!Names, Android!Idle, Web!Idle
    <2> QED
      BY <1>1, <2>1 DEF Web!Init, Android!Init, Web!NewSession, Android!NewSession, Web!NewPair,
         Android!NewPair
  <1> QED
    BY <1>1, <1>2, <1>3, SessionsNamed, Web!SessionInit, Web!AccessInit, Desktop!SessionInit,
       Android!SessionInit, Android!MobileInit DEF SessionsInv

\* A step of the behaviours is one of the sessions with the client of the scenario, or leaves them
\* as they are.
LEMMA SessionsStep ==
    [Step]_everything =>
        /\ scenario' = scenario
        /\ scenario = "web" => [Web!Next]_Web!vars
        /\ scenario = "desktop" => [Desktop!Next]_Desktop!vars
        /\ scenario = "android" => [Android!Next]_Android!vars
  BY DEF Step, everything, session_vars, Web!vars, Desktop!vars, Android!vars

\* Every step keeps what the scenario has to keep.
LEMMA SessionsStay == SessionsInv /\ [Step]_everything => SessionsInv'
  <1> SUFFICES ASSUME SessionsInv, [Step]_everything PROVE SessionsInv'
    OBVIOUS
  <1>1. scenario' = scenario
    BY SessionsStep
  <1>2. ASSUME scenario = "web" PROVE Web!SessionInv' /\ Web!AccessInv'
    <2>1. Web!SessionInv /\ Web!AccessInv /\ [Web!Next]_Web!vars
      BY <1>2, SessionsStep DEF SessionsInv
    <2>2. Web!SessionInv'
      BY <2>1, SessionsNamed, Web!SessionStep
    <2> QED
      BY <2>1, <2>2, SessionsNamed, Web!AccessStep
  <1>3. ASSUME scenario = "desktop" PROVE Desktop!SessionInv'
    <2>1. Desktop!SessionInv /\ [Desktop!Next]_Desktop!vars
      BY <1>3, SessionsStep DEF SessionsInv
    <2> QED
      BY <2>1, SessionsNamed, Desktop!SessionStep
  <1>4. ASSUME scenario = "android" PROVE Android!SessionInv' /\ Android!MobileInv'
    <2>1. Android!SessionInv /\ Android!MobileInv /\ [Android!Next]_Android!vars
      BY <1>4, SessionsStep DEF SessionsInv
    <2>2. Android!SessionInv'
      BY <2>1, SessionsNamed, Android!SessionStep
    <2> QED
      BY <2>1, <2>2, SessionsNamed, Android!MobileStep DEF Android!PhoneOps
  <1> QED
    BY <1>1, <1>2, <1>3, <1>4 DEF SessionsInv

\* However refreshes, sign-outs, switches and recoveries overlap: an access token that a web client
\* has ends with its session; a refresh token is used once, and no two calls wait for each other's
\* rows; and no family of a device that stores its pair first is revoked for a reuse of its own.
THEOREM SessionsHold == Behaviours => []SessionsAreSafe
  <1>1. SessionsInv => SessionsAreSafe
    BY Desktop!NobodyWaitsForEver
       DEF SessionsInv, SessionsAreSafe, Web!AccessInv, Desktop!SessionInv, Android!MobileInv
  <1> QED
    BY <1>1, SessionsBegin, SessionsStay, PTL DEF Behaviours

-----------------------------------------------------------------------------
(* SyncRevocation: the workers of an application that builds its runtime    *)
(* again and again, while WorkManager keeps the guard it was given.         *)

\* Before WorkManager has a factory nothing runs.
RuntimeRuns == factory = 0 => \A k \in RuntimeWorkers : worker[k] \in {"idle", "queued"}

\* Who waits for the mutex has set the mark, and waits in the guard of his own runtime.
RuntimeMarked == user = "waiting" => revoked /\ signer = runtime

\* The inductive invariant: the types, and the three facts that the property rests on.
RuntimeInv == Runtime!TypeOK /\ RuntimeRuns /\ RuntimeMarked /\ Runtime!SignOutIsQuiet

\* At first the user is in, and nothing was begun.
LEMMA RuntimeInit == ASSUME Runtime!Init PROVE RuntimeInv
  <1>1. Runtime!TypeOK
    <2>1. runtime \in Runtime!Runtimes /\ factory \in Runtime!Runtimes \cup {0}
              /\ signer \in Runtime!Runtimes \cup {0} /\ restarts \in 0 .. RuntimeMaxRestarts
      BY RuntimeAssumption DEF Runtime!Init, Runtime!Runtimes
    <2>2. revoked \in BOOLEAN
      BY Zenon DEF Runtime!Init
    <2>3. worker \in [RuntimeWorkers -> {"idle", "queued", "started", "permit", "transport"}]
      BY DEF Runtime!Init
    <2>4. user \in {"in", "leaving", "waiting", "clearing", "out"}
      BY DEF Runtime!Init
    <2> QED
      BY <2>1, <2>2, <2>3, <2>4, Zenon DEF Runtime!TypeOK
  <1>2. RuntimeRuns /\ Runtime!SignOutIsQuiet
    BY DEF Runtime!Init, RuntimeRuns, Runtime!SignOutIsQuiet
  <1>3. RuntimeMarked
    BY DEF Runtime!Init, RuntimeMarked
  <1> QED
    BY <1>1, <1>2, <1>3 DEF RuntimeInv

\* Work of one worker: what is under way may end, and under the mark nothing new begins.
LEMMA RuntimeWorks ==
    ASSUME RuntimeInv, NEW k \in RuntimeWorkers, Runtime!enqueue(k) \/ Runtime!Work(k) PROVE RuntimeInv'
  <1> USE DEF RuntimeInv, Runtime!TypeOK, RuntimeRuns, RuntimeMarked, Runtime!SignOutIsQuiet,
          Runtime!Runtimes
  <1>1. CASE Runtime!enqueue(k)
    BY <1>1 DEF Runtime!enqueue
  <1>2. CASE Runtime!Start(k)
    BY <1>2 DEF Runtime!Start
  <1>3. CASE Runtime!Lock(k)
    BY <1>3 DEF Runtime!Lock, Runtime!Free
  <1>4. CASE Runtime!withPermit(k)
    BY <1>4 DEF Runtime!withPermit
  <1>5. CASE Runtime!Finish(k)
    BY <1>5 DEF Runtime!Finish
  <1> QED
    BY <1>1, <1>2, <1>3, <1>4, <1>5 DEF Runtime!Work

\* The application: the wait ends only when no worker holds the mutex of the runtime that waits.
LEMMA RuntimeGoesOn ==
    ASSUME RuntimeInv, Runtime!signOut \/ Runtime!SignOut \/ Runtime!signIn
        \/ Runtime!persistDeviceEnrollment
    PROVE  RuntimeInv'
  <1> USE DEF RuntimeInv, Runtime!TypeOK, RuntimeRuns, RuntimeMarked, Runtime!SignOutIsQuiet,
          Runtime!Runtimes
  <1>1. CASE Runtime!signOut
    BY <1>1 DEF Runtime!signOut
  <1>2. CASE Runtime!revoke
    BY <1>2 DEF Runtime!revoke
  <1>3. CASE Runtime!AwaitInFlight
    <2>1. factory = signer => \A k \in RuntimeWorkers : worker[k] # "transport"
      BY <1>3 DEF Runtime!AwaitInFlight, Runtime!Free, Runtime!Holds
    <2> QED
      BY <1>3, <2>1 DEF Runtime!AwaitInFlight
  <1>4. CASE Runtime!ClearScope
    BY <1>4, RuntimeAssumption DEF Runtime!ClearScope
  <1>5. CASE Runtime!signIn \/ Runtime!persistDeviceEnrollment
    BY <1>5, RuntimeAssumption DEF Runtime!signIn, Runtime!persistDeviceEnrollment
  <1> QED
    BY <1>1, <1>2, <1>3, <1>4, <1>5 DEF Runtime!SignOut

\* After a restart nothing is under way, whatever was interrupted.
LEMMA RuntimeRestarts == ASSUME RuntimeInv, Runtime!Restart PROVE RuntimeInv'
  BY RuntimeAssumption DEF Runtime!Restart, RuntimeInv, Runtime!TypeOK, RuntimeRuns, RuntimeMarked,
     Runtime!SignOutIsQuiet

\* Every step keeps the invariant.
LEMMA RuntimeStep == RuntimeInv /\ [Runtime!Next]_Runtime!vars => RuntimeInv'
  <1> SUFFICES ASSUME RuntimeInv, [Runtime!Next]_Runtime!vars PROVE RuntimeInv'
    OBVIOUS
  <1>1. CASE UNCHANGED Runtime!vars
    BY <1>1 DEF Runtime!vars, RuntimeInv, Runtime!TypeOK, RuntimeRuns, RuntimeMarked,
       Runtime!SignOutIsQuiet
  <1>2. CASE Runtime!Next
    BY <1>2, RuntimeWorks, RuntimeGoesOn, RuntimeRestarts DEF Runtime!Next
  <1> QED
    BY <1>1, <1>2

\* The behaviours are those of the component, or leave it as it is.
LEMMA RuntimeBehaves == Behaviours => Runtime!Spec
  <1>1. Start => Runtime!Init
    BY DEF Start
  <1>2. [Step]_everything => [Runtime!Next]_Runtime!vars
    BY DEF Step, everything, runtime_vars, Runtime!vars
  <1> QED
    BY <1>1, <1>2, PTL DEF Behaviours, Runtime!Spec

\* However many runtimes are built, and whenever the process dies: nothing runs before WorkManager
\* has a factory, and who waits for the mutex has set the mark and waits in his own guard.
THEOREM RuntimesAreMarked == Behaviours => []RuntimeInv
  <1>1. Runtime!Init => RuntimeInv
    BY RuntimeInit
  <1> QED
    BY <1>1, RuntimeStep, RuntimeBehaves, PTL DEF Runtime!Spec

\* However many runtimes are built: from the end of the wait on nothing is sent for a user who has
\* signed out, unless WorkManager runs it under the guard of another runtime than the one that did.
THEOREM SignedOutIsQuiet == Behaviours => []SignOutIsQuiet
  <1>1. RuntimeInv => SignOutIsQuiet
    BY DEF RuntimeInv, SignOutIsQuiet
  <1> QED
    BY <1>1, RuntimesAreMarked, PTL

-----------------------------------------------------------------------------
(* Types, whatever the scenario.                                            *)

\* The behaviours have the scenario they begin with, and JobAdmission has its types in them.
LEMMA ScenarioTypes ==
    Behaviours => [](/\ scenario \in {"web", "desktop", "android", "usage", "payments", "device",
                                      "runtime", "admission", "upload", "audit"}
                     /\ AdmissionInv)
  <1> DEFINE Inv == /\ scenario \in {"web", "desktop", "android", "usage", "payments", "device",
                                     "runtime", "admission", "upload", "audit"}
                    /\ AdmissionInv
  <1>1. Start => Inv
    BY AdmissionInit DEF Start
  <1>2. Inv /\ [Step]_everything => Inv'
    <2> SUFFICES ASSUME Inv, [Step]_everything PROVE Inv'
      OBVIOUS
    <2>1. scenario' = scenario /\ [Next]_vars
      BY DEF Step, everything
    <2> QED
      BY <2>1, AdmissionStep
  <1> QED
    BY <1>1, <1>2, PTL DEF Behaviours

\* The sessions keep their types with each kind of client.
LEMMA SessionTypes ==
    Behaviours => [](/\ scenario = "web" => Web!TypeOK
                     /\ scenario = "desktop" => Desktop!TypeOK
                     /\ scenario = "android" => Android!TypeOK)
  <1>1. SessionsInv => /\ scenario = "web" => Web!TypeOK
                       /\ scenario = "desktop" => Desktop!TypeOK
                       /\ scenario = "android" => Android!TypeOK
    BY DEF SessionsInv, Web!SessionInv, Desktop!SessionInv, Android!SessionInv
  <1> QED
    BY <1>1, SessionsBegin, SessionsStay, PTL DEF Behaviours

\* The quota and the reservations keep their types.
LEMMA QuotaTypes == Behaviours => []Usage!TypeOK
  <1>1. Usage!Spec => []Usage!TypeOK
    BY UsageAssumption, Usage!UsageTypeOK
  <1> QED
    BY <1>1, UsageBehaves, PTL

\* Orders, webhooks and the subscription keep their types.
LEMMA PayTypes == Behaviours => []Pay!TypeOK
  <1>1. PayInv => Pay!TypeOK
    BY DEF PayInv
  <1>2. PayInv /\ [Pay!Next]_Pay!vars => PayInv'
    BY PayStep
  <1> QED
    BY <1>1, <1>2, PayInit, PayBehaves, PTL DEF Pay!Spec

\* The queue of a device and the requests under way keep their types.
LEMMA DeviceTypes == Behaviours => []Device!TypeOK
  <1>1. DeviceInv => Device!TypeOK
    BY DEF DeviceInv
  <1> QED
    BY <1>1, DeviceInvariant, DeviceBehaves, PTL

\* Users, workers and the mark of the revocation keep their types.
LEMMA RuntimeTypes == Behaviours => []Runtime!TypeOK
  <1>1. RuntimeInv => Runtime!TypeOK
    BY DEF RuntimeInv
  <1> QED
    BY <1>1, RuntimesAreMarked, PTL

\* The artifact's row, its parts and what was published keep their types.
LEMMA UploadKeepsTypes == Behaviours => []Upload!TypeOK
  <1>1. Upload!Init => UploadInv /\ UploadShown
    BY UploadInit, UploadTypes
  <1>2. UploadInv /\ UploadShown /\ [Upload!Next]_Upload!vars => UploadInv' /\ UploadShown'
    BY UploadStep, UploadShows
  <1>3. UploadInv /\ UploadShown => Upload!TypeOK
    BY UploadTypes
  <1> QED
    BY <1>1, <1>2, <1>3, UploadBehaves, PTL DEF Upload!Spec

\* Events, seals and attestations keep their types.
LEMMA LedgerKeepsTypes == Behaviours => []Ledger!TypeOK
  <1>1. Ledger!Init => LedgerInv /\ LedgerShown
    BY LedgerInit, LedgerTypes
  <1>2. LedgerInv /\ LedgerShown /\ [Ledger!Next]_Ledger!vars => LedgerInv' /\ LedgerShown'
    BY LedgerStep, LedgerShows
  <1>3. LedgerInv /\ LedgerShown => Ledger!TypeOK
    BY LedgerTypes
  <1> QED
    BY <1>1, <1>2, <1>3, LedgerBehaves, PTL DEF Ledger!Spec

\* Whatever the scenario, every variable has its type: no step of any component, in any number and
\* order, leaves a row, a revision or a counter outside the bounds the code and the schema give it.
THEOREM TypesHold == Behaviours => []TypesOK
  <1> DEFINE Known == scenario \in {"web", "desktop", "android", "usage", "payments", "device",
                                   "runtime", "admission", "upload", "audit"}
             Sessions == /\ scenario = "web" => Web!TypeOK
                         /\ scenario = "desktop" => Desktop!TypeOK
                         /\ scenario = "android" => Android!TypeOK
  <1>1. /\ Known /\ AdmissionInv /\ Sessions /\ Usage!TypeOK /\ Pay!TypeOK /\ Device!TypeOK
        /\ Runtime!TypeOK /\ Upload!TypeOK /\ Ledger!TypeOK
        => TypesOK
    BY DEF AdmissionInv, TypesOK
  <1> QED
    BY <1>1, ScenarioTypes, SessionTypes, QuotaTypes, PayTypes, DeviceTypes, RuntimeTypes,
       UploadKeepsTypes, LedgerKeepsTypes, PTL
==============================================================================
