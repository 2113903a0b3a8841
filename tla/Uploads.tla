-------------------------------- MODULE Uploads --------------------------------
(***************************************************************************)
(* Uploading one file in chunks: the client sends one chunk after the      *)
(* other, each again when its answer fails to come (cabinet.js), and the   *)
(* server writes each into a part and, after the last, all parts into the  *)
(* file that is named in the answer (uploads.go).  A request or an answer  *)
(* is lost, and the handler of a request that was given up goes on beside  *)
(* that of the next: it may create its part, which makes it empty, when    *)
(* the part of the next has been written, or its chunk merged.             *)
(***************************************************************************)
EXTENDS Integers, FiniteSets

CONSTANTS
  Submissions,  \* what the files are uploaded for; one file of each at a time
  Chunks,       \* the chunks of a file
  Attempts      \* how often a chunk is sent

ASSUME UploadsAssumption == Chunks \in Nat \ {0} /\ Attempts \in Nat \ {0}

VARIABLE uploads

(***************************************************************************)
(* by: the attempt that created the part last and has not written it yet,  *)
(* else 0.  data: whether it is whole, or torn by who created it last;     *)
(* "late" is history, the same as torn when that one had been given up.    *)
(***************************************************************************)
Data == {"whole", "late", "torn"}

Part == [by : 0..Attempts, data : Data]

NoPart == [by |-> 0, data |-> "torn"]

Worse(a, b) == CASE "torn" \in {a, b} -> "torn"
                 [] "torn" \notin {a, b} /\ "late" \in {a, b} -> "late"
                 [] {a, b} = {"whole"} -> "whole"

(***************************************************************************)
(* next, data: the part that is merged next, and the worst of those before *)
(* it.  "ok" is an answer on its way.                                      *)
(***************************************************************************)
Handler == [chunk : 0..Chunks - 1, attempt : 1..Attempts,
            step : {"create", "write", "lock", "merge", "ok"},
            next : 0..Chunks, data : Data]

Upload == [chunk : 0..Chunks - 1, attempt : 1..Attempts, sent : BOOLEAN,
           parts : [0..Chunks - 1 -> Part], handlers : SUBSET Handler]

NewUpload == [chunk |-> 0, attempt |-> 1, sent |-> FALSE,
              parts |-> [c \in 0..Chunks - 1 |-> NoPart], handlers |-> {}]

NoUpload == [NewUpload EXCEPT !.attempt = 0]

Started(s) == uploads[s] # NoUpload

IsLast(chunk) == chunk = Chunks - 1

-----------------------------------------------------------------------------
(***************************************************************************)
(* The next attempt is sent, and lost or received: its handler reads the   *)
(* form and opens the chunk in it.                                         *)
(***************************************************************************)
SendChunk(s) ==
  LET u == uploads[s]
      lost == [u EXCEPT !.sent = TRUE]
      received == [lost EXCEPT !.handlers = @ \cup
                    {[chunk |-> u.chunk, attempt |-> u.attempt, step |-> "create",
                      next |-> 0, data |-> "whole"]}]
  IN /\ Started(s) /\ ~u.sent
     /\ uploads' \in {[uploads EXCEPT ![s] = v] : v \in {received, lost}}

(***************************************************************************)
(* Upload u when its handler h becomes g, or answers with an error.        *)
(* Nobody waits for the answer of an attempt that is not the latest.       *)
(***************************************************************************)
Awaited(u, h) == u.sent /\ h.chunk = u.chunk /\ h.attempt = u.attempt

Becomes(u, h, g) ==
  [u EXCEPT !.handlers = (@ \ {h}) \cup
    (IF g.step = "ok" /\ ~Awaited(u, h) THEN {} ELSE {g})]

Ends(u, h) == [u EXCEPT !.handlers = @ \ {h}]

(***************************************************************************)
(* os.Create empties the part that is there.                               *)
(***************************************************************************)
CreatePart(s, h) ==
  LET u == uploads[s]
      part == [by |-> h.attempt, data |-> IF Awaited(u, h) THEN "torn" ELSE "late"]
  IN /\ h \in u.handlers /\ h.step = "create"
     /\ uploads' = [uploads EXCEPT ![s] =
          Becomes([u EXCEPT !.parts[h.chunk] = part], h, [h EXCEPT !.step = "write"])]

(***************************************************************************)
(* The part is whole when the one who created it last has written it.      *)
(***************************************************************************)
WriteChunk(s, h) ==
  LET u == uploads[s]
      written == IF u.parts[h.chunk].by = h.attempt
                 THEN [u EXCEPT !.parts[h.chunk] = [by |-> 0, data |-> "whole"]] ELSE u
  IN /\ h \in u.handlers /\ h.step = "write"
     /\ uploads' = [uploads EXCEPT ![s] =
          Becomes(written, h, [h EXCEPT !.step = IF IsLast(h.chunk) THEN "lock" ELSE "ok"])]

(***************************************************************************)
(* mergeLock lets one handler merge at a time.  It fails at a part that is *)
(* not there, and removes those it has read.                               *)
(***************************************************************************)
Lock(s, h) ==
  /\ h \in uploads[s].handlers /\ h.step = "lock"
  /\ \A r \in Submissions : \A g \in uploads[r].handlers : g.step # "merge"
  /\ uploads' = [uploads EXCEPT ![s] = Becomes(@, h, [h EXCEPT !.step = "merge"])]

Read(h, part) == [h EXCEPT !.next = @ + 1, !.data = Worse(@, part.data),
                           !.step = IF IsLast(h.next) THEN "ok" ELSE @]

MutMerge(s, h) ==
  LET u == uploads[s]
      part == u.parts[h.next]
  IN /\ h \in u.handlers /\ h.step = "merge"
     /\ uploads' = [uploads EXCEPT ![s] =
          Becomes([u EXCEPT !.parts[h.next] = NoPart], h, Read(h, part))]

Merge(s, h) ==
  LET u == uploads[s]
      part == u.parts[h.next]
  IN /\ h \in u.handlers /\ h.step = "merge" /\ part # NoPart
     /\ uploads' = [uploads EXCEPT ![s] =
          Becomes([u EXCEPT !.parts[h.next] = NoPart], h, Read(h, part))]

(***************************************************************************)
(* A part or a file cannot be opened, created or written: the parts stay   *)
(* as they are, but one that was being copied is removed all the same.     *)
(* The client learns nothing it could use.                                 *)
(***************************************************************************)
HandlerFails(s, h) ==
  LET u == uploads[s]
      removed == [u EXCEPT !.parts[h.next] = NoPart]
  IN /\ h \in u.handlers /\ h.step # "ok"
     /\ \/ uploads' = [uploads EXCEPT ![s] = Ends(u, h)]
        \/ h.step = "merge" /\ uploads' = [uploads EXCEPT ![s] = Ends(removed, h)]

-----------------------------------------------------------------------------
(***************************************************************************)
(* What the client is told: that the chunk is there, or nothing it can     *)
(* use.  It waits a second before the next attempt.                        *)
(***************************************************************************)
Unanswered(u) == {h \in u.handlers : h.step # "ok"}

ChunkAccepted(s, h) ==
  /\ h \in uploads[s].handlers /\ h.step = "ok" /\ ~IsLast(h.chunk)
  /\ uploads' = [uploads EXCEPT ![s] =
       [uploads[s] EXCEPT !.chunk = @ + 1, !.attempt = 1, !.sent = FALSE,
                          !.handlers = Unanswered(uploads[s])]]

ChunkFails(s) ==
  /\ uploads[s].sent /\ uploads[s].attempt < Attempts
  /\ uploads' = [uploads EXCEPT ![s] =
       [uploads[s] EXCEPT !.attempt = @ + 1, !.sent = FALSE,
                          !.handlers = Unanswered(uploads[s])]]

UploadStep(s) ==
  \/ SendChunk(s)
  \/ \E h \in uploads[s].handlers :
       \/ CreatePart(s, h) \/ WriteChunk(s, h) \/ Lock(s, h) \/ Merge(s, h)
       \/ HandlerFails(s, h) \/ ChunkAccepted(s, h)
  \/ ChunkFails(s)
=============================================================================
