--------------------------- MODULE CachedDownload ---------------------------
(***************************************************************************)
(* Downloads of one file through the HTTP cache: the download and its sink *)
(* (launcher/net/Download.cpp, FileSink.cpp, MetaCacheSink.cpp), and the   *)
(* cache entry that says what the file holds (HttpMetaCache.cpp).          *)
(*                                                                         *)
(* The server's file has versions 1, 2, ..., which also stand for its ETag *)
(* and its Last-Modified date.  The contents of a file are the pieces it   *)
(* arrived in, and a checksum is the contents it was computed from.  A     *)
(* file system stamp is reduced to whether an entry's stamp is that of the *)
(* file.  Several downloads, of several jobs, may be under way at once;    *)
(* entries are shared pointers, so two of them may have the same one.      *)
(***************************************************************************)
EXTENDS Naturals, Sequences, FiniteSets

CONSTANTS
  Downloads,     \* the download objects
  MaxVersion,    \* bound on the versions of the server's file
  MaxRedirects,  \* kMaxRedirects
  Fallbacks,     \* the values of Option::AcceptLocalFiles in use
  WriteFaults,   \* writes that may fail: "chunk", "rest", "commit"
  Tampers,       \* what others may do to the file: "removed", "replaced"
  Junk,          \* a piece that is not of the server's file
  NoFile,        \* no file, or no temporary file
  NoEntry,       \* a null pointer to a cache entry, or no entry in the index
  NoReply,       \* a null m_reply
  Unknown        \* an empty checksum or ETag

ASSUME CachedDownloadAssumption ==
  /\ IsFiniteSet(Downloads) /\ Downloads # {}
  /\ MaxVersion \in Nat \ {0}
  /\ MaxRedirects \in Nat
  /\ Fallbacks \subseteq BOOLEAN
  /\ WriteFaults \subseteq {"chunk", "rest", "commit"}
  /\ Tampers \subseteq {"removed", "replaced"}

Versions == 1..MaxVersion
Pieces == (Versions \X {1, 2}) \cup {Junk}
Contents == Seq(Pieces)
Whole(v) == << <<v, 1>>, <<v, 2>> >>
IsWhole(c) == \E v \in Versions : c = Whole(v)

\* MetaEntry: `current` says that local_changed_timestamp is the file's stamp.
Entry == [stale : BOOLEAN, md5 : Contents \cup {Unknown},
          etag : Versions \cup {Unknown}, current : BOOLEAN]
StaleEntry == [stale |-> TRUE, md5 |-> Unknown, etag |-> Unknown, current |-> FALSE]

\* As many entries as downloads hold; the map has one of them, or the only one
\* nobody else holds.
EntryIds == 1..Cardinality(Downloads)

\* `since` is the server's version when the download was started, and `dirty` says
\* that the temporary file already held the body of a redirect when this request
\* was sent (both history).
Reply == [since : Versions, dirty : BOOLEAN, asked : Versions \cup {Unknown},
          head : {"none", "200", "304", "redirect", "error"},
          version : Versions \cup {Unknown}, left : Contents, failed : BOOLEAN]

ASSUME CachedDownloadValues ==
  /\ NoFile \notin Contents
  /\ Unknown \notin Contents \cup Versions \cup {NoFile}
  /\ NoEntry \notin EntryIds \cup Entry
  /\ NoReply \notin Reply

VARIABLES
  server,     \* the version of the file on the server
  file,       \* the contents of the file
  map,        \* the entry in m_entries
  entries,    \* the entries in memory
  saved,      \* the entry in the index file
  saveTimer,  \* is saveBatchingTimer running?
  entry,      \* MetaCacheSink::m_entry
  local,      \* is Option::AcceptLocalFiles set?
  status,     \* m_status
  reply,      \* m_reply
  redirects,  \* m_redirect_count
  output,     \* FileSink::m_output_file: what was written to the QSaveFile
  answer,     \* the last signal of a download
  tampered,   \* has somebody else changed the file since the entry of the download
              \* was resolved? (history)
  spoilt      \* was the file last put in place, or vouched for, in one of the ways
              \* that do not look at it? (history)

cacheVars == <<map, entries, saved, saveTimer>>
downloadVars == <<entry, local, status, reply, redirects, output, answer>>
fileVars == <<file, tampered, spoilt>>
vars == <<server, fileVars, cacheVars, downloadVars>>

TypeOK ==
  /\ server \in Versions
  /\ file \in Contents \cup {NoFile}
  /\ map \in EntryIds \cup {NoEntry}
  /\ entries \in [EntryIds -> Entry]
  /\ saved \in Entry \cup {NoEntry}
  /\ saveTimer \in BOOLEAN
  /\ entry \in [Downloads -> EntryIds \cup {NoEntry}]
  /\ local \in [Downloads -> BOOLEAN]
  /\ status \in [Downloads -> {"NotStarted", "InProgress", "Finished", "Failed",
                               "Aborted", "FailedProceed"}]
  /\ reply \in [Downloads -> Reply \cup {NoReply}]
  /\ redirects \in [Downloads -> 0..MaxRedirects]
  /\ output \in [Downloads -> Contents \cup {NoFile}]
  /\ answer \in [Downloads -> {"none", "ok", "hit", "local", "failed", "aborted"}]
  /\ tampered \in [Downloads -> BOOLEAN]
  /\ spoilt \in BOOLEAN
  /\ \A d \in Downloads : reply[d] = NoReply => output[d] = NoFile

Init ==
  /\ server = 1
  /\ file = NoFile
  /\ map = NoEntry
  /\ entries = [i \in EntryIds |-> StaleEntry]
  /\ saved = NoEntry /\ saveTimer = FALSE
  /\ entry = [d \in Downloads |-> NoEntry]
  /\ local = [d \in Downloads |-> FALSE]
  /\ status = [d \in Downloads |-> "NotStarted"]
  /\ reply = [d \in Downloads |-> NoReply]
  /\ redirects = [d \in Downloads |-> 0]
  /\ output = [d \in Downloads |-> NoFile]
  /\ answer = [d \in Downloads |-> "none"]
  /\ tampered = [d \in Downloads |-> FALSE] /\ spoilt = FALSE

Running(d) == reply[d] # NoReply

(***************************************************************************)
(* HttpMetaCache.                                                          *)
(***************************************************************************)
HasFile == file # NoFile

\* Mutant: a changed file is trusted without its checksum.
KeptUnchecked == map # NoEntry /\ HasFile

\* resolveEntry() keeps the entry of the map if the file has its stamp or its
\* checksum.
Kept == map # NoEntry /\ HasFile /\ (entries[map].current \/ entries[map].md5 = file)

HeldByOthers(d) == {entry[x] : x \in Downloads \ {d}}
Resolved(d) == IF Kept THEN map ELSE CHOOSE i \in EntryIds : i \notin HeldByOthers(d)

\* resolveEntry(), and setStale(TRUE) on its result if `force`.
ResolveEntry(d, force) ==
  /\ entries' = [i \in EntryIds |->
       IF Kept /\ i = map
       THEN [entries[i] EXCEPT !.current = TRUE, !.stale = @ \/ force]
       ELSE IF i \in HeldByOthers(d) THEN entries[i] ELSE StaleEntry]
  /\ map' = IF Kept THEN map ELSE NoEntry
  /\ saveTimer' = (saveTimer \/ (Kept /\ ~entries[map].current))
  /\ UNCHANGED saved

\* evictEntry(), for a file its reader cannot make sense of.
Evict ==
  /\ map # NoEntry
  /\ entries' = [entries EXCEPT ![map].stale = TRUE]
  /\ saveTimer' = TRUE
  /\ UNCHANGED <<server, fileVars, map, saved, downloadVars>>

\* SaveNow(): stale entries are not written.
Saved == IF map = NoEntry \/ entries[map].stale THEN NoEntry ELSE entries[map]

SaveTimeout ==
  /\ saveTimer /\ saveTimer' = FALSE
  /\ saved' = Saved
  /\ UNCHANGED <<server, fileVars, map, entries, downloadVars>>

(***************************************************************************)
(* Starting a download.                                                    *)
(***************************************************************************)

\* makeCached() of a resolved entry; most callers set it stale first.
MakeCached(d, force, acceptLocal) ==
  /\ ~Running(d)
  /\ ResolveEntry(d, force)
  /\ entry' = [entry EXCEPT ![d] = Resolved(d)]
  /\ local' = [local EXCEPT ![d] = acceptLocal]
  /\ status' = [status EXCEPT ![d] = "NotStarted"]
  /\ answer' = [answer EXCEPT ![d] = "none"]
  /\ tampered' = [tampered EXCEPT ![d] = FALSE]
  /\ UNCHANGED <<server, file, spoilt, reply, redirects, output>>

SendRequest(d, since, dirty, asked) ==
  reply' = [reply EXCEPT
    ![d] = [since |-> since, dirty |-> dirty, asked |-> asked, head |-> "none", version |-> Unknown,
            left |-> <<>>, failed |-> FALSE]]

\* MetaCacheSink::initCache(): the request is conditional if there is a file.
Condition(d) == IF file \in {NoFile, <<>>} THEN Unknown ELSE entries[entry[d]].etag

\* startImpl(), of a new download or of one that failed and is tried again.
Start(d) ==
  /\ ~Running(d) /\ entry[d] # NoEntry /\ answer[d] \in {"none", "failed"}
  /\ IF entries[entry[d]].stale
     THEN /\ status' = [status EXCEPT ![d] = "InProgress"]
          /\ redirects' = [redirects EXCEPT ![d] = 0]
          /\ SendRequest(d, server, FALSE, Condition(d))
          /\ UNCHANGED answer
     ELSE /\ status' = [status EXCEPT ![d] = "Finished"]
          /\ answer' = [answer EXCEPT ![d] = "hit"]
          /\ UNCHANGED <<reply, redirects>>
  /\ UNCHANGED <<server, fileVars, cacheVars, entry, local, output>>

(***************************************************************************)
(* What arrives.                                                           *)
(***************************************************************************)
\* The server answers; a redirect may have a body too.
Respond(d, head) ==
  /\ Running(d) /\ reply[d].head = "none" /\ ~reply[d].failed
  /\ head = "304" <=> head # "redirect" /\ head # "error" /\ reply[d].asked = server
  /\ \E body \in CASE head = "200" -> {Whole(server)}
                  [] head = "304" -> {<<>>}
                  [] head = "error" -> {<<Junk>>}
                  [] head = "redirect" -> {<<>>, <<Junk>>} :
       reply' = [reply EXCEPT
         ![d].head = head,
         ![d].version = IF head \in {"200", "304"} THEN server ELSE Unknown,
         ![d].left = body]
  /\ UNCHANGED <<server, fileVars, cacheVars, entry, local, status, redirects, output,
                 answer>>

Appended(d, data) == (IF output[d] = NoFile THEN <<>> ELSE output[d]) \o data

\* Mutant: data is written also after a write that failed.
ReadyReadAfterFailure(d) ==
  /\ Running(d) /\ reply[d].left # <<>> /\ ~reply[d].failed
  /\ reply' = [reply EXCEPT ![d].left = Tail(@)]
  /\ \/ /\ output' = [output EXCEPT ![d] = Appended(d, <<Head(reply[d].left)>>)]
        /\ status' = [status EXCEPT ![d] = "InProgress"]
     \/ /\ "chunk" \in WriteFaults
        /\ output' = [output EXCEPT ![d] = NoFile]
        /\ status' = [status EXCEPT ![d] = "Failed"]
  /\ UNCHANGED <<server, fileVars, cacheVars, entry, local, redirects, answer>>

\* downloadReadyRead(); data that arrives after a failure is not read.
ReadyRead(d) ==
  /\ Running(d) /\ reply[d].left # <<>> /\ status[d] = "InProgress" /\ ~reply[d].failed
  /\ reply' = [reply EXCEPT ![d].left = Tail(@)]
  /\ \/ /\ output' = [output EXCEPT ![d] = Appended(d, <<Head(reply[d].left)>>)]
        /\ UNCHANGED status
     \/ /\ "chunk" \in WriteFaults
        /\ output' = [output EXCEPT ![d] = NoFile]
        /\ status' = [status EXCEPT ![d] = "Failed"]
  /\ UNCHANGED <<server, fileVars, cacheVars, entry, local, redirects, answer>>

HasLocalData == file \notin {NoFile, <<>>}

\* downloadError(), for any error but a cancelled operation.
Error(d) ==
  /\ Running(d) /\ ~reply[d].failed
  /\ reply' = [reply EXCEPT ![d].failed = TRUE]
  /\ status' = [status EXCEPT
       ![d] = IF local[d] /\ HasLocalData THEN "FailedProceed" ELSE "Failed"]
  /\ UNCHANGED <<server, fileVars, cacheVars, entry, local, redirects, output, answer>>

(***************************************************************************)
(* downloadFinished().                                                     *)
(***************************************************************************)
Emit(d, signal) ==
  /\ answer' = [answer EXCEPT ![d] = signal]
  /\ reply' = [reply EXCEPT ![d] = NoReply]
  /\ output' = [output EXCEPT ![d] = NoFile]

GiveUp(d, newStatus, signal) ==
  /\ status' = [status EXCEPT ![d] = newStatus]
  /\ Emit(d, signal)
  /\ UNCHANGED <<server, fileVars, cacheVars, entry, local, redirects>>

\* Mutant: redirects are not counted.
FollowRedirectForever(d, newStatus) ==
  /\ reply[d].head = "redirect" /\ redirects[d] < MaxRedirects
  /\ SendRequest(d, reply[d].since, output[d] # NoFile, Unknown)
  /\ status' = [status EXCEPT ![d] = newStatus]
  /\ UNCHANGED <<server, fileVars, cacheVars, entry, local, redirects, output, answer>>

\* handleRedirect() comes first, whatever the status is.  The request is sent
\* again without what the sink had put into it, and the sink is not told: what was
\* read of the body of the redirect stays in the temporary file.
FollowRedirect(d, newStatus) ==
  /\ reply[d].head = "redirect" /\ redirects[d] < MaxRedirects
  /\ redirects' = [redirects EXCEPT ![d] = @ + 1]
  /\ SendRequest(d, reply[d].since, output[d] # NoFile, Unknown)
  /\ status' = [status EXCEPT ![d] = newStatus]
  /\ UNCHANGED <<server, fileVars, cacheVars, entry, local, output, answer>>

TooManyRedirects(d) == reply[d].head = "redirect" /\ redirects[d] = MaxRedirects

EndsInFailure(d, s) ==
  CASE s = "FailedProceed" -> GiveUp(d, s, "local")
    [] s = "Failed" -> GiveUp(d, s, "failed")
    [] s = "Aborted" -> GiveUp(d, s, "aborted")

\* finalizeCache() of what was written to the file, and updateEntry().
FinalizeCache(d, written) ==
  LET i == entry[d] IN
  /\ entries' = [j \in EntryIds |->
       IF j = i
       THEN [stale |-> FALSE, etag |-> reply[d].version,
             current |-> written # NoFile \/ file # NoFile,
             md5 |-> IF written \in {NoFile, <<>>} THEN entries[i].md5 ELSE written]
       ELSE [entries[j] EXCEPT !.current = @ /\ written = NoFile]]
  /\ map' = i
  /\ saved' = IF saved = NoEntry THEN NoEntry
              ELSE [saved EXCEPT !.current = @ /\ written = NoFile]
  /\ saveTimer' = TRUE

\* FileSink::finalize() when `out` is in the temporary file.  A 200 commits a
\* file even if nothing was written to it; a 304 commits nothing, and the file is
\* not looked at.  `lost` says that the last write failed.
Finalize(d, out, lost) ==
  LET written == IF out # NoFile THEN out
                 ELSE IF reply[d].head = "200" THEN <<>> ELSE NoFile
  IN \/ /\ FinalizeCache(d, written)
        /\ file' = IF written = NoFile THEN file ELSE written
        /\ spoilt' = IF written = NoFile THEN spoilt \/ tampered[d]
                     ELSE lost \/ reply[d].dirty
        /\ tampered' = IF written = NoFile THEN tampered ELSE [x \in Downloads |-> FALSE]
        /\ status' = [status EXCEPT ![d] = "Finished"]
        /\ Emit(d, "ok")
        /\ UNCHANGED <<server, entry, local, redirects>>
     \/ /\ "commit" \in WriteFaults /\ written # NoFile
        /\ GiveUp(d, "Failed", "failed")

\* Mutant: what readyRead did not fetch is forgotten.
FinishInProgressEarly(d) == Finalize(d, output[d], FALSE)

\* The rest of the data is written; whether that worked is not looked at.
FinishInProgress(d) ==
  IF reply[d].left = <<>> THEN Finalize(d, output[d], FALSE)
  ELSE \/ Finalize(d, Appended(d, reply[d].left), FALSE)
       \/ "rest" \in WriteFaults /\ Finalize(d, NoFile, TRUE)

Finished(d) ==
  /\ Running(d)
  /\ reply[d].failed \/ reply[d].head \notin {"none", "error"}
  /\ \/ FollowRedirect(d, status[d])
     \/ TooManyRedirects(d) /\ EndsInFailure(d, "Failed")
     \/ /\ reply[d].head # "redirect"
        /\ IF status[d] = "InProgress" THEN FinishInProgress(d)
           ELSE EndsInFailure(d, status[d])

\* abort(): the reply reports the cancellation and its end at once.
Abort(d) ==
  /\ Running(d) /\ ~reply[d].failed
  /\ \/ FollowRedirect(d, "Aborted")
     \/ TooManyRedirects(d) /\ EndsInFailure(d, "Failed")
     \/ reply[d].head # "redirect" /\ EndsInFailure(d, "Aborted")

(***************************************************************************)
(* The world around.                                                       *)
(***************************************************************************)
ServerChanges ==
  /\ server < MaxVersion /\ server' = server + 1
  /\ UNCHANGED <<fileVars, cacheVars, downloadVars>>

\* Somebody else replaces or removes the file, whatever is being downloaded.
Tamper(how) ==
  /\ file' = IF how = "removed" THEN NoFile ELSE <<Junk>>
  /\ file' # file
  /\ tampered' = [d \in Downloads |-> entry[d] # NoEntry] /\ spoilt' = FALSE
  /\ entries' = [i \in EntryIds |-> [entries[i] EXCEPT !.current = FALSE]]
  /\ saved' = IF saved = NoEntry THEN NoEntry ELSE [saved EXCEPT !.current = FALSE]
  /\ UNCHANGED <<server, map, saveTimer, downloadVars>>

\* The program ends and is started again: Load() takes every entry of the index
\* as not stale.
Restart ==
  /\ entry' = [d \in Downloads |-> NoEntry]
  /\ local' = [d \in Downloads |-> FALSE]
  /\ status' = [d \in Downloads |-> "NotStarted"]
  /\ reply' = [d \in Downloads |-> NoReply]
  /\ redirects' = [d \in Downloads |-> 0]
  /\ output' = [d \in Downloads |-> NoFile]
  /\ answer' = [d \in Downloads |-> "none"]
  /\ saveTimer' = FALSE
  /\ map' = IF saved' = NoEntry THEN NoEntry ELSE 1
  /\ entries' = [i \in EntryIds |-> IF i = map' THEN saved' ELSE StaleEntry]
  /\ tampered' = [d \in Downloads |-> FALSE]
  /\ UNCHANGED <<server, file, spoilt>>

Exit == saved' = Saved /\ Restart
Crash == saved' = saved /\ Restart

NetworkStep(d) ==
  \/ \E head \in {"200", "304", "redirect", "error"} : Respond(d, head)
  \/ ReadyRead(d)
  \/ Error(d)
  \/ Finished(d)

Next ==
  \/ \E d \in Downloads, force \in BOOLEAN, acceptLocal \in Fallbacks :
       MakeCached(d, force, acceptLocal)
  \/ \E d \in Downloads : Start(d) \/ NetworkStep(d) \/ Abort(d)
  \/ Evict
  \/ SaveTimeout
  \/ ServerChanges
  \/ \E how \in Tampers : Tamper(how)
  \/ Exit
  \/ Crash

Spec == Init /\ [][Next]_vars

\* Every request is answered or fails, and what arrives is delivered.
Fairness == \A d \in Downloads : WF_vars(NetworkStep(d))
FairSpec == Spec /\ Fairness

(***************************************************************************)
(* Properties.                                                             *)
(***************************************************************************)

\* A download that ended with success, from the server or from the cache, leaves
\* a whole file at its path.  The exceptions are the three ways in which the code
\* does not look at the file, no others: the body of a redirect that it wrote first
\* (Download::handleRedirect), the last write that failed (downloadFinished) and a
\* cache hit or a 304 for a file that somebody else changed after its entry was
\* resolved (MetaCacheSink::initCache, FileSink::finalize).
SuccessMeansWhole ==
  [][\A d \in Downloads :
       (answer[d] \notin {"ok", "hit"} /\ answer'[d] \in {"ok", "hit"}) =>
          IsWhole(file') \/ spoilt' \/ (answer'[d] = "hit" /\ tampered[d])]_vars

\* Whatever happened to the file, the index and the program, and whenever, an entry
\* that passes the checks of resolveEntry and is not stale stands for a whole file:
\* its users open it without downloading.  The exception is a file that a download
\* put there or vouched for in one of the ways above, until the next download that
\* commits what it was sent, or somebody else, replaces it.
TrustedFileIsWhole == (Kept /\ ~entries[map].stale) => IsWhole(file) \/ spoilt

\* A successful download leaves a file as new as the server's when it started, also
\* when the answer was 304 and the file was there before; the exceptions are those
\* of SuccessMeansWhole.
SuccessIsCurrent ==
  [][\A d \in Downloads :
       (answer[d] # "ok" /\ answer'[d] = "ok") =>
          \/ \E v \in Versions : v >= reply[d].since /\ file' = Whole(v)
          \/ spoilt']_vars

\* What the comment in FileSink::finalize says of a download that committed nothing:
\* the data is still the same.  It does not hold when somebody else changed the file
\* after the entry was resolved (section 5 of the README), and no run checks it.
NotModifiedMeansSame ==
  [][\A d \in Downloads :
       (reply[d] # NoReply /\ reply[d].head = "304" /\ answer'[d] = "ok") =>
          file' = Whole(reply[d].version)]_vars

\* Every download that was started is answered.
EveryStartAnswered == \A d \in Downloads : Running(d) ~> ~Running(d)
=============================================================================
