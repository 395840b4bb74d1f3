----------------------- MODULE CachedDownload_proofs -----------------------
(***************************************************************************)
(* Proofs about module CachedDownload, for any number of downloads of the  *)
(* file, any number of versions and redirects, and any values of the       *)
(* options: type correctness; that what counts as a good file is a whole   *)
(* one unless it came about in one of the ways that do not look at it;     *)
(* and, if there is one download at a time and the write in                *)
(* downloadFinished() does not fail, that it is as new as its request.     *)
(***************************************************************************)
EXTENDS CachedDownload, FiniteSetTheorems, SequenceTheorems, TLAPS

\* A download that has a reply has not ended, and has an entry.
StatusFits ==
  \A d \in Downloads :
    Running(d) => /\ status[d] \in {"InProgress", "Failed", "Aborted", "FailedProceed"}
                  /\ entry[d] # NoEntry

\* The file is whole, or it came about in a way that does not look at it.
Sound == IsWhole(file) \/ spoilt

\* The whole of a version, after the body of a redirect if there was one.
Follows(out, v, redirected) ==
  \E c \in Contents : out = c \o Whole(v) /\ (c # <<>> <=> redirected)

\* What a reply has brought, and what of it is in the temporary file: the whole of a
\* version after the body of a redirect, if there was one.  A failed reply is not
\* finalized, and a request after a redirect is not conditional.
ReplyFits(d) ==
  /\ reply[d].failed => status[d] # "InProgress"
  /\ reply[d].head \in {"none", "304"} => reply[d].left = <<>>
  /\ reply[d].asked # Unknown => ~reply[d].dirty
  /\ reply[d].head = "304" => reply[d].asked # Unknown
  /\ output[d] # <<>>
  /\ reply[d].head \in {"none", "304"} /\ status[d] = "InProgress" =>
       (output[d] # NoFile <=> reply[d].dirty)
  /\ reply[d].head = "200" /\ status[d] = "InProgress" =>
       /\ reply[d].version \in Versions
       /\ Follows(Appended(d, reply[d].left), reply[d].version, reply[d].dirty)

RepliesFit == \A d \in Downloads : Running(d) => ReplyFits(d)

\* What others put into the file is nobody's checksum.
ChecksumsForeign ==
  /\ \A i \in EntryIds : entries[i].md5 # <<Junk>>
  /\ saved # NoEntry => saved.md5 # <<Junk>>

\* A file that is not sound is what others made of it.
FileKnown == file \in {NoFile, <<Junk>>} \/ Sound

\* A stamp that is the file's is that of a sound file.
StampsSound ==
  /\ (\E i \in EntryIds : entries[i].current) => Sound
  /\ saved # NoEntry /\ saved.current => Sound

\* Whoever holds an entry that is not stale or has an ETag, or asked the server
\* whether the file changed, has a sound file, unless it was changed since.
HoldersSound ==
  \A d \in Downloads : ~tampered[d] =>
    /\ entry[d] # NoEntry /\ (~entries[entry[d]].stale \/ entries[entry[d]].etag # Unknown)
         => Sound
    /\ Running(d) /\ reply[d].asked # Unknown => Sound

TypeInv == TypeOK /\ StatusFits
Truth == RepliesFit /\ ChecksumsForeign /\ FileKnown /\ StampsSound /\ HoldersSound
IInv == TypeInv /\ Truth

--------------------------------------------------------------------------------
(***************************************************************************)
(* The operators.                                                          *)
(***************************************************************************)

\* A whole file is contents, and not empty.
LEMMA WholeIsContents ==
  ASSUME NEW v \in Versions
  PROVE  Whole(v) \in Contents /\ Whole(v) # <<>>
BY DEF Whole, Contents, Pieces

LEMMA JunkIsContents == <<Junk>> \in Contents /\ <<>> \in Contents
<1>1. Junk \in Pieces
  BY DEF Pieces
<1>. QED
  BY <1>1 DEF Contents

LEMMA WholeIsNoMarker ==
  ASSUME NEW c, IsWhole(c)
  PROVE  c \in Contents /\ c \notin {NoFile, Unknown, <<>>}
BY WholeIsContents, CachedDownloadValues DEF IsWhole

\* There are as many entries as downloads, and one is left for each.
LEMMA EntryLeft ==
  ASSUME NEW d \in Downloads
  PROVE  \E i \in EntryIds : i \notin HeldByOthers(d)
<1>. DEFINE Rest == Downloads \ {d}
            E == [x \in Rest |-> entry[x]]
<1>1. IsFiniteSet(Rest) /\ Cardinality(Rest) = Cardinality(Downloads) - 1
      /\ Cardinality(Downloads) \in Nat
  BY FS_RemoveElement, FS_CardinalityType, CachedDownloadAssumption
<1>2. E \in Surjection(Rest, HeldByOthers(d))
  BY DEF Surjection, HeldByOthers
<1>3. IsFiniteSet(HeldByOthers(d)) /\ Cardinality(HeldByOthers(d)) <= Cardinality(Rest)
      /\ Cardinality(HeldByOthers(d)) \in Nat
  <2>. HIDE DEF Rest, E
  <2>. QED
    BY <1>1, <1>2, FS_Surjection, FS_CardinalityType
<1>4. Cardinality(EntryIds) = Cardinality(Downloads)
  BY <1>1, FS_Interval DEF EntryIds
<1>5. SUFFICES ASSUME EntryIds \subseteq HeldByOthers(d) PROVE FALSE
  OBVIOUS
<1>6. Cardinality(EntryIds) <= Cardinality(HeldByOthers(d))
  BY <1>3, <1>5, FS_Subset
<1>. QED
  BY <1>1, <1>3, <1>4, <1>6

LEMMA ResolvedIsEntry ==
  ASSUME NEW d \in Downloads, TypeOK
  PROVE  /\ Resolved(d) \in EntryIds
         /\ ~Kept => Resolved(d) \notin HeldByOthers(d)
         /\ Kept => Resolved(d) = map
BY EntryLeft DEF Resolved, TypeOK, Kept

\* The first entry exists: it is the one Load() fills.
LEMMA FirstEntry == 1 \in EntryIds
<1>1. Cardinality(Downloads) \in Nat /\ Cardinality(Downloads) # 0
  BY FS_CardinalityType, FS_EmptySet, CachedDownloadAssumption
<1>. QED
  BY <1>1 DEF EntryIds

\* Writing data after what was written gives contents.
LEMMA AppendedIsContents ==
  ASSUME TypeOK, NEW d \in Downloads, NEW data \in Contents
  PROVE  Appended(d, data) \in Contents
<1>. (IF output[d] = NoFile THEN <<>> ELSE output[d]) \in Contents
  BY DEF TypeOK, Contents
<1>. QED
  BY ConcatProperties DEF Appended, Contents

--------------------------------------------------------------------------------
(***************************************************************************)
(* Types.                                                                  *)
(***************************************************************************)

\* A request that is sent is a reply in the making.
LEMMA SentFits ==
  ASSUME TypeInv, NEW d \in Downloads, NEW since \in Versions,
         NEW dirty \in BOOLEAN, NEW asked \in Versions \cup {Unknown},
         SendRequest(d, since, dirty, asked)
  PROVE  reply' \in [Downloads -> Reply \cup {NoReply}] /\ reply'[d] # NoReply
         /\ \A x \in Downloads \ {d} : reply'[x] = reply[x]
<1>. DEFINE r == [since |-> since, dirty |-> dirty, asked |-> asked, head |-> "none",
                  version |-> Unknown, left |-> <<>>, failed |-> FALSE]
<1>1. r \in Reply
  BY DEF Reply, Contents
<1>2. reply' = [reply EXCEPT ![d] = r]
  BY DEF SendRequest
<1>. HIDE DEF r
<1>. QED
  BY <1>1, <1>2, CachedDownloadValues DEF TypeInv, TypeOK

\* A download that ends has no reply and no temporary file.
LEMMA GiveUpFits ==
  ASSUME TypeInv, NEW d \in Downloads,
         NEW newStatus \in {"Failed", "Aborted", "FailedProceed"},
         NEW signal \in {"failed", "aborted", "local"}, GiveUp(d, newStatus, signal)
  PROVE  TypeInv'
BY DEF TypeInv, TypeOK, StatusFits, Running, GiveUp, Emit, cacheVars, fileVars

LEMMA FollowRedirectFits ==
  ASSUME TypeInv, NEW d \in Downloads, Running(d),
         NEW newStatus \in {"InProgress", "Failed", "Aborted", "FailedProceed"},
         FollowRedirect(d, newStatus)
  PROVE  TypeInv'
<1>1. reply[d].since \in Versions
  BY DEF TypeInv, TypeOK, Running, Reply
<1>2. reply' \in [Downloads -> Reply \cup {NoReply}] /\ reply'[d] # NoReply
      /\ \A x \in Downloads \ {d} : reply'[x] = reply[x]
  BY <1>1, SentFits DEF FollowRedirect
<1>3. redirects' \in [Downloads -> 0..MaxRedirects]
  BY CachedDownloadAssumption DEF FollowRedirect, TypeInv, TypeOK
<1>4. TypeOK'
  BY <1>2, <1>3 DEF FollowRedirect, TypeInv, TypeOK, Running, cacheVars, fileVars
<1>5. StatusFits'
  BY <1>2 DEF FollowRedirect, TypeInv, TypeOK, StatusFits, Running
<1>. QED
  BY <1>4, <1>5 DEF TypeInv

LEMMA EndsInFailureFits ==
  ASSUME TypeInv, NEW d \in Downloads, NEW s \in {"Failed", "Aborted", "FailedProceed"},
         EndsInFailure(d, s)
  PROVE  TypeInv'
BY GiveUpFits DEF EndsInFailure

LEMMA FinalizeFits ==
  ASSUME TypeInv, NEW d \in Downloads, Running(d),
         NEW out \in Contents \cup {NoFile}, NEW lost \in BOOLEAN, Finalize(d, out, lost)
  PROVE  TypeInv'
<1>. DEFINE written == IF out # NoFile THEN out
                       ELSE IF reply[d].head = "200" THEN <<>> ELSE NoFile
<1>1. written \in Contents \cup {NoFile}
  BY DEF Contents
<1>2. CASE GiveUp(d, "Failed", "failed")
  BY <1>2, GiveUpFits
<1>3. CASE /\ FinalizeCache(d, written)
           /\ file' = IF written = NoFile THEN file ELSE written
           /\ spoilt' = IF written = NoFile THEN spoilt \/ tampered[d]
                        ELSE lost \/ reply[d].dirty
           /\ tampered' = IF written = NoFile THEN tampered
                          ELSE [x \in Downloads |-> FALSE]
           /\ status' = [status EXCEPT ![d] = "Finished"]
           /\ Emit(d, "ok")
           /\ UNCHANGED <<server, entry, local, redirects>>
  <2>. HIDE DEF written
  <2>1. reply[d].version \in Versions \cup {Unknown}
    BY DEF TypeInv, TypeOK, Running, Reply
  <2>2. /\ entries' \in [EntryIds -> Entry] /\ map' \in EntryIds \cup {NoEntry}
        /\ saved' \in Entry \cup {NoEntry} /\ saveTimer' \in BOOLEAN
    BY <1>1, <1>3, <2>1 DEF FinalizeCache, TypeInv, TypeOK, Entry
  <2>3. /\ file' \in Contents \cup {NoFile}
        /\ spoilt' \in BOOLEAN /\ tampered' \in [Downloads -> BOOLEAN]
    BY <1>1, <1>3 DEF TypeInv, TypeOK, Running, Reply
  <2>4. TypeOK'
    BY <1>3, <2>2, <2>3 DEF TypeInv, TypeOK, Emit
  <2>5. StatusFits'
    BY <1>3 DEF TypeInv, TypeOK, Emit, StatusFits, Running
  <2>. QED
    BY <2>4, <2>5 DEF TypeInv
<1>. QED
  BY <1>2, <1>3 DEF Finalize

LEMMA FinishInProgressFits ==
  ASSUME TypeInv, NEW d \in Downloads, Running(d), FinishInProgress(d)
  PROVE  TypeInv'
<1>1. reply[d].left \in Contents /\ output[d] \in Contents \cup {NoFile}
  BY DEF TypeInv, TypeOK, Running, Reply
<1>2. Appended(d, reply[d].left) \in Contents
  BY <1>1, AppendedIsContents DEF TypeInv
<1>. QED
  BY <1>1, <1>2, FinalizeFits DEF FinishInProgress

LEMMA FinishedFits ==
  ASSUME TypeInv, NEW d \in Downloads, Finished(d) \/ Abort(d)
  PROVE  TypeInv'
<1>1. Running(d)
  BY DEF Finished, Abort
<1>2. status[d] \in {"InProgress", "Failed", "Aborted", "FailedProceed"}
  BY <1>1 DEF TypeInv, StatusFits
<1>3. ASSUME NEW s \in {"InProgress", "Failed", "Aborted", "FailedProceed"},
             FollowRedirect(d, s)
      PROVE  TypeInv'
  BY <1>1, <1>3, FollowRedirectFits
<1>4. CASE Abort(d)
  BY <1>3, <1>4, EndsInFailureFits DEF Abort
<1>5. CASE Finished(d)
  BY <1>1, <1>2, <1>3, <1>5, EndsInFailureFits, FinishInProgressFits DEF Finished
<1>. QED
  BY <1>4, <1>5

LEMMA MakeCachedFits ==
  ASSUME TypeInv, NEW d \in Downloads, NEW force \in BOOLEAN,
         NEW acceptLocal \in Fallbacks, MakeCached(d, force, acceptLocal)
  PROVE  TypeInv'
<1>1. Resolved(d) \in EntryIds
  BY ResolvedIsEntry DEF TypeInv
<1>2. /\ entries' \in [EntryIds -> Entry] /\ map' \in EntryIds \cup {NoEntry}
      /\ saveTimer' \in BOOLEAN /\ saved' = saved
  BY DEF MakeCached, ResolveEntry, TypeInv, TypeOK, Entry, StaleEntry
<1>3. acceptLocal \in BOOLEAN
  BY CachedDownloadAssumption
<1>4. TypeOK'
  BY <1>1, <1>2, <1>3 DEF MakeCached, TypeInv, TypeOK
<1>5. StatusFits'
  BY DEF MakeCached, TypeInv, TypeOK, StatusFits, Running
<1>. QED
  BY <1>4, <1>5 DEF TypeInv

LEMMA StartFits ==
  ASSUME TypeInv, NEW d \in Downloads, Start(d)
  PROVE  TypeInv'
<1>1. entries[entry[d]] \in Entry
  BY DEF Start, TypeInv, TypeOK
<1>2. CASE entries[entry[d]].stale
  <2>1. server \in Versions /\ Condition(d) \in Versions \cup {Unknown}
    BY <1>1 DEF TypeInv, TypeOK, Condition, Entry
  <2>2. SendRequest(d, server, FALSE, Condition(d))
    BY <1>2 DEF Start
  <2>3. reply' \in [Downloads -> Reply \cup {NoReply}] /\ reply'[d] # NoReply
        /\ \A x \in Downloads \ {d} : reply'[x] = reply[x]
    BY <2>1, <2>2, SentFits
  <2>4. 0 \in 0..MaxRedirects
    BY CachedDownloadAssumption
  <2>5. redirects' \in [Downloads -> 0..MaxRedirects]
    BY <1>2, <2>4 DEF Start, TypeInv, TypeOK
  <2>6. TypeOK'
    BY <1>2, <2>3, <2>5 DEF Start, TypeInv, TypeOK, cacheVars, fileVars
  <2>7. StatusFits'
    BY <1>2, <2>3 DEF Start, TypeInv, TypeOK, StatusFits, Running
  <2>. QED
    BY <2>6, <2>7 DEF TypeInv
<1>3. CASE ~entries[entry[d]].stale
  BY <1>3 DEF Start, TypeInv, TypeOK, StatusFits, Running, cacheVars, fileVars
<1>. QED
  BY <1>2, <1>3

LEMMA RespondFits ==
  ASSUME TypeInv, NEW d \in Downloads,
         NEW head \in {"200", "304", "redirect", "error"}, Respond(d, head)
  PROVE  TypeInv'
<1>. DEFINE v == IF head \in {"200", "304"} THEN server ELSE Unknown
<1>1. server \in Versions /\ v \in Versions \cup {Unknown}
  BY DEF TypeInv, TypeOK
<1>2. PICK brought \in {Whole(server), <<>>, <<Junk>>} :
        reply' = [reply EXCEPT ![d] = [reply[d] EXCEPT !.head = head, !.version = v,
                                                       !.left = brought]]
  BY DEF Respond
<1>6. brought \in Contents
  BY <1>1, WholeIsContents, JunkIsContents
<1>3. reply[d] \in Reply
  BY DEF Respond, TypeInv, TypeOK, Running
<1>. HIDE DEF v
<1>4. [reply[d] EXCEPT !.head = head, !.version = v, !.left = brought] \in Reply
  BY <1>1, <1>3, <1>6 DEF Reply
<1>5. reply' \in [Downloads -> Reply \cup {NoReply}] /\ reply'[d] # NoReply
      /\ \A x \in Downloads \ {d} : reply'[x] = reply[x]
  BY <1>2, <1>4, CachedDownloadValues DEF TypeInv, TypeOK
<1>. QED
  BY <1>5 DEF Respond, TypeInv, TypeOK, StatusFits, Running, cacheVars, fileVars

LEMMA ReadyReadFits ==
  ASSUME TypeInv, NEW d \in Downloads, ReadyRead(d)
  PROVE  TypeInv'
<1>. DEFINE piece == <<Head(reply[d].left)>>
<1>1. reply[d] \in Reply /\ reply[d].left \in Contents /\ reply[d].left # <<>>
  BY DEF ReadyRead, TypeInv, TypeOK, Running, Reply
<1>2. piece \in Contents /\ Tail(reply[d].left) \in Contents
  BY <1>1 DEF Contents
<1>3. Appended(d, piece) \in Contents
  BY <1>2, AppendedIsContents DEF TypeInv
<1>4. [reply[d] EXCEPT !.left = Tail(reply[d].left)] \in Reply
  BY <1>1, <1>2 DEF Reply
<1>5. reply' = [reply EXCEPT ![d] = [reply[d] EXCEPT !.left = Tail(reply[d].left)]]
  BY DEF ReadyRead
<1>6. reply' \in [Downloads -> Reply \cup {NoReply}] /\ reply'[d] # NoReply
      /\ \A x \in Downloads \ {d} : reply'[x] = reply[x]
  BY <1>4, <1>5, CachedDownloadValues DEF TypeInv, TypeOK
<1>7. CASE output' = [output EXCEPT ![d] = Appended(d, piece)] /\ UNCHANGED status
  <2>. HIDE DEF piece
  <2>. QED
    BY <1>3, <1>6, <1>7 DEF ReadyRead, TypeInv, TypeOK, StatusFits, Running, cacheVars, fileVars
<1>8. CASE /\ output' = [output EXCEPT ![d] = NoFile]
           /\ status' = [status EXCEPT ![d] = "Failed"]
  BY <1>6, <1>8 DEF ReadyRead, TypeInv, TypeOK, StatusFits, Running, cacheVars, fileVars
<1>. QED
  BY <1>7, <1>8 DEF ReadyRead

LEMMA ErrorFits ==
  ASSUME TypeInv, NEW d \in Downloads, Error(d)
  PROVE  TypeInv'
<1>1. reply[d] \in Reply
  BY DEF Error, TypeInv, TypeOK, Running
<1>2. [reply[d] EXCEPT !.failed = TRUE] \in Reply
  BY <1>1 DEF Reply
<1>3. reply' = [reply EXCEPT ![d] = [reply[d] EXCEPT !.failed = TRUE]]
  BY DEF Error
<1>4. reply' \in [Downloads -> Reply \cup {NoReply}] /\ reply'[d] # NoReply
      /\ \A x \in Downloads \ {d} : reply'[x] = reply[x]
  BY <1>2, <1>3, CachedDownloadValues DEF TypeInv, TypeOK
<1>. QED
  BY <1>4 DEF Error, TypeInv, TypeOK, StatusFits, Running, cacheVars, fileVars

LEMMA RestartFits ==
  ASSUME TypeInv, Restart, saved' \in Entry \cup {NoEntry}
  PROVE  TypeInv'
<1>1. map' \in EntryIds \cup {NoEntry} /\ entries' \in [EntryIds -> Entry]
  BY FirstEntry, CachedDownloadValues DEF Restart, StaleEntry, Entry
<1>2. 0 \in 0..MaxRedirects
  BY CachedDownloadAssumption
<1>3. redirects' \in [Downloads -> 0..MaxRedirects]
  BY <1>2 DEF Restart
<1>4. TypeOK'
  BY <1>1, <1>3 DEF Restart, TypeInv, TypeOK
<1>5. StatusFits'
  BY DEF Restart, StatusFits, Running
<1>. QED
  BY <1>4, <1>5 DEF TypeInv

LEMMA TamperFits ==
  ASSUME TypeInv, NEW how, Tamper(how)
  PROVE  TypeInv'
<1>1. file' \in Contents \cup {NoFile}
  BY JunkIsContents DEF Tamper
<1>2. entries' \in [EntryIds -> Entry] /\ saved' \in Entry \cup {NoEntry}
  BY DEF Tamper, TypeInv, TypeOK, Entry
<1>. QED
  BY <1>1, <1>2 DEF Tamper, TypeInv, TypeOK, StatusFits, Running, downloadVars

\* What is saved is the entry of the map.
LEMMA SavedFits == TypeInv => Saved \in Entry \cup {NoEntry}
BY DEF TypeInv, TypeOK, Saved

LEMMA TypeStep ==
  TypeInv /\ [Next]_vars => TypeInv'
<1>. SUFFICES ASSUME TypeInv, [Next]_vars PROVE TypeInv'
  OBVIOUS
<1>1. CASE Evict
  BY <1>1 DEF Evict, TypeInv, TypeOK, Entry, StatusFits, Running, downloadVars, fileVars
<1>2. CASE SaveTimeout
  BY <1>2, SavedFits DEF SaveTimeout, TypeInv, TypeOK, StatusFits, Running, downloadVars, fileVars
<1>3. CASE ServerChanges
  BY <1>3, CachedDownloadAssumption
     DEF ServerChanges, Versions, TypeInv, TypeOK, StatusFits, Running, cacheVars, fileVars, downloadVars
<1>4. CASE Exit
  BY <1>4, SavedFits, RestartFits DEF Exit
<1>5. CASE Crash
  BY <1>5, RestartFits DEF Crash, TypeInv, TypeOK
<1>6. CASE UNCHANGED vars
  BY <1>6 DEF vars, cacheVars, fileVars, downloadVars, TypeInv, TypeOK, StatusFits, Running
<1>7. ASSUME NEW d \in Downloads, NetworkStep(d) PROVE TypeInv'
  BY <1>7, RespondFits, ReadyReadFits, ErrorFits, FinishedFits DEF NetworkStep
<1>. QED
  BY <1>1, <1>2, <1>3, <1>4, <1>5, <1>6, <1>7, MakeCachedFits, StartFits, FinishedFits,
     TamperFits DEF Next

LEMMA InitFits == Init => TypeInv
<1>. SUFFICES ASSUME Init PROVE TypeInv
  OBVIOUS
<1>1. 1 \in Versions /\ 0 \in 0..MaxRedirects
  BY CachedDownloadAssumption DEF Versions
<1>2. StaleEntry \in Entry
  BY DEF StaleEntry, Entry
<1>3. server \in Versions /\ redirects \in [Downloads -> 0..MaxRedirects]
      /\ entries \in [EntryIds -> Entry]
  BY <1>1, <1>2 DEF Init
<1>4. TypeOK
  BY <1>3 DEF Init, TypeOK
<1>5. StatusFits
  BY DEF Init, StatusFits, Running
<1>. QED
  BY <1>4, <1>5 DEF TypeInv

\* Types are kept.
THEOREM TypeCorrect == Spec => []TypeOK
<1>1. Init => TypeInv
  BY InitFits
<1>2. TypeInv => TypeOK
  BY DEF TypeInv
<1>. QED
  BY <1>1, <1>2, TypeStep, PTL DEF Spec

--------------------------------------------------------------------------------
(***************************************************************************)
(* What counts as a good file is a whole one, or came about in a way that  *)
(* does not look at it.                                                    *)
(***************************************************************************)

\* A sound file makes every claim about it true.
LEMMA SoundSuffices ==
  ASSUME Sound'
  PROVE  StampsSound' /\ HoldersSound' /\ FileKnown'
BY DEF StampsSound, HoldersSound, FileKnown

\* What leaves the file and the entries alone leaves the claims about them.
LEMMA CacheKept ==
  ASSUME ChecksumsForeign, StampsSound, FileKnown, UNCHANGED <<file, spoilt, entries, saved>>
  PROVE  ChecksumsForeign' /\ StampsSound' /\ FileKnown'
BY DEF ChecksumsForeign, StampsSound, FileKnown, Sound

LEMMA HoldersKept ==
  ASSUME HoldersSound, UNCHANGED <<file, tampered, spoilt, entries, entry>>,
         \A x \in Downloads : Running(x)' /\ reply'[x].asked # Unknown =>
                                Running(x) /\ reply[x].asked # Unknown
  PROVE  HoldersSound'
BY DEF HoldersSound, Sound

\* Replies of other downloads are not disturbed.
LEMMA RepliesKept ==
  ASSUME RepliesFit, NEW d \in Downloads,
         \A x \in Downloads \ {d} : /\ reply'[x] = reply[x] /\ status'[x] = status[x]
                                    /\ output'[x] = output[x],
         (Running(d) => ReplyFits(d))'
  PROVE  RepliesFit'
<1>. SUFFICES ASSUME NEW x \in Downloads \ {d}, Running(x)' PROVE ReplyFits(x)'
  BY DEF RepliesFit
<1>. QED
  BY DEF RepliesFit, ReplyFits, Running, Appended

\* A kept entry is that of a sound file.
LEMMA KeptSound ==
  ASSUME IInv, Kept
  PROVE  Sound
<1>1. map \in EntryIds /\ (entries[map].current \/ entries[map].md5 = file) /\ file # NoFile
  BY DEF Kept, HasFile, IInv, TypeInv, TypeOK
<1>. QED
  BY <1>1 DEF IInv, Truth, ChecksumsForeign, FileKnown, StampsSound

LEMMA GiveUpTruth ==
  ASSUME IInv, NEW d \in Downloads, NEW newStatus, NEW signal,
         GiveUp(d, newStatus, signal)
  PROVE  Truth'
<1>1. reply' = [reply EXCEPT ![d] = NoReply] /\ reply'[d] = NoReply
  BY DEF GiveUp, Emit, IInv, TypeInv, TypeOK
<1>2. RepliesFit'
  BY <1>1, RepliesKept DEF GiveUp, Emit, IInv, TypeInv, TypeOK, Truth, Running
<1>3. ChecksumsForeign' /\ StampsSound' /\ FileKnown'
  BY CacheKept DEF GiveUp, IInv, Truth, cacheVars, fileVars
<1>4. HoldersSound'
  BY <1>1, HoldersKept DEF GiveUp, IInv, Truth, cacheVars, fileVars, TypeInv, TypeOK, Running
<1>. QED
  BY <1>2, <1>3, <1>4 DEF Truth

LEMMA FollowRedirectTruth ==
  ASSUME IInv, NEW d \in Downloads, NEW newStatus, Running(d),
         FollowRedirect(d, newStatus)
  PROVE  Truth'
<1>1. /\ reply'[d].head = "none" /\ reply'[d].failed = FALSE /\ reply'[d].left = <<>>
      /\ reply'[d].asked = Unknown /\ reply'[d].dirty = (output[d] # NoFile)
      /\ \A x \in Downloads \ {d} : reply'[x] = reply[x]
  BY DEF FollowRedirect, SendRequest, IInv, TypeInv, TypeOK
<1>2. output' = output /\ output[d] # <<>>
  BY DEF FollowRedirect, IInv, Truth, RepliesFit, ReplyFits
<1>3. ReplyFits(d)'
  BY <1>1, <1>2 DEF ReplyFits
<1>4. RepliesFit'
  BY <1>1, <1>3, RepliesKept DEF FollowRedirect, IInv, TypeInv, TypeOK, Truth
<1>5. ChecksumsForeign' /\ StampsSound' /\ FileKnown'
  BY CacheKept DEF FollowRedirect, IInv, Truth, cacheVars, fileVars
<1>6. HoldersSound'
  BY <1>1, HoldersKept DEF FollowRedirect, IInv, Truth, cacheVars, fileVars, Running
<1>. QED
  BY <1>4, <1>5, <1>6 DEF Truth

\* What follows the body of a redirect is neither whole nor what others put there.
LEMMA AfterRedirect ==
  ASSUME NEW c \in Contents, NEW v \in Versions
  PROVE  /\ c \o Whole(v) \in Contents /\ c \o Whole(v) \notin {<<>>, <<Junk>>}
         /\ c = <<>> => c \o Whole(v) = Whole(v)
         /\ c # <<>> => ~IsWhole(c \o Whole(v))
<1>1. Whole(v) \in Contents /\ Len(Whole(v)) = 2
  BY WholeIsContents DEF Whole
<1>2. Len(c) \in Nat /\ (Len(c) = 0 <=> c = <<>>)
  BY DEF Contents
<1>3. c \o Whole(v) \in Contents /\ Len(c \o Whole(v)) = Len(c) + 2
  <2>1. c \in Seq(Pieces) /\ Whole(v) \in Seq(Pieces)
    BY <1>1 DEF Contents
  <2>2. c \o Whole(v) \in Seq(Pieces) /\ Len(c \o Whole(v)) = Len(c) + Len(Whole(v))
    BY <2>1, ConcatProperties
  <2>. QED
    BY <1>1, <2>2 DEF Contents
<1>4. c = <<>> => c \o Whole(v) = Whole(v)
  BY <1>1, ConcatEmptySeq DEF Contents
<1>5. Len(<<>>) = 0 /\ Len(<<Junk>>) = 1 /\ \A w \in Versions : Len(Whole(w)) = 2
  BY DEF Whole
<1>6. c \o Whole(v) # <<>> /\ c \o Whole(v) # <<Junk>>
  BY <1>2, <1>3, <1>5
<1>7. c # <<>> => \A w \in Versions : c \o Whole(v) # Whole(w)
  BY <1>2, <1>3, <1>5
<1>. QED
  BY <1>3, <1>4, <1>6, <1>7 DEF IsWhole

\* The ways a download in progress ends with: the whole of a version, perhaps after
\* the body of a redirect; nothing new, of a file that was asked about; or nothing,
\* as the last write was lost.
Good(d, out, lost) ==
  \/ /\ out \in Contents \ {<<>>, <<Junk>>}
     /\ IsWhole(out) \/ reply[d].dirty
  \/ out = NoFile /\ reply[d].head # "200" /\ (Sound \/ tampered[d])
  \/ out = NoFile /\ reply[d].head = "200" /\ lost

LEMMA FinalizeTruth ==
  ASSUME IInv, NEW d \in Downloads, Running(d), NEW out, NEW lost \in BOOLEAN,
         Good(d, out, lost), Finalize(d, out, lost)
  PROVE  Truth' /\ (Sound' \/ answer'[d] = "failed")
<1>. DEFINE written == IF out # NoFile THEN out
                       ELSE IF reply[d].head = "200" THEN <<>> ELSE NoFile
<1>1. CASE GiveUp(d, "Failed", "failed")
  <2>1. answer'[d] = "failed"
    BY <1>1 DEF GiveUp, Emit, IInv, TypeInv, TypeOK
  <2>. QED
    BY <1>1, <2>1, GiveUpTruth
<1>2. CASE /\ FinalizeCache(d, written)
           /\ file' = IF written = NoFile THEN file ELSE written
           /\ spoilt' = IF written = NoFile THEN spoilt \/ tampered[d]
                        ELSE lost \/ reply[d].dirty
           /\ status' = [status EXCEPT ![d] = "Finished"]
           /\ Emit(d, "ok")
           /\ UNCHANGED <<server, entry, local, redirects>>
  <2>0. NoFile # <<>>
    BY CachedDownloadValues, JunkIsContents
  <2>1. Sound'
    <3>1. CASE out # NoFile
      <4>1. file' = out /\ spoilt' = (lost \/ reply[d].dirty)
        BY <1>2, <3>1
      <4>. QED
        BY <3>1, <4>1 DEF Good, Sound, IsWhole
    <3>2. CASE out = NoFile /\ reply[d].head # "200"
      <4>1. file' = file /\ spoilt' = (spoilt \/ tampered[d])
        BY <1>2, <3>2
      <4>. QED
        BY <3>2, <4>1, CachedDownloadValues DEF Good, Sound, IsWhole
    <3>3. CASE out = NoFile /\ reply[d].head = "200" /\ lost
      BY <1>2, <2>0, <3>3 DEF Sound
    <3>. QED
      BY <3>1, <3>2, <3>3, CachedDownloadValues DEF Good
  <2>2. reply'[d] = NoReply /\ \A x \in Downloads \ {d} :
           reply'[x] = reply[x] /\ status'[x] = status[x] /\ output'[x] = output[x]
    BY <1>2 DEF Emit, IInv, TypeInv, TypeOK
  <2>3. RepliesFit'
    BY <2>2, RepliesKept DEF IInv, Truth, Running
  <2>4. ChecksumsForeign'
    <3>1. written # <<Junk>>
      BY JunkIsContents, CachedDownloadValues DEF Good
    <3>. HIDE DEF written
    <3>2. \A j \in EntryIds : entries'[j].md5 \in {entries[j].md5, written}
      BY <1>2 DEF FinalizeCache, IInv, TypeInv, TypeOK, Entry
    <3>3. IF saved = NoEntry THEN saved' = NoEntry ELSE saved'.md5 = saved.md5
      BY <1>2 DEF FinalizeCache, IInv, TypeInv, TypeOK, Entry
    <3>. QED
      BY <3>1, <3>2, <3>3 DEF ChecksumsForeign, IInv, Truth
  <2>. QED
    BY <2>1, <2>3, <2>4, SoundSuffices DEF Truth
<1>. QED
  BY <1>1, <1>2 DEF Finalize

\* What a download in progress is finalized with is good.
LEMMA FinishOutcome ==
  ASSUME IInv, NEW d \in Downloads, Running(d),
         status[d] = "InProgress", reply[d].head # "redirect",
         reply[d].failed \/ reply[d].head \notin {"none", "error"}, FinishInProgress(d)
  PROVE  \E out : \E lost \in BOOLEAN : Good(d, out, lost) /\ Finalize(d, out, lost)
<1>1. ReplyFits(d)
  BY DEF IInv, Truth, RepliesFit
<1>2. reply[d].head \in {"200", "304"} /\ reply[d].left \in Contents
      /\ output[d] \in Contents \cup {NoFile}
  BY <1>1 DEF ReplyFits, IInv, TypeInv, TypeOK, Running, Reply
<1>3. CASE reply[d].head = "304"
  <2>1. reply[d].left = <<>> /\ output[d] = NoFile /\ (Sound \/ tampered[d])
    BY <1>1, <1>3 DEF ReplyFits, IInv, Truth, HoldersSound
  <2>2. Good(d, NoFile, FALSE) /\ Finalize(d, NoFile, FALSE)
    BY <1>3, <2>1 DEF FinishInProgress, Good
  <2>. QED
    BY <2>2
<1>4. CASE reply[d].head = "200"
  <2>. DEFINE v == reply[d].version
              out == Appended(d, reply[d].left)
  <2>1. v \in Versions
    BY <1>1, <1>4 DEF ReplyFits
  <2>6. Follows(out, v, reply[d].dirty)
    BY <1>1, <1>4 DEF ReplyFits
  <2>7. PICK c \in Contents : out = c \o Whole(v) /\ (c # <<>> <=> reply[d].dirty)
    <3>. HIDE DEF out, v
    <3>. QED
      BY <2>6 DEF Follows
  <2>2. out \in Contents \ {<<>>, <<Junk>>} /\ (IsWhole(out) \/ reply[d].dirty)
    BY <2>1, <2>7, AfterRedirect DEF IsWhole
  <2>3. Good(d, out, FALSE)
    BY <2>2 DEF Good
  <2>4. CASE reply[d].left # <<>>
    <3>1. CASE Finalize(d, out, FALSE)
      BY <2>3, <3>1
    <3>2. CASE Finalize(d, NoFile, TRUE)
      BY <1>4, <3>2 DEF Good
    <3>. QED
      BY <2>4, <3>1, <3>2 DEF FinishInProgress
  <2>5. CASE reply[d].left = <<>>
    <3>1. (IF output[d] = NoFile THEN <<>> ELSE output[d]) = out
      BY <1>2, <2>5, ConcatEmptySeq, JunkIsContents DEF Appended, Contents
    <3>2. output[d] = out
      BY <2>2, <3>1
    <3>3. Finalize(d, out, FALSE)
      BY <2>5, <3>2 DEF FinishInProgress
    <3>. QED
      BY <2>3, <3>3
  <2>. QED
    BY <2>4, <2>5
<1>. QED
  BY <1>2, <1>3, <1>4

\* What SuccessMeansWhole says of a step.
SuccessStep ==
  \A d \in Downloads :
    (answer[d] \notin {"ok", "hit"} /\ answer'[d] \in {"ok", "hit"}) =>
       IsWhole(file') \/ spoilt' \/ (answer'[d] = "hit" /\ tampered[d])

LEMMA FinishedTruth ==
  ASSUME IInv, NEW d \in Downloads, Finished(d) \/ Abort(d)
  PROVE  Truth' /\ SuccessStep
<1>1. Running(d) /\ status[d] \in {"InProgress", "Failed", "Aborted", "FailedProceed"}
  BY DEF Finished, Abort, IInv, TypeInv, StatusFits
<1>2. ASSUME NEW s, FollowRedirect(d, s)
      PROVE  Truth' /\ SuccessStep
  BY <1>1, <1>2, FollowRedirectTruth DEF FollowRedirect, SuccessStep
<1>3. ASSUME NEW s \in {"Failed", "Aborted", "FailedProceed"}, EndsInFailure(d, s)
      PROVE  Truth' /\ SuccessStep
  <2>1. PICK signal \in {"failed", "aborted", "local"} : GiveUp(d, s, signal)
    BY <1>3 DEF EndsInFailure
  <2>2. SuccessStep
    BY <2>1 DEF GiveUp, Emit, SuccessStep, IInv, TypeInv, TypeOK
  <2>. QED
    BY <2>1, <2>2, GiveUpTruth
<1>4. ASSUME status[d] = "InProgress", reply[d].head # "redirect",
             reply[d].failed \/ reply[d].head \notin {"none", "error"}, FinishInProgress(d)
      PROVE  Truth' /\ SuccessStep
  <2>1. PICK out : \E lost \in BOOLEAN : Good(d, out, lost) /\ Finalize(d, out, lost)
    BY <1>1, <1>4, FinishOutcome
  <2>4. PICK lost \in BOOLEAN : Good(d, out, lost) /\ Finalize(d, out, lost)
    BY <2>1
  <2>2. Truth' /\ (Sound' \/ answer'[d] = "failed")
    BY <1>1, <2>4, FinalizeTruth
  <2>3. \A x \in Downloads \ {d} : answer'[x] = answer[x]
    BY <2>4 DEF Finalize, GiveUp, Emit, IInv, TypeInv, TypeOK
  <2>. QED
    BY <2>2, <2>3 DEF SuccessStep, Sound, IsWhole
<1>. QED
  BY <1>1, <1>2, <1>3, <1>4 DEF Finished, Abort

LEMMA MakeCachedTruth ==
  ASSUME IInv, NEW d \in Downloads, NEW force \in BOOLEAN, NEW acceptLocal,
         MakeCached(d, force, acceptLocal)
  PROVE  Truth' /\ SuccessStep
<1>1. /\ ~Running(d) /\ UNCHANGED <<server, file, spoilt, reply, redirects, output, saved>>
      /\ entry' = [entry EXCEPT ![d] = Resolved(d)] /\ Resolved(d) \in EntryIds
      /\ \A x \in Downloads \ {d} : /\ status'[x] = status[x] /\ answer'[x] = answer[x]
                                    /\ tampered'[x] = tampered[x]
      /\ answer'[d] = "none"
  BY ResolvedIsEntry DEF MakeCached, ResolveEntry, IInv, TypeInv, TypeOK
<1>2. RepliesFit'
  BY <1>1, RepliesKept DEF IInv, Truth, Running
<1>3. SuccessStep
  BY <1>1 DEF SuccessStep
<1>4. ChecksumsForeign'
  <2>1. ASSUME NEW j \in EntryIds PROVE entries'[j].md5 \in {entries[j].md5, Unknown}
    <3>1. entries[j] \in Entry
      BY DEF IInv, TypeInv, TypeOK
    <3>2. \/ entries'[j] = [entries[j] EXCEPT !.current = TRUE, !.stale = @ \/ force]
          \/ entries'[j] \in {entries[j], StaleEntry}
      BY DEF MakeCached, ResolveEntry
    <3>3. CASE entries'[j] = [entries[j] EXCEPT !.current = TRUE, !.stale = @ \/ force]
      BY <3>1, <3>3 DEF Entry
    <3>4. CASE entries'[j] \in {entries[j], StaleEntry}
      BY <3>4 DEF StaleEntry
    <3>. QED
      BY <3>2, <3>3, <3>4
  <2>. QED
    BY <1>1, <2>1, JunkIsContents, CachedDownloadValues DEF IInv, Truth, ChecksumsForeign
<1>5. CASE Kept
  <2>1. Sound'
    BY <1>1, <1>5, KeptSound DEF Sound, IsWhole
  <2>. QED
    BY <1>2, <1>3, <1>4, <2>1, SoundSuffices DEF Truth
<1>6. CASE ~Kept
  <2>1. \A j \in EntryIds : entries'[j] = IF j \in HeldByOthers(d) THEN entries[j]
                                          ELSE StaleEntry
    BY <1>6 DEF MakeCached, ResolveEntry
  <2>2. \A x \in Downloads \ {d} : entry'[x] = entry[x] /\ entry[x] \in HeldByOthers(d)
                                   /\ entry[x] \in EntryIds \cup {NoEntry}
    BY <1>1 DEF HeldByOthers, IInv, TypeInv, TypeOK
  <2>3. entry'[d] = Resolved(d) /\ entries'[Resolved(d)] = StaleEntry
    BY <1>1, <1>6, <2>1, ResolvedIsEntry DEF IInv, TypeInv, TypeOK
  <2>4. StampsSound' /\ FileKnown'
    BY <1>1, <2>1 DEF StampsSound, FileKnown, Sound, StaleEntry, IInv, Truth
  <2>5. HoldersSound'
    BY <1>1, <2>1, <2>2, <2>3 DEF HoldersSound, Sound, StaleEntry, IInv, Truth, Running
  <2>. QED
    BY <1>2, <1>3, <1>4, <2>4, <2>5 DEF Truth
<1>. QED
  BY <1>5, <1>6

LEMMA StartTruth ==
  ASSUME IInv, NEW d \in Downloads, Start(d)
  PROVE  Truth' /\ SuccessStep
<1>1. entry[d] \in EntryIds
      /\ UNCHANGED <<file, tampered, spoilt, entries, saved, entry, output>>
  BY DEF Start, cacheVars, fileVars, IInv, TypeInv, TypeOK
<1>2. ChecksumsForeign' /\ StampsSound' /\ FileKnown'
  BY <1>1, CacheKept DEF IInv, Truth
<1>3. CASE entries[entry[d]].stale
  <2>1. /\ reply'[d].head = "none" /\ reply'[d].failed = FALSE /\ reply'[d].left = <<>>
        /\ reply'[d].asked = Condition(d) /\ reply'[d].dirty = FALSE
        /\ \A x \in Downloads \ {d} : reply'[x] = reply[x]
    BY <1>3 DEF Start, SendRequest, IInv, TypeInv, TypeOK
  <2>2. output[d] = NoFile /\ NoFile # <<>>
    BY CachedDownloadValues, JunkIsContents DEF Start, Running, IInv, TypeInv, TypeOK
  <2>3. ReplyFits(d)'
    BY <1>1, <2>1, <2>2 DEF ReplyFits
  <2>4. RepliesFit'
    BY <1>1, <1>3, <2>1, <2>3, RepliesKept DEF Start, IInv, Truth, TypeInv, TypeOK
  <2>5. Condition(d) # Unknown /\ ~tampered[d] => Sound
    BY <1>1, CachedDownloadValues DEF Condition, IInv, Truth, HoldersSound, TypeInv, TypeOK
  <2>6. HoldersSound'
    BY <1>1, <2>1, <2>5 DEF HoldersSound, Sound, IInv, Truth, Running
  <2>7. SuccessStep
    BY <1>3 DEF Start, SuccessStep
  <2>. QED
    BY <1>2, <2>4, <2>6, <2>7 DEF Truth
<1>4. CASE ~entries[entry[d]].stale
  <2>1. IsWhole(file') \/ spoilt' \/ tampered[d]
    BY <1>1, <1>4, CachedDownloadValues DEF IInv, Truth, HoldersSound, Sound, IsWhole
  <2>2. RepliesFit' /\ reply' = reply
    BY <1>4, RepliesKept DEF Start, IInv, Truth, TypeInv, TypeOK, Running
  <2>3. HoldersSound'
    BY <1>1, <2>2, HoldersKept DEF IInv, Truth, Running
  <2>4. /\ answer'[d] = "hit"
        /\ \A x \in Downloads \ {d} : answer'[x] = answer[x]
    BY <1>4 DEF Start, IInv, TypeInv, TypeOK
  <2>5. SuccessStep
    BY <2>1, <2>4 DEF SuccessStep
  <2>. QED
    BY <1>2, <2>2, <2>3, <2>5 DEF Truth
<1>. QED
  BY <1>3, <1>4

LEMMA RespondTruth ==
  ASSUME IInv, NEW d \in Downloads, NEW head \in {"200", "304", "redirect", "error"},
         Respond(d, head)
  PROVE  Truth'
<1>1. ReplyFits(d) /\ reply[d].head = "none" /\ Running(d) /\ reply[d] \in Reply
  BY DEF Respond, IInv, Truth, RepliesFit, TypeInv, TypeOK, Running
<1>2. /\ reply[d].left = <<>> /\ server \in Versions /\ Unknown # server
      /\ output[d] \in Contents \cup {NoFile}
  BY <1>1, CachedDownloadValues DEF ReplyFits, IInv, TypeInv, TypeOK
<1>3. /\ reply'[d].head = head /\ reply'[d].failed = reply[d].failed
      /\ reply'[d].asked = reply[d].asked /\ reply'[d].dirty = reply[d].dirty
      /\ head \in {"200", "304"} => reply'[d].version = server
      /\ head = "200" => reply'[d].left = Whole(server)
      /\ head = "304" => reply'[d].left = <<>>
      /\ \A x \in Downloads \ {d} : reply'[x] = reply[x]
  BY <1>1 DEF Respond, IInv, TypeInv, TypeOK, Reply
<1>4. head = "304" => reply[d].asked # Unknown
  BY <1>2 DEF Respond
<1>5. output' = output /\ status' = status
  BY DEF Respond
<1>6. head = "200" /\ status[d] = "InProgress" =>
        Follows(Appended(d, reply[d].left)', server, reply[d].dirty)
  <2>. DEFINE c == IF output[d] = NoFile THEN <<>> ELSE output[d]
  <2>. SUFFICES ASSUME head = "200", status[d] = "InProgress"
                PROVE  /\ c \in Contents /\ Appended(d, reply[d].left)' = c \o Whole(server)
                       /\ c # <<>> <=> reply[d].dirty
    BY DEF Follows
  <2>1. c \in Contents
    BY <1>2, JunkIsContents
  <2>2. Appended(d, reply[d].left)' = c \o Whole(server)
    BY <1>3, <1>5 DEF Appended
  <2>3. c # <<>> <=> reply[d].dirty
    BY <1>1 DEF ReplyFits
  <2>. QED
    BY <2>1, <2>2, <2>3
<1>7. ReplyFits(d)'
  <2>1. CASE head = "200"
    BY <1>1, <1>2, <1>3, <1>5, <1>6, <2>1 DEF ReplyFits
  <2>2. CASE head # "200"
    BY <1>1, <1>2, <1>3, <1>4, <1>5, <2>2 DEF ReplyFits
  <2>. QED
    BY <2>1, <2>2
<1>8. RepliesFit'
  BY <1>3, <1>5, <1>7, RepliesKept DEF IInv, Truth
<1>9. ChecksumsForeign' /\ StampsSound' /\ FileKnown'
  BY CacheKept DEF Respond, IInv, Truth, cacheVars, fileVars
<1>10. HoldersSound'
  BY <1>1, <1>3, HoldersKept DEF Respond, IInv, Truth, cacheVars, fileVars, Running
<1>. QED
  BY <1>8, <1>9, <1>10 DEF Truth

\* Moving a piece from the reply to the file leaves what they make together.
LEMMA PieceMoves ==
  ASSUME NEW s \in Contents, NEW t \in Contents, t # <<>>
  PROVE  /\ (s \o <<Head(t)>>) \o Tail(t) = s \o t
         /\ s \o <<Head(t)>> \in Contents /\ s \o <<Head(t)>> # <<>>
<1>1. <<Head(t)>> \in Contents /\ Tail(t) \in Contents
  BY DEF Contents
<1>2. <<Head(t)>> \o Tail(t) = t
  BY <1>1 DEF Contents
<1>3. s \o <<Head(t)>> \in Contents /\ Len(s \o <<Head(t)>>) = Len(s) + 1 /\ Len(s) \in Nat
  BY <1>1, ConcatProperties DEF Contents
<1>4. (s \o <<Head(t)>>) \o Tail(t) = s \o t
  BY <1>1, <1>2, ConcatAssociative DEF Contents
<1>5. s \o <<Head(t)>> # <<>>
  BY <1>3
<1>. QED
  BY <1>3, <1>4, <1>5

LEMMA ReadyReadTruth ==
  ASSUME IInv, NEW d \in Downloads, ReadyRead(d)
  PROVE  Truth'
<1>. DEFINE t == reply[d].left
            s == IF output[d] = NoFile THEN <<>> ELSE output[d]
<1>1. ReplyFits(d) /\ Running(d) /\ reply[d] \in Reply /\ t # <<>> /\ t \in Contents
      /\ s \in Contents /\ output[d] \in Contents \cup {NoFile}
  BY DEF ReadyRead, IInv, Truth, RepliesFit, TypeInv, TypeOK, Running, Reply, Contents
<1>2. /\ reply'[d].head = reply[d].head /\ reply'[d].failed = reply[d].failed
      /\ reply'[d].asked = reply[d].asked /\ reply'[d].version = reply[d].version
      /\ reply'[d].dirty = reply[d].dirty /\ reply'[d].left = Tail(t)
      /\ \A x \in Downloads \ {d} : reply'[x] = reply[x]
  BY <1>1 DEF ReadyRead, IInv, TypeInv, TypeOK, Reply
<1>3. reply[d].head \in {"200", "error", "redirect"} /\ ~reply[d].failed
  BY <1>1 DEF ReplyFits, ReadyRead, Reply
<1>4. \A x \in Downloads \ {d} : output'[x] = output[x] /\ status'[x] = status[x]
  BY DEF ReadyRead, IInv, TypeInv, TypeOK
<1>5. ReplyFits(d)'
  <2>1. CASE output'[d] = s \o <<Head(t)>> /\ status'[d] = status[d]
    <3>1. /\ (s \o <<Head(t)>>) \o Tail(t) = s \o t
          /\ s \o <<Head(t)>> \in Contents /\ s \o <<Head(t)>> # <<>>
      BY <1>1, PieceMoves
    <3>2. output'[d] # NoFile /\ output'[d] # <<>>
      BY <2>1, <3>1, CachedDownloadValues
    <3>3. Appended(d, reply[d].left)' = Appended(d, t)
      BY <1>2, <2>1, <3>1, <3>2 DEF Appended
    <3>. QED
      BY <1>1, <1>2, <1>3, <2>1, <3>2, <3>3 DEF ReplyFits
  <2>2. CASE status'[d] = "Failed" /\ output'[d] = NoFile
    <3>1. NoFile # <<>>
      BY CachedDownloadValues, JunkIsContents
    <3>. QED
      BY <1>1, <1>2, <1>3, <2>2, <3>1 DEF ReplyFits
  <2>. QED
    BY <2>1, <2>2 DEF ReadyRead, Appended, IInv, TypeInv, TypeOK
<1>6. RepliesFit'
  BY <1>2, <1>4, <1>5, RepliesKept DEF IInv, Truth
<1>7. ChecksumsForeign' /\ StampsSound' /\ FileKnown'
  BY CacheKept DEF ReadyRead, IInv, Truth, cacheVars, fileVars
<1>8. HoldersSound'
  BY <1>1, <1>2, HoldersKept DEF ReadyRead, IInv, Truth, cacheVars, fileVars, Running
<1>. QED
  BY <1>6, <1>7, <1>8 DEF Truth

LEMMA ErrorTruth ==
  ASSUME IInv, NEW d \in Downloads, Error(d)
  PROVE  Truth'
<1>1. ReplyFits(d) /\ Running(d) /\ reply[d] \in Reply
  BY DEF Error, IInv, Truth, RepliesFit, TypeInv, TypeOK, Running
<1>2. /\ reply'[d].head = reply[d].head /\ reply'[d].asked = reply[d].asked
      /\ reply'[d].left = reply[d].left /\ reply'[d].dirty = reply[d].dirty
      /\ \A x \in Downloads \ {d} : reply'[x] = reply[x] /\ status'[x] = status[x]
      /\ status'[d] \in {"Failed", "FailedProceed"} /\ output' = output
  BY <1>1 DEF Error, IInv, TypeInv, TypeOK, Reply
<1>3. ReplyFits(d)'
  BY <1>1, <1>2 DEF ReplyFits
<1>4. RepliesFit'
  BY <1>2, <1>3, RepliesKept DEF IInv, Truth
<1>5. ChecksumsForeign' /\ StampsSound' /\ FileKnown'
  BY CacheKept DEF Error, IInv, Truth, cacheVars, fileVars
<1>6. HoldersSound'
  BY <1>1, <1>2, HoldersKept DEF Error, IInv, Truth, cacheVars, fileVars, Running
<1>. QED
  BY <1>4, <1>5, <1>6 DEF Truth

\* What is saved has the checksum and the stamp of an entry.
LEMMA SavedTruth ==
  ASSUME IInv, Saved # NoEntry
  PROVE  Saved.md5 # <<Junk>> /\ (Saved.current => Sound)
BY DEF Saved, IInv, TypeInv, TypeOK, Truth, ChecksumsForeign, StampsSound

LEMMA RestartTruth ==
  ASSUME IInv, Restart,
         saved' # NoEntry => saved'.md5 # <<Junk>> /\ (saved'.current => Sound)
  PROVE  Truth'
<1>1. RepliesFit' /\ HoldersSound' /\ FileKnown'
  BY DEF Restart, RepliesFit, HoldersSound, FileKnown, Sound, Running, IInv, Truth
<1>2. \A i \in EntryIds : \/ entries'[i] = StaleEntry
                          \/ saved' # NoEntry /\ entries'[i] = saved'
  BY CachedDownloadValues DEF Restart
<1>3. Unknown # <<Junk>>
  BY CachedDownloadValues, JunkIsContents
<1>4. ChecksumsForeign'
  BY <1>2, <1>3 DEF ChecksumsForeign, StaleEntry
<1>5. StampsSound'
  BY <1>2 DEF StampsSound, Sound, StaleEntry, Restart
<1>. QED
  BY <1>1, <1>4, <1>5 DEF Truth

LEMMA TamperTruth ==
  ASSUME IInv, NEW how, Tamper(how)
  PROVE  Truth'
<1>1. \A i \in EntryIds : ~entries'[i].current /\ entries'[i].md5 = entries[i].md5
  BY DEF Tamper, IInv, TypeInv, TypeOK, Entry
<1>2. IF saved = NoEntry THEN saved' = NoEntry
                         ELSE saved'.md5 = saved.md5 /\ ~saved'.current
  BY DEF Tamper, IInv, TypeInv, TypeOK, Entry
<1>3. RepliesFit'
  BY DEF Tamper, RepliesFit, ReplyFits, Appended, Running, downloadVars, IInv, Truth
<1>4. HoldersSound'
  <2>1. \A d \in Downloads : ~tampered'[d] => entry'[d] = NoEntry /\ entry[d] = NoEntry
    BY DEF Tamper, downloadVars
  <2>2. \A d \in Downloads : Running(d) => entry[d] # NoEntry
    BY DEF IInv, TypeInv, StatusFits
  <2>. QED
    BY <2>1, <2>2 DEF HoldersSound, Tamper, downloadVars, Running
<1>5. ChecksumsForeign' /\ FileKnown'
  BY <1>1, <1>2 DEF ChecksumsForeign, FileKnown, Tamper, IInv, Truth
<1>6. StampsSound'
  BY <1>1, <1>2 DEF StampsSound
<1>. QED
  BY <1>3, <1>4, <1>5, <1>6 DEF Truth

LEMMA TruthStep ==
  ASSUME IInv, [Next]_vars
  PROVE  Truth' /\ SuccessStep
<1>1. CASE Evict
  <2>1. \A i \in EntryIds : /\ entries'[i].md5 = entries[i].md5
                            /\ entries'[i].current = entries[i].current
                            /\ entries'[i].etag = entries[i].etag
                            /\ ~entries'[i].stale => ~entries[i].stale
    BY <1>1 DEF Evict, IInv, TypeInv, TypeOK, Entry
  <2>2. UNCHANGED <<file, tampered, spoilt, saved, entry, status, reply, output, answer>>
    BY <1>1 DEF Evict, downloadVars, fileVars
  <2>3. RepliesFit' /\ SuccessStep
    BY <2>2 DEF RepliesFit, ReplyFits, Appended, Running, SuccessStep, IInv, Truth
  <2>4. ChecksumsForeign' /\ StampsSound' /\ FileKnown'
    BY <2>1, <2>2 DEF ChecksumsForeign, StampsSound, FileKnown, Sound, IInv, Truth
  <2>5. HoldersSound'
    BY <2>1, <2>2 DEF HoldersSound, Sound, IInv, Truth, TypeInv, TypeOK, Running
  <2>. QED
    BY <2>3, <2>4, <2>5 DEF Truth
<1>2. CASE SaveTimeout
  <2>1. /\ UNCHANGED <<file, tampered, spoilt, entries, entry, status, reply, output, answer>>
        /\ saved' = Saved
    BY <1>2 DEF SaveTimeout, downloadVars, fileVars
  <2>2. RepliesFit' /\ HoldersSound' /\ FileKnown' /\ SuccessStep
    BY <2>1 DEF RepliesFit, ReplyFits, Appended, HoldersSound, FileKnown, Sound, Running,
                SuccessStep, IInv, Truth
  <2>3. ChecksumsForeign' /\ StampsSound'
    BY <2>1, SavedTruth DEF ChecksumsForeign, StampsSound, Sound, IInv, Truth
  <2>. QED
    BY <2>2, <2>3 DEF Truth
<1>3. CASE ServerChanges \/ UNCHANGED vars
  <2>1. UNCHANGED <<file, tampered, spoilt, entries, saved, entry, status, reply, output, answer>>
    BY <1>3 DEF ServerChanges, vars, cacheVars, fileVars, downloadVars
  <2>2. RepliesFit' /\ HoldersSound' /\ SuccessStep
    BY <2>1 DEF RepliesFit, ReplyFits, Appended, HoldersSound, Sound, Running, SuccessStep,
                IInv, Truth
  <2>3. ChecksumsForeign' /\ StampsSound' /\ FileKnown'
    BY <2>1, CacheKept DEF IInv, Truth
  <2>. QED
    BY <2>2, <2>3 DEF Truth
<1>4. CASE Exit \/ Crash
  <2>1. Restart /\ saved' \in {Saved, saved}
    BY <1>4 DEF Exit, Crash
  <2>2. Truth'
    BY <2>1, SavedTruth, RestartTruth DEF IInv, Truth, ChecksumsForeign, StampsSound
  <2>. QED
    BY <2>1, <2>2 DEF Restart, SuccessStep
<1>5. ASSUME NEW d \in Downloads, NetworkStep(d)
      PROVE  Truth' /\ SuccessStep
  BY <1>5, RespondTruth, ReadyReadTruth, ErrorTruth, FinishedTruth
     DEF NetworkStep, SuccessStep, Respond, ReadyRead, Error
<1>6. ASSUME NEW how \in Tampers, Tamper(how)
      PROVE  Truth' /\ SuccessStep
  BY <1>6, TamperTruth DEF Tamper, SuccessStep, downloadVars
<1>. QED
  BY <1>1, <1>2, <1>3, <1>4, <1>5, <1>6, MakeCachedTruth, StartTruth, FinishedTruth DEF Next

LEMMA InitTruth == Init => Truth
<1>1. Unknown # <<Junk>>
  BY CachedDownloadValues, JunkIsContents
<1>. QED
  BY <1>1 DEF Init, Truth, RepliesFit, Running, ChecksumsForeign, FileKnown, StampsSound,
              HoldersSound, StaleEntry

\* An entry that passes the checks of resolveEntry() and is not stale stands for a
\* whole file, whenever others change the file and whatever writes fail, unless the
\* file came about in one of the ways that do not look at it.
THEOREM TrustJustified == Spec => []TrustedFileIsWhole
<1>1. Init => IInv
  BY InitFits, InitTruth DEF IInv
<1>2. IInv /\ [Next]_vars => IInv'
  BY TypeStep, TruthStep DEF IInv
<1>3. IInv => TrustedFileIsWhole
  BY KeptSound DEF TrustedFileIsWhole, Sound
<1>. QED
  BY <1>1, <1>2, <1>3, PTL DEF Spec

\* A download that reports success, from the server or from the cache, leaves a
\* whole file, unless it did not look at it in one of the ways SuccessMeansWhole
\* names.
THEOREM SuccessJustified == Spec => SuccessMeansWhole
<1>1. Init => IInv
  BY InitFits, InitTruth DEF IInv
<1>2. IInv /\ [Next]_vars => IInv'
  BY TypeStep, TruthStep DEF IInv
<1>3. IInv /\ [Next]_vars => SuccessStep
  BY TruthStep
<1>. QED
  BY <1>1, <1>2, <1>3, PTL DEF Spec, SuccessMeansWhole, SuccessStep

--------------------------------------------------------------------------------
(***************************************************************************)
(* One download at a time: what it leaves is as new as the server's file   *)
(* was when it started, with the same exceptions.                          *)
(***************************************************************************)
\* An entry with an ETag tells which version its stamp and its checksum stand for.
EntryTells(e) ==
  e.etag # Unknown => /\ e.current => file = Whole(e.etag) \/ spoilt
                      /\ e.md5 = Whole(e.etag) \/ ~IsWhole(e.md5)

EntriesTell ==
  /\ \A i \in EntryIds : EntryTells(entries[i])
  /\ saved # NoEntry => EntryTells(saved)

\* Whoever holds an entry with an ETag has that version, unless it was changed since.
HoldersHave ==
  \A d \in Downloads :
    ~tampered[d] /\ entry[d] # NoEntry /\ entries[entry[d]].etag # Unknown =>
      file = Whole(entries[entry[d]].etag) \/ spoilt

\* A request asks for what its entry has, and its answer is not older than the request.
ReplyFresh(d) ==
  /\ reply[d].since <= server
  /\ reply[d].asked # Unknown => entry[d] # NoEntry /\ entries[entry[d]].etag = reply[d].asked
  /\ reply[d].head = "304" => reply[d].asked # Unknown /\ reply[d].version = reply[d].asked
  /\ reply[d].head \in {"200", "304"} =>
       reply[d].version \in Versions /\ reply[d].version >= reply[d].since

RepliesFresh == \A d \in Downloads : Running(d) => ReplyFresh(d)

Fresh == EntriesTell /\ HoldersHave /\ RepliesFresh

\* A single download has the only entry there is.
LEMMA OneEntry ==
  ASSUME NEW d, Downloads = {d}
  PROVE  EntryIds = {1} /\ HeldByOthers(d) = {}
<1>1. Cardinality(Downloads) = 1
  BY FS_Singleton
<1>. QED
  BY <1>1 DEF EntryIds, HeldByOthers

\* What leaves file, entries and server alone is about the replies.
LEMMA FreshKept ==
  ASSUME Fresh, UNCHANGED <<file, tampered, spoilt, entries, saved, entry>>, RepliesFresh'
  PROVE  Fresh'
BY DEF Fresh, EntriesTell, EntryTells, HoldersHave, IsWhole

LEMMA GiveUpFresh ==
  ASSUME IInv, Fresh, NEW d, Downloads = {d}, NEW newStatus, NEW signal,
         GiveUp(d, newStatus, signal)
  PROVE  Fresh'
<1>1. reply'[d] = NoReply /\ UNCHANGED <<file, tampered, spoilt, entries, saved, entry>>
  BY DEF GiveUp, Emit, cacheVars, fileVars, IInv, TypeInv, TypeOK
<1>2. RepliesFresh'
  BY <1>1 DEF RepliesFresh, Running
<1>. QED
  BY <1>1, <1>2, FreshKept

LEMMA FollowRedirectFresh ==
  ASSUME IInv, Fresh, NEW d, Downloads = {d}, Running(d), NEW s, FollowRedirect(d, s)
  PROVE  Fresh'
<1>1. /\ reply'[d].head = "none" /\ reply'[d].asked = Unknown
      /\ reply'[d].since = reply[d].since
      /\ UNCHANGED <<server, file, tampered, spoilt, entries, saved, entry>>
  BY DEF FollowRedirect, SendRequest, cacheVars, fileVars, IInv, TypeInv, TypeOK
<1>2. RepliesFresh'
  BY <1>1 DEF RepliesFresh, ReplyFresh, Fresh, Running
<1>. QED
  BY <1>1, <1>2, FreshKept

\* The ways a download in progress ends with: the version of the answer, perhaps after
\* the body of a redirect, or nothing, of a file that was asked about.
GoodNow(d, out) ==
  \/ /\ reply[d].head = "200" /\ out \in Contents \ {<<>>}
     /\ \/ ~reply[d].dirty /\ out = Whole(reply[d].version)
        \/ reply[d].dirty /\ ~IsWhole(out)
  \/ reply[d].head = "304" /\ out = NoFile

LEMMA FinishOutcomeNow ==
  ASSUME IInv, "rest" \notin WriteFaults, NEW d \in Downloads, Running(d),
         status[d] = "InProgress", reply[d].head # "redirect",
         reply[d].failed \/ reply[d].head \notin {"none", "error"}, FinishInProgress(d)
  PROVE  \E out : GoodNow(d, out) /\ Finalize(d, out, FALSE)
<1>1. ReplyFits(d)
  BY DEF IInv, Truth, RepliesFit
<1>2. reply[d].head \in {"200", "304"} /\ reply[d].left \in Contents
      /\ output[d] \in Contents \cup {NoFile}
  BY <1>1 DEF ReplyFits, IInv, TypeInv, TypeOK, Running, Reply
<1>3. CASE reply[d].head = "304"
  BY <1>1, <1>3 DEF ReplyFits, FinishInProgress, GoodNow
<1>4. CASE reply[d].head = "200"
  <2>. DEFINE v == reply[d].version
              out == Appended(d, reply[d].left)
  <2>1. v \in Versions /\ Follows(out, v, reply[d].dirty)
    BY <1>1, <1>4 DEF ReplyFits
  <2>2. PICK c \in Contents : out = c \o Whole(v) /\ (c # <<>> <=> reply[d].dirty)
    <3>. HIDE DEF out, v
    <3>. QED
      BY <2>1 DEF Follows
  <2>3. /\ out \in Contents \ {<<>>}
        /\ ~reply[d].dirty => out = Whole(v)
        /\ reply[d].dirty => ~IsWhole(out)
    BY <2>1, <2>2, AfterRedirect
  <2>4. GoodNow(d, out)
    BY <1>4, <2>3 DEF GoodNow
  <2>5. CASE reply[d].left # <<>>
    BY <2>4, <2>5 DEF FinishInProgress
  <2>6. CASE reply[d].left = <<>>
    <3>1. (IF output[d] = NoFile THEN <<>> ELSE output[d]) = out
      BY <1>2, <2>6, ConcatEmptySeq, JunkIsContents DEF Appended, Contents
    <3>2. output[d] = out
      BY <2>3, <3>1
    <3>3. Finalize(d, out, FALSE)
      BY <2>6, <3>2 DEF FinishInProgress
    <3>. QED
      BY <2>4, <3>3
  <2>. QED
    BY <2>5, <2>6
<1>. QED
  BY <1>2, <1>3, <1>4

\* What SuccessIsCurrent says of a step.
CurrentStep ==
  \A d \in Downloads :
    (answer[d] # "ok" /\ answer'[d] = "ok") =>
      \/ \E v \in Versions : v >= reply[d].since /\ file' = Whole(v)
      \/ spoilt'

LEMMA FinalizeFresh ==
  ASSUME IInv, Fresh, NEW d, Downloads = {d}, Running(d), NEW out, GoodNow(d, out),
         Finalize(d, out, FALSE)
  PROVE  Fresh' /\ CurrentStep
<1>. DEFINE v == reply[d].version
            written == IF out # NoFile THEN out
                       ELSE IF reply[d].head = "200" THEN <<>> ELSE NoFile
<1>1. ReplyFresh(d) /\ v \in Versions /\ v >= reply[d].since
  BY DEF Fresh, RepliesFresh, ReplyFresh, GoodNow
<1>2. Whole(v) \in Contents /\ Whole(v) # <<>> /\ Whole(v) # NoFile /\ Whole(v) # Unknown
  BY <1>1, WholeIsContents, CachedDownloadValues
<1>3. written = out /\ NoFile \notin {<<>>, Unknown} /\ ~IsWhole(NoFile)
  BY <1>2, CachedDownloadValues, JunkIsContents, WholeIsContents DEF GoodNow, IsWhole
<1>4. CASE GiveUp(d, "Failed", "failed")
  <2>1. answer'[d] = "failed"
    BY <1>4 DEF GiveUp, Emit, IInv, TypeInv, TypeOK
  <2>. QED
    BY <1>4, <2>1, GiveUpFresh DEF CurrentStep
<1>5. CASE /\ FinalizeCache(d, written)
           /\ file' = IF written = NoFile THEN file ELSE written
           /\ spoilt' = IF written = NoFile THEN spoilt \/ tampered[d]
                        ELSE FALSE \/ reply[d].dirty
           /\ status' = [status EXCEPT ![d] = "Finished"]
           /\ Emit(d, "ok")
           /\ UNCHANGED <<server, entry, local, redirects>>
  <2>. HIDE DEF v, written
  <2>1. file' = Whole(v) \/ spoilt'
    <3>1. CASE reply[d].head = "200" /\ out # NoFile
      <4>1. file' = out /\ spoilt' = (FALSE \/ reply[d].dirty)
        BY <1>3, <1>5, <3>1
      <4>. QED
        BY <3>1, <4>1 DEF GoodNow, v
    <3>2. CASE reply[d].head = "304" /\ out = NoFile
      <4>1. reply[d].asked = v /\ v # Unknown /\ entry[d] # NoEntry
            /\ entries[entry[d]].etag = v
        BY <1>1, <3>2 DEF ReplyFresh, v
      <4>2. file = Whole(v) \/ spoilt \/ tampered[d]
        BY <4>1 DEF Fresh, HoldersHave
      <4>3. file' = file /\ spoilt' = (spoilt \/ tampered[d])
        BY <1>3, <1>5, <3>2
      <4>. QED
        BY <4>2, <4>3
    <3>. QED
      BY <1>3, <3>1, <3>2, CachedDownloadValues DEF GoodNow
  <2>2. ASSUME NEW i \in EntryIds
        PROVE  EntryTells(entries[i])' /\ (entry[d] = i => entries'[i].etag = v)
    <3>1. entries' = [j \in EntryIds |->
                        IF j = entry[d]
                        THEN [stale |-> FALSE, etag |-> v,
                              current |-> written # NoFile \/ file # NoFile,
                              md5 |-> IF written \in {NoFile, <<>>} THEN entries[entry[d]].md5
                                      ELSE written]
                        ELSE [entries[j] EXCEPT !.current = @ /\ written = NoFile]]
      BY <1>5 DEF FinalizeCache, v
    <3>2. CASE i = entry[d]
      <4>1. entries'[i].etag = v /\ entries'[i].md5 = IF written \in {NoFile, <<>>}
                                                      THEN entries[i].md5 ELSE written
        BY <3>1, <3>2
      <4>2. CASE out # NoFile
        <5>1. entries'[i].md5 = out
          BY <1>3, <4>1, <4>2 DEF GoodNow
        <5>2. out = Whole(v) \/ ~IsWhole(out)
          BY <4>2 DEF GoodNow, v
        <5>. QED
          BY <2>1, <4>1, <5>1, <5>2 DEF EntryTells, IsWhole
      <4>3. CASE reply[d].head = "304" /\ out = NoFile
        <5>1. entries[i].etag = v /\ v # Unknown
          BY <1>1, <3>2, <4>3 DEF ReplyFresh, v
        <5>2. entries[i].md5 = Whole(v) \/ ~IsWhole(entries[i].md5)
          BY <5>1 DEF Fresh, EntriesTell, EntryTells
        <5>. QED
          BY <1>3, <2>1, <4>1, <4>3, <5>2 DEF EntryTells, IsWhole
      <4>. QED
        BY <4>1, <4>2, <4>3, CachedDownloadValues DEF GoodNow
    <3>3. CASE i # entry[d]
      <4>1. entries[i] \in Entry /\ EntryTells(entries[i])
        BY DEF IInv, TypeInv, TypeOK, Fresh, EntriesTell
      <4>2. /\ entries'[i].etag = entries[i].etag /\ entries'[i].md5 = entries[i].md5
            /\ entries'[i].current => entries[i].current /\ written = NoFile
        BY <3>1, <3>3, <4>1 DEF Entry
      <4>3. written = NoFile => file' = file /\ spoilt' = (spoilt \/ tampered[d])
        BY <1>5
      <4>. QED
        BY <3>3, <4>1, <4>2, <4>3 DEF EntryTells, IsWhole
    <3>. QED
      BY <3>2, <3>3
  <2>3. saved' # NoEntry => EntryTells(saved)'
    <3>1. CASE saved = NoEntry
      BY <1>5, <3>1 DEF FinalizeCache
    <3>2. CASE saved # NoEntry
      <4>1. saved \in Entry /\ EntryTells(saved)
        BY <3>2 DEF IInv, TypeInv, TypeOK, Fresh, EntriesTell
      <4>2. saved' = [saved EXCEPT !.current = @ /\ written = NoFile]
        BY <1>5, <3>2 DEF FinalizeCache
      <4>3. /\ saved'.etag = saved.etag /\ saved'.md5 = saved.md5
            /\ saved'.current => saved.current /\ written = NoFile
        BY <4>1, <4>2 DEF Entry
      <4>4. written = NoFile => file' = file /\ spoilt' = (spoilt \/ tampered[d])
        BY <1>5
      <4>. QED
        BY <4>1, <4>3, <4>4 DEF EntryTells, IsWhole
    <3>. QED
      BY <3>1, <3>2
  <2>4. entry' = entry /\ entry[d] \in EntryIds \cup {NoEntry} /\ reply'[d] = NoReply
    BY <1>5 DEF Emit, IInv, TypeInv, TypeOK
  <2>5. HoldersHave'
    BY <2>1, <2>2, <2>4 DEF HoldersHave
  <2>6. RepliesFresh'
    BY <2>4 DEF RepliesFresh, Running
  <2>7. CurrentStep
    BY <1>1, <2>1 DEF CurrentStep
  <2>. QED
    BY <2>2, <2>3, <2>5, <2>6, <2>7 DEF Fresh, EntriesTell
<1>. QED
  BY <1>4, <1>5 DEF Finalize

LEMMA FinishedFresh ==
  ASSUME IInv, Fresh, "rest" \notin WriteFaults, NEW d, Downloads = {d},
         Finished(d) \/ Abort(d)
  PROVE  Fresh' /\ CurrentStep
<1>1. Running(d) /\ status[d] \in {"InProgress", "Failed", "Aborted", "FailedProceed"}
  BY DEF Finished, Abort, IInv, TypeInv, StatusFits
<1>2. ASSUME NEW s, FollowRedirect(d, s)
      PROVE  Fresh' /\ CurrentStep
  BY <1>1, <1>2, FollowRedirectFresh DEF FollowRedirect, CurrentStep
<1>3. ASSUME NEW s \in {"Failed", "Aborted", "FailedProceed"}, EndsInFailure(d, s)
      PROVE  Fresh' /\ CurrentStep
  <2>1. PICK signal \in {"failed", "aborted", "local"} : GiveUp(d, s, signal)
    BY <1>3 DEF EndsInFailure
  <2>2. CurrentStep
    BY <2>1 DEF GiveUp, Emit, CurrentStep, IInv, TypeInv, TypeOK
  <2>. QED
    BY <2>1, <2>2, GiveUpFresh
<1>4. ASSUME status[d] = "InProgress", reply[d].head # "redirect",
             reply[d].failed \/ reply[d].head \notin {"none", "error"}, FinishInProgress(d)
      PROVE  Fresh' /\ CurrentStep
  <2>1. PICK out : GoodNow(d, out) /\ Finalize(d, out, FALSE)
    BY <1>1, <1>4, FinishOutcomeNow
  <2>. QED
    BY <1>1, <2>1, FinalizeFresh
<1>. QED
  BY <1>1, <1>2, <1>3, <1>4 DEF Finished, Abort

\* The entry a file is resolved to tells its version, or nothing.
LEMMA MakeCachedFresh ==
  ASSUME IInv, Fresh, NEW d, Downloads = {d}, NEW force \in BOOLEAN, NEW acceptLocal,
         MakeCached(d, force, acceptLocal)
  PROVE  Fresh' /\ CurrentStep
<1>1. /\ ~Running(d) /\ UNCHANGED <<file, spoilt, reply, saved>> /\ answer'[d] = "none"
      /\ entry'[d] = Resolved(d) /\ Resolved(d) \in EntryIds
  BY ResolvedIsEntry DEF MakeCached, ResolveEntry, IInv, TypeInv, TypeOK
<1>2. RepliesFresh' /\ CurrentStep
  BY <1>1 DEF RepliesFresh, Running, CurrentStep
<1>3. EntryTells(StaleEntry)' /\ StaleEntry.etag = Unknown
  BY DEF EntryTells, StaleEntry
<1>4. saved' # NoEntry => EntryTells(saved)'
  BY <1>1 DEF Fresh, EntriesTell, EntryTells, IsWhole
<1>5. EntryIds = {1} /\ HeldByOthers(d) = {}
  BY OneEntry
<1>6. CASE ~Kept
  <2>1. \A i \in EntryIds : entries'[i] = StaleEntry
    BY <1>5, <1>6 DEF MakeCached, ResolveEntry
  <2>2. \A i \in EntryIds : EntryTells(entries[i])'
    BY <2>1, <1>3 DEF EntryTells, StaleEntry
  <2>3. HoldersHave'
    BY <1>1, <1>3, <2>1 DEF HoldersHave
  <2>. QED
    BY <1>2, <1>4, <2>2, <2>3 DEF Fresh, EntriesTell
<1>7. CASE Kept
  <2>1. map = 1 /\ Resolved(d) = 1 /\ 1 \in EntryIds /\ file \in Contents
        /\ (entries[1].current \/ entries[1].md5 = file) /\ entries[1] \in Entry
    BY <1>1, <1>5, <1>7 DEF Kept, HasFile, IInv, TypeInv, TypeOK
  <2>2. entries[1].etag # Unknown => file = Whole(entries[1].etag) \/ spoilt
    BY <1>7, <2>1, KeptSound DEF Fresh, EntriesTell, EntryTells, Sound
  <2>3. entries'[1] = [entries[1] EXCEPT !.current = TRUE, !.stale = @ \/ force]
    BY <1>7, <2>1 DEF MakeCached, ResolveEntry
  <2>4. entries'[1].etag = entries[1].etag /\ entries'[1].md5 = entries[1].md5
    BY <2>1, <2>3 DEF Entry
  <2>5. \A i \in EntryIds : EntryTells(entries[i])'
    BY <1>1, <1>5, <2>1, <2>2, <2>4 DEF EntryTells, Fresh, EntriesTell, IsWhole
  <2>6. HoldersHave'
    BY <1>1, <2>1, <2>2, <2>4 DEF HoldersHave
  <2>. QED
    BY <1>2, <1>4, <2>5, <2>6 DEF Fresh, EntriesTell
<1>. QED
  BY <1>6, <1>7

LEMMA StartFresh ==
  ASSUME IInv, Fresh, NEW d, Downloads = {d}, Start(d)
  PROVE  Fresh' /\ CurrentStep
<1>1. entry[d] # NoEntry /\ UNCHANGED <<server, file, tampered, spoilt, entries, saved, entry>>
  BY DEF Start, cacheVars, fileVars
<1>2. CurrentStep
  BY DEF Start, CurrentStep, IInv, TypeInv, TypeOK
<1>3. CASE entries[entry[d]].stale
  <2>1. /\ reply'[d].head = "none" /\ reply'[d].asked = Condition(d)
        /\ reply'[d].since = server /\ server \in Nat
    BY <1>3 DEF Start, SendRequest, IInv, TypeInv, TypeOK, Versions
  <2>2. Condition(d) # Unknown => entries[entry[d]].etag = Condition(d)
    BY DEF Condition
  <2>3. RepliesFresh'
    BY <1>1, <2>1, <2>2 DEF RepliesFresh, ReplyFresh
  <2>. QED
    BY <1>1, <1>2, <2>3, FreshKept
<1>4. CASE ~entries[entry[d]].stale
  <2>1. RepliesFresh'
    BY <1>4 DEF Start, RepliesFresh, Running
  <2>. QED
    BY <1>1, <1>2, <2>1, FreshKept
<1>. QED
  BY <1>3, <1>4

\* The server answers with the version it has by then.
LEMMA RespondFresh ==
  ASSUME IInv, Fresh, NEW d, Downloads = {d},
         NEW head \in {"200", "304", "redirect", "error"}, Respond(d, head)
  PROVE  Fresh' /\ CurrentStep
<1>1. ReplyFresh(d) /\ reply[d] \in Reply /\ server \in Versions /\ reply[d].since \in Versions
  BY DEF Respond, Fresh, RepliesFresh, IInv, TypeInv, TypeOK, Running, Reply
<1>2. /\ reply'[d].head = head /\ reply'[d].asked = reply[d].asked
      /\ reply'[d].since = reply[d].since
      /\ head \in {"200", "304"} => reply'[d].version = server
  BY <1>1 DEF Respond, IInv, TypeInv, TypeOK, Reply
<1>3. UNCHANGED <<server, file, tampered, spoilt, entries, saved, entry, answer>>
  BY DEF Respond, cacheVars, fileVars
<1>4. head = "304" => reply[d].asked = server
  BY DEF Respond
<1>5. server # Unknown /\ server >= reply[d].since
  BY <1>1, CachedDownloadValues DEF ReplyFresh, Versions
<1>6. ReplyFresh(d)'
  BY <1>1, <1>2, <1>3, <1>4, <1>5 DEF ReplyFresh
<1>7. RepliesFresh'
  BY <1>6 DEF RepliesFresh
<1>. QED
  BY <1>3, <1>7, FreshKept DEF CurrentStep

\* What arrives of an answer, or its failure, does not change what it is an answer to.
LEMMA ArrivalFresh ==
  ASSUME IInv, Fresh, NEW d, Downloads = {d}, ReadyRead(d) \/ Error(d)
  PROVE  Fresh' /\ CurrentStep
<1>1. ReplyFresh(d) /\ reply[d] \in Reply
  BY DEF ReadyRead, Error, Fresh, RepliesFresh, IInv, TypeInv, TypeOK, Running
<1>2. /\ reply'[d].head = reply[d].head /\ reply'[d].asked = reply[d].asked
      /\ reply'[d].since = reply[d].since /\ reply'[d].version = reply[d].version
  BY <1>1 DEF ReadyRead, Error, IInv, TypeInv, TypeOK, Reply
<1>3. UNCHANGED <<server, file, tampered, spoilt, entries, saved, entry, answer>>
  BY DEF ReadyRead, Error, cacheVars, fileVars
<1>4. RepliesFresh'
  BY <1>1, <1>2, <1>3 DEF RepliesFresh, ReplyFresh
<1>. QED
  BY <1>3, <1>4, FreshKept DEF CurrentStep

\* The index file holds an entry there was in memory.
LEMMA SavedTells ==
  ASSUME IInv, Fresh, Saved # NoEntry
  PROVE  EntryTells(Saved)
BY DEF Saved, Fresh, EntriesTell, IInv, TypeInv, TypeOK

LEMMA RestartFresh ==
  ASSUME IInv, Fresh, Restart, saved' # NoEntry => EntryTells(saved')
  PROVE  Fresh' /\ CurrentStep
<1>1. \A d \in Downloads : entry'[d] = NoEntry /\ reply'[d] = NoReply /\ answer'[d] = "none"
  BY DEF Restart
<1>2. HoldersHave' /\ RepliesFresh' /\ CurrentStep
  BY <1>1 DEF HoldersHave, RepliesFresh, CurrentStep, Running
<1>3. file' = file /\ spoilt' = spoilt
  BY DEF Restart
<1>4. \A i \in EntryIds : \/ entries'[i] = StaleEntry
                          \/ saved' # NoEntry /\ entries'[i] = saved'
  BY CachedDownloadValues DEF Restart
<1>5. saved' # NoEntry => EntryTells(saved)'
  BY <1>3 DEF EntryTells, IsWhole
<1>6. \A i \in EntryIds : EntryTells(entries[i])'
  BY <1>3, <1>4 DEF EntryTells, StaleEntry
<1>. QED
  BY <1>2, <1>5, <1>6 DEF Fresh, EntriesTell

LEMMA TamperFresh ==
  ASSUME IInv, Fresh, NEW how, Tamper(how)
  PROVE  Fresh' /\ CurrentStep
<1>1. UNCHANGED <<server, entry, reply, answer>>
  BY DEF Tamper, downloadVars
<1>2. \A i \in EntryIds : /\ entries'[i].etag = entries[i].etag
                          /\ entries'[i].md5 = entries[i].md5 /\ ~entries'[i].current
  BY DEF Tamper, IInv, TypeInv, TypeOK, Entry
<1>3. IF saved = NoEntry THEN saved' = NoEntry
      ELSE saved'.etag = saved.etag /\ saved'.md5 = saved.md5 /\ ~saved'.current
  BY DEF Tamper, IInv, TypeInv, TypeOK, Entry
<1>4. EntriesTell'
  BY <1>2, <1>3 DEF Fresh, EntriesTell, EntryTells, IsWhole
<1>5. HoldersHave'
  <2>1. \A d \in Downloads : ~tampered'[d] => entry'[d] = NoEntry
    BY DEF Tamper, downloadVars
  <2>. QED
    BY <2>1 DEF HoldersHave
<1>6. RepliesFresh'
  <2>. SUFFICES ASSUME NEW x \in Downloads, Running(x) PROVE ReplyFresh(x)'
    BY <1>1 DEF RepliesFresh, Running
  <2>1. ReplyFresh(x) /\ entry[x] \in EntryIds \cup {NoEntry}
    BY DEF Fresh, RepliesFresh, IInv, TypeInv, TypeOK
  <2>. QED
    BY <1>1, <1>2, <2>1 DEF ReplyFresh
<1>. QED
  BY <1>1, <1>4, <1>5, <1>6 DEF Fresh, CurrentStep

\* Steps that leave the downloads and the file alone.
LEMMA RestFresh ==
  ASSUME IInv, Fresh, Evict \/ SaveTimeout \/ ServerChanges \/ UNCHANGED vars
  PROVE  Fresh' /\ CurrentStep
<1>1. UNCHANGED <<file, tampered, spoilt, entry, reply, answer>>
  BY DEF Evict, SaveTimeout, ServerChanges, vars, cacheVars, fileVars, downloadVars
<1>2. \A i \in EntryIds : /\ entries'[i].etag = entries[i].etag
                          /\ entries'[i].md5 = entries[i].md5
                          /\ entries'[i].current = entries[i].current
  BY DEF Evict, SaveTimeout, ServerChanges, vars, cacheVars, fileVars, IInv, TypeInv, TypeOK, Entry
<1>3. server \in Nat /\ (server' = server \/ server' = server + 1)
  BY DEF Evict, SaveTimeout, ServerChanges, vars, IInv, TypeInv, TypeOK, Versions
<1>4. saved' \in {saved, Saved}
  BY DEF Evict, SaveTimeout, ServerChanges, vars, cacheVars, fileVars
<1>5. \A i \in EntryIds : EntryTells(entries[i])'
  BY <1>1, <1>2 DEF EntryTells, Fresh, EntriesTell, IsWhole
<1>6. saved' # NoEntry => EntryTells(saved)'
  <2>1. saved' # NoEntry => EntryTells(saved')
    BY <1>4, SavedTells DEF Fresh, EntriesTell
  <2>. QED
    BY <1>1, <2>1 DEF EntryTells, IsWhole
<1>7. \A x \in Downloads : entry[x] \in EntryIds \cup {NoEntry}
  BY DEF IInv, TypeInv, TypeOK
<1>8. HoldersHave'
  BY <1>1, <1>2, <1>7 DEF HoldersHave, Fresh
<1>9. RepliesFresh'
  <2>. SUFFICES ASSUME NEW x \in Downloads, Running(x) PROVE ReplyFresh(x)'
    BY <1>1 DEF RepliesFresh, Running
  <2>1. ReplyFresh(x) /\ reply[x].since \in Nat
    BY DEF Fresh, RepliesFresh, IInv, TypeInv, TypeOK, Running, Reply, Versions
  <2>2. reply[x].since <= server'
    BY <1>3, <2>1 DEF ReplyFresh
  <2>. QED
    BY <1>1, <1>2, <1>7, <2>1, <2>2 DEF ReplyFresh
<1>. QED
  BY <1>1, <1>5, <1>6, <1>8, <1>9 DEF Fresh, EntriesTell, CurrentStep

LEMMA FreshStep ==
  ASSUME IInv, Fresh, [Next]_vars, "rest" \notin WriteFaults, NEW d, Downloads = {d}
  PROVE  Fresh' /\ CurrentStep
<1>1. CASE Exit \/ Crash
  <2>1. Restart /\ saved' \in {Saved, saved}
    BY <1>1 DEF Exit, Crash
  <2>2. saved' # NoEntry => EntryTells(saved')
    BY <2>1, SavedTells DEF Fresh, EntriesTell
  <2>. QED
    BY <2>1, <2>2, RestartFresh
<1>2. ASSUME NetworkStep(d)
      PROVE  Fresh' /\ CurrentStep
  BY <1>2, RespondFresh, ArrivalFresh, FinishedFresh DEF NetworkStep
<1>. QED
  BY <1>1, <1>2, RestFresh, MakeCachedFresh, StartFresh, FinishedFresh, TamperFresh DEF Next

LEMMA InitFresh == Init => Fresh
BY DEF Init, Fresh, EntriesTell, EntryTells, HoldersHave, RepliesFresh, Running, StaleEntry

\* One download at a time, with a last write that does not fail, leaves a file as new as
\* the server's when it started, also if it was there before (MetaCacheSink::initCache,
\* finalizeCache); the exceptions are a redirect with a body, and a 304 for a file that
\* was changed after its entry was resolved.
THEOREM SuccessIsNew ==
  ASSUME "rest" \notin WriteFaults, NEW d, Downloads = {d}
  PROVE  Spec => SuccessIsCurrent
<1>. DEFINE FInv == IInv /\ Fresh
<1>1. Init => FInv
  BY InitFits, InitTruth, InitFresh DEF IInv
<1>2. FInv /\ [Next]_vars => FInv'
  BY TypeStep, TruthStep, FreshStep DEF IInv
<1>3. FInv /\ [Next]_vars => CurrentStep
  BY FreshStep
<1>. QED
  BY <1>1, <1>2, <1>3, PTL DEF Spec, SuccessIsCurrent, CurrentStep
=============================================================================
