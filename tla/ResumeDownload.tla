--------------------------- MODULE ResumeDownload ---------------------------
(***************************************************************************)
(* The resumable transfer of a recording from the device to the library    *)
(* (SVC/download-resume.ts, with the leases of download-staging.ts, the    *)
(* device adapter of device-storage.ts and the publisher resumeToLibrary). *)
(*                                                                         *)
(* A call copies the file in ranges of 1 MiB into a partial named after    *)
(* the source identity, and records after each range a checkpoint: how     *)
(* much is committed and the digest of it.  A later call, of this run of   *)
(* the application or of another, continues from the checkpoint after      *)
(* checking the local prefix and probing the source.  Only a complete      *)
(* partial is handed to the publisher, which links it into the library.    *)
(*                                                                         *)
(* Content is a sequence of ranges; a range is the device file generation  *)
(* its bytes came from, or Torn.  A digest is modelled by what it digests. *)
(* pc[c] names the await a call is suspended at; whatever the code throws  *)
(* at that point, cancellation included, is Fail(c).                       *)
(***************************************************************************)
EXTENDS Naturals, Sequences

CONSTANTS
  Calls,      \* concurrent calls of resumeToLibrary
  NoSource,   \* the source of an idle call
  Gens,       \* generations of the file the device may present
  SourceOf,   \* SourceOf[g]: identity (name, size, signature...) listed for g
  Prefix,     \* Prefix[g]: the first 4 KiB of g
  Overlap,    \* Overlap[g]: the 4 KiB of g before any range boundary
  Torn,       \* a range whose bytes are incomplete or damaged
  Ranges,     \* length of the file in ranges
  Faults,     \* the process may die, an unlink may fail
  Corruption  \* a partial nobody owns may be damaged on disk

Sources == {SourceOf[g] : g \in Gens}

ASSUME GensAssumption ==
  /\ Torn \notin Gens
  /\ NoSource \notin Sources
  /\ SourceOf \in [Gens -> Sources]
ASSUME RangesAssumption == Ranges \in Nat \ {0}
ASSUME FlagsAssumption == Faults \in BOOLEAN /\ Corruption \in BOOLEAN
\* The "bounded evidence" of the probes: generations the listing cannot tell
\* apart differ in the bytes that are probed.
ASSUME EvidenceAssumption ==
  \A g, h \in Gens :
    /\ SourceOf[g] = SourceOf[h]
    /\ Prefix[g] = Prefix[h]
    /\ Overlap[g] = Overlap[h]
    => g = h

VARIABLES
  catalog,  \* catalog[s]: the generation listed as s in this connection
  current,  \* identity under which the file is listed now
  gone,     \* identities it has left behind in this connection
  files,    \* identities whose .partial file exists
  part,     \* content of the .partial file
  meta,     \* what the checkpoint file digests, <<>> when there is none
  active,   \* activeStagingFiles: identities whose partial has an owner
  leases,   \* publicationLeases: calls whose staged file holds a lease
  pc,       \* where each call is suspended
  src,      \* the identity each call was started for
  hold,     \* the range a call has received and not yet committed
  fresh,    \* calls with newPartial /\ ~durableCheckpoint
  stale,    \* calls whose connection session is over
  library   \* contents linked into the library

deviceVars == <<catalog, current, gone>>
diskVars   == <<files, part, meta>>
leaseVars  == <<active, leases>>
callVars   == <<pc, src, hold, fresh, stale>>
vars == <<deviceVars, diskVars, leaseVars, callVars, library>>

\* Points of downloadWithResume(), in order; then those of its caller.
Working == {"checkSource", "opening", "probePrefix", "probeOverlap",
            "beforeRange", "reading", "afterRange", "writing", "saving", "final"}
Owning  == Working \cup {"cleanup", "staged", "published"}
Points  == Owning \cup {"idle", "releasing"}

Init ==
  /\ catalog \in [Sources -> Gens] /\ \A s \in Sources : SourceOf[catalog[s]] = s
  /\ current \in Sources
  /\ gone = {}
  /\ files = {}
  /\ part = [s \in Sources |-> <<>>]
  /\ meta = [s \in Sources |-> <<>>]
  /\ active = {}
  /\ leases = {}
  /\ pc = [c \in Calls |-> "idle"]
  /\ src = [c \in Calls |-> NoSource]
  /\ hold = [c \in Calls |-> Torn]
  /\ fresh = {}
  /\ stale = {}
  /\ library = {}

-----------------------------------------------------------------------------
(* Helpers                                                                 *)

Goto(c, p) == pc' = [pc EXCEPT ![c] = p]

\* Where the loop of downloadWithResume() stands with n ranges committed.
LoopPoint(n) == IF n < Ranges THEN "beforeRange" ELSE "final"

\* sameSource(): a fresh listing shows the same session and identity.
SameIdentity(c) == current = src[c]
SameSource(c) == c \notin stale /\ current = src[c]

\* What the device delivers for the file name now.
Delivered == catalog[current]

\* Release by descriptor: only the first release of a staged file counts.
ReleaseAny(c) ==
  /\ leases' = leases \ {c}
  /\ active' = active \ {src[c]}
ReleaseLease(c) ==
  /\ leases' = leases \ {c}
  /\ active' = IF c \in leases THEN active \ {src[c]} ELSE active

-----------------------------------------------------------------------------
(* The device and the disk around the calls                                *)

\* The file grows, is renamed or is rewritten: its listed identity moves on.
FileChanges(s) ==
  /\ s \in Sources \ (gone \cup {current})
  /\ current' = s
  /\ gone' = gone \cup {current}
  /\ UNCHANGED <<catalog, diskVars, leaseVars, callVars, library>>

\* A new connection session; the device may meanwhile hold other content.
Reconnect(cat, s) ==
  /\ \A t \in Sources : SourceOf[cat[t]] = t
  /\ catalog' = cat
  /\ current' = s
  /\ gone' = {}
  /\ stale' = {c \in Calls : pc[c] # "idle"}
  /\ UNCHANGED <<diskVars, leaseVars, pc, src, hold, fresh, library>>

\* A partial without an owner loses its last range or has one damaged.
Corrupts(s) ==
  /\ Corruption
  /\ s \in files \ active
  /\ part[s] # <<>>
  /\ \/ part' = [part EXCEPT ![s] = SubSeq(@, 1, Len(@) - 1)]
     \/ \E i \in DOMAIN part[s] : part' = [part EXCEPT ![s][i] = Torn]
  /\ UNCHANGED <<deviceVars, files, meta, leaseVars, callVars, library>>

-----------------------------------------------------------------------------
(* downloadWithResume()                                                    *)

\* The caller's listing, then the lease on the partial of that identity.
Start(c) ==
  /\ pc[c] = "idle"
  /\ current \notin active
  /\ active' = active \cup {current}
  /\ src' = [src EXCEPT ![c] = current]
  /\ stale' = stale \ {c}
  /\ Goto(c, "checkSource")
  /\ UNCHANGED <<deviceVars, diskVars, leases, hold, fresh, library>>

CheckSource(c) ==
  /\ pc[c] = "checkSource"
  /\ SameSource(c)
  /\ Goto(c, "opening")
  /\ UNCHANGED <<deviceVars, diskVars, leaseVars, src, hold, fresh, stale, library>>

\* No checkpoint: the partial must not exist (open with wx+).
CreatePartial(c) ==
  /\ pc[c] = "opening"
  /\ meta[src[c]] = <<>>
  /\ src[c] \notin files
  /\ files' = files \cup {src[c]}
  /\ part' = [part EXCEPT ![src[c]] = <<>>]
  /\ fresh' = fresh \cup {c}
  /\ Goto(c, "beforeRange")
  /\ UNCHANGED <<deviceVars, meta, leaseVars, src, hold, stale, library>>

\* A checkpoint: the partial holds what it digests and at most one range more.
SizeVerified(s) == Len(part[s]) \in {Len(meta[s]), Len(meta[s]) + 1}
PrefixVerified(s) ==
  /\ Len(part[s]) \in {Len(meta[s]), Len(meta[s]) + 1}
  /\ SubSeq(part[s], 1, Len(meta[s])) = meta[s]

OpenPartial(c) ==
  /\ pc[c] = "opening"
  /\ meta[src[c]] # <<>>
  /\ src[c] \in files
  /\ PrefixVerified(src[c])
  /\ Goto(c, "probePrefix")
  /\ UNCHANGED <<deviceVars, diskVars, leaseVars, src, hold, fresh, stale, library>>

ProbePrefix(c) ==
  /\ pc[c] = "probePrefix"
  /\ Prefix[Delivered] = Prefix[meta[src[c]][1]]
  /\ Goto(c, "probeOverlap")
  /\ UNCHANGED <<deviceVars, diskVars, leaseVars, src, hold, fresh, stale, library>>

\* The second probe, then the truncation of what was not committed.
ProbeOverlapOnly(c) ==
  /\ pc[c] = "probeOverlap"
  /\ Overlap[Delivered] = Overlap[meta[src[c]][Len(meta[src[c]])]]
  /\ Goto(c, LoopPoint(Len(meta[src[c]])))
  /\ UNCHANGED <<deviceVars, diskVars, leaseVars, src, hold, fresh, stale, library>>
ProbeOverlap(c) ==
  /\ pc[c] = "probeOverlap"
  /\ Overlap[Delivered] = Overlap[meta[src[c]][Len(meta[src[c]])]]
  /\ part' = [part EXCEPT ![src[c]] = SubSeq(@, 1, Len(meta[src[c]]))]
  /\ Goto(c, LoopPoint(Len(meta[src[c]])))
  /\ UNCHANGED <<deviceVars, files, meta, leaseVars, src, hold, fresh, stale, library>>

BeforeRange(c) ==
  /\ pc[c] = "beforeRange"
  /\ SameSource(c)
  /\ Goto(c, "reading")
  /\ UNCHANGED <<deviceVars, diskVars, leaseVars, src, hold, fresh, stale, library>>

\* The exact boundary is checked, so a short range is never accepted.
ReadRange(c) ==
  /\ pc[c] = "reading"
  /\ hold' = [hold EXCEPT ![c] = Delivered]
  /\ Goto(c, "afterRange")
  /\ UNCHANGED <<deviceVars, diskVars, leaseVars, src, fresh, stale, library>>

AfterRangeUnchecked(c) ==
  /\ pc[c] = "afterRange"
  /\ SameIdentity(c)
  /\ Goto(c, "writing")
  /\ UNCHANGED <<deviceVars, diskVars, leaseVars, src, hold, fresh, stale, library>>
AfterRange(c) ==
  /\ pc[c] = "afterRange"
  /\ SameSource(c)
  /\ Goto(c, "writing")
  /\ UNCHANGED <<deviceVars, diskVars, leaseVars, src, hold, fresh, stale, library>>

\* The writes and the fsync of one range.
WriteRange(c) ==
  /\ pc[c] = "writing"
  /\ part' = [part EXCEPT ![src[c]] = Append(@, hold[c])]
  /\ Goto(c, "saving")
  /\ UNCHANGED <<deviceVars, files, meta, leaseVars, src, hold, fresh, stale, library>>

WriteFails(c) ==
  /\ pc[c] = "writing"
  /\ part' = [part EXCEPT ![src[c]] = Append(@, Torn)]
  /\ Goto(c, "cleanup")
  /\ UNCHANGED <<deviceVars, files, meta, leaseVars, src, hold, fresh, stale, library>>

\* persist(): the checkpoint is replaced by rename.
SaveCheckpoint(c) ==
  /\ pc[c] = "saving"
  /\ meta' = [meta EXCEPT ![src[c]] = Append(@, hold[c])]
  /\ hold' = [hold EXCEPT ![c] = Torn]
  /\ fresh' = fresh \ {c}
  /\ Goto(c, LoopPoint(Len(meta[src[c]]) + 1))
  /\ UNCHANGED <<deviceVars, files, part, leaseVars, src, stale, library>>

Finish(c) ==
  /\ pc[c] = "final"
  /\ SameSource(c)
  /\ Len(part[src[c]]) = Ranges
  /\ leases' = leases \cup {c}
  /\ Goto(c, "staged")
  /\ UNCHANGED <<deviceVars, diskVars, active, src, hold, fresh, stale, library>>

Fail(c) ==
  /\ pc[c] \in Working
  /\ Goto(c, "cleanup")
  /\ UNCHANGED <<deviceVars, diskVars, leaseVars, src, hold, fresh, stale, library>>

\* A call ends: nothing of it is left but what is on disk.
Forsake(c) ==
  /\ src' = [src EXCEPT ![c] = NoSource]
  /\ hold' = [hold EXCEPT ![c] = Torn]
  /\ fresh' = fresh \ {c}
  /\ stale' = stale \ {c}
  /\ Goto(c, "idle")

\* The finally: remove this call's partial unless a checkpoint covers it.
CleanupAlways(c) ==
  /\ pc[c] = "cleanup"
  /\ files' = files \ {src[c]}
  /\ part' = [part EXCEPT ![src[c]] = <<>>]
  /\ active' = active \ {src[c]}
  /\ Forsake(c)
  /\ UNCHANGED <<deviceVars, meta, leases, library>>
CleanupNothing(c) ==
  /\ pc[c] = "cleanup"
  /\ active' = active \ {src[c]}
  /\ Forsake(c)
  /\ UNCHANGED <<deviceVars, diskVars, leases, library>>
CleanupKeepsLease(c) ==
  /\ pc[c] = "cleanup"
  /\ Forsake(c)
  /\ UNCHANGED <<deviceVars, diskVars, leaseVars, library>>
Cleanup(c) ==
  /\ pc[c] = "cleanup"
  /\ files' = IF c \in fresh THEN files \ {src[c]} ELSE files
  /\ part' = IF c \in fresh THEN [part EXCEPT ![src[c]] = <<>>] ELSE part
  /\ active' = active \ {src[c]}
  /\ Forsake(c)
  /\ UNCHANGED <<deviceVars, meta, leases, library>>

CleanupFails(c) ==
  /\ Faults
  /\ pc[c] = "cleanup"
  /\ c \in fresh
  /\ active' = active \ {src[c]}
  /\ Forsake(c)
  /\ UNCHANGED <<deviceVars, diskVars, leases, library>>

-----------------------------------------------------------------------------
(* resumeToLibrary(): publication and the end of the lease                 *)

\* The exclusive link (or replacing rename), then the unlink of the stage.
Publish(c) ==
  /\ pc[c] = "staged"
  /\ library' = library \cup {part[src[c]]}
  /\ \/ /\ files' = files \ {src[c]}
        /\ part' = [part EXCEPT ![src[c]] = <<>>]
     \/ Faults /\ UNCHANGED <<files, part>>
  /\ Goto(c, "published")
  /\ UNCHANGED <<deviceVars, meta, leaseVars, src, hold, fresh, stale>>

\* Refused, cancelled or impossible: the partial and its checkpoint stay.
PublishFailsForgetting(c) ==
  /\ pc[c] = "staged"
  /\ meta' = [meta EXCEPT ![src[c]] = <<>>]
  /\ Goto(c, "releasing")
  /\ UNCHANGED <<deviceVars, files, part, leaseVars, src, hold, fresh, stale, library>>
PublishFails(c) ==
  /\ pc[c] = "staged"
  /\ Goto(c, "releasing")
  /\ UNCHANGED <<deviceVars, diskVars, leaseVars, src, hold, fresh, stale, library>>

\* The rows could not be written after the link: nothing is forgotten.
RecordFails(c) ==
  /\ pc[c] = "published"
  /\ Goto(c, "releasing")
  /\ UNCHANGED <<deviceVars, diskVars, leaseVars, src, hold, fresh, stale, library>>

\* forgetPublishedResume(): refused while the partial is there.
Forget(c) ==
  /\ pc[c] = "published"
  /\ meta' = IF src[c] \in files THEN meta ELSE [meta EXCEPT ![src[c]] = <<>>]
  /\ ReleaseLease(c)
  /\ Goto(c, "releasing")
  /\ UNCHANGED <<deviceVars, files, part, src, hold, fresh, stale, library>>

\* The finally of resumeToLibrary() releases once more.
Release(c) ==
  /\ pc[c] = "releasing"
  /\ ReleaseLease(c)
  /\ Forsake(c)
  /\ UNCHANGED <<deviceVars, diskVars, library>>

-----------------------------------------------------------------------------
(* The process dies and starts again.  cleanupInterruptedDownloads() of    *)
(* the new process leaves resume partials alone.                           *)

Writing(s) == {c \in Calls : src[c] = s /\ pc[c] = "writing"}
Saving(s)  == {c \in Calls : src[c] = s /\ pc[c] = "saving"}

PartsAfterCrash(s) ==
  {part[s]} \cup UNION {{Append(part[s], hold[c]), Append(part[s], Torn)} : c \in Writing(s)}
MetasAfterCrash(s) ==
  {meta[s]} \cup {Append(meta[s], hold[c]) : c \in Saving(s)}

Crash ==
  /\ Faults
  /\ \E P \in [Sources -> UNION {PartsAfterCrash(s) : s \in Sources}] :
       (\A s \in Sources : P[s] \in PartsAfterCrash(s)) /\ part' = P
  /\ \E M \in [Sources -> UNION {MetasAfterCrash(s) : s \in Sources}] :
       (\A s \in Sources : M[s] \in MetasAfterCrash(s)) /\ meta' = M
  /\ active' = {}
  /\ leases' = {}
  /\ pc' = [c \in Calls |-> "idle"]
  /\ src' = [c \in Calls |-> NoSource]
  /\ hold' = [c \in Calls |-> Torn]
  /\ fresh' = {}
  /\ stale' = {}
  /\ UNCHANGED <<deviceVars, files, library>>

-----------------------------------------------------------------------------
Transfer(c) ==
  \/ CheckSource(c) \/ CreatePartial(c) \/ OpenPartial(c)
  \/ ProbePrefix(c) \/ ProbeOverlap(c)
  \/ BeforeRange(c) \/ ReadRange(c) \/ AfterRange(c)
  \/ WriteRange(c) \/ WriteFails(c) \/ SaveCheckpoint(c)
  \/ Finish(c) \/ Fail(c) \/ Cleanup(c) \/ CleanupFails(c)
Publication(c) ==
  Publish(c) \/ PublishFails(c) \/ RecordFails(c) \/ Forget(c) \/ Release(c)

Next ==
  \/ \E c \in Calls : Start(c) \/ Transfer(c) \/ Publication(c)
  \/ \E s \in Sources : FileChanges(s) \/ Corrupts(s)
  \/ \E cat \in [Sources -> Gens], s \in Sources : Reconnect(cat, s)
  \/ Crash

Spec == Init /\ [][Next]_vars

\* Every await of a call settles: the transport and the disk answer or fail.
FairSpec == Spec /\ \A c \in Calls : WF_vars(Transfer(c) \/ Publication(c))

-----------------------------------------------------------------------------
(* Properties                                                              *)

Content == Gens \cup {Torn}

TypeOK ==
  /\ catalog \in [Sources -> Gens]
  /\ current \in Sources
  /\ gone \subseteq Sources
  /\ files \subseteq Sources
  /\ part \in [Sources -> Seq(Content)]
  /\ meta \in [Sources -> Seq(Gens)]
  /\ active \subseteq Sources
  /\ leases \subseteq Calls
  /\ pc \in [Calls -> Points]
  /\ src \in [Calls -> Sources \cup {NoSource}]
  /\ hold \in [Calls -> Content]
  /\ fresh \subseteq Calls
  /\ stale \subseteq Calls
  /\ library \subseteq Seq(Content)

\* What is linked into the library is one whole generation of the file, never
\* ranges of several and never a damaged or short copy, whatever reconnects,
\* file changes, crashes and disk damage happened while it was collected.
Whole(r) == \E g \in Gens : r = [i \in 1..Ranges |-> g]
LibraryWhole == \A r \in library : Whole(r)

\* Two calls never work on the same partial, although a staged file is
\* released twice and its name is free in between.
OneWriter ==
  \A c, d \in Calls :
    pc[c] \in Owning /\ pc[d] \in Owning /\ src[c] = src[d] => c = d

\* Without disk damage, a checkpoint never runs ahead of the partial beside it:
\* it digests a prefix of it, and at most one range follows.
CheckpointBacked ==
  \A s \in files :
    meta[s] # <<>> =>
      /\ Len(part[s]) \in {Len(meta[s]), Len(meta[s]) + 1}
      /\ SubSeq(part[s], 1, Len(meta[s])) = meta[s]

\* A checkpoint whose partial is gone is one whose content was published.
EvidenceKept ==
  \A s \in Sources \ files : meta[s] # <<>> => meta[s] \in library

\* Committed progress is never given up: a checkpoint only grows, until the
\* content it digests is in the library.
Extends(r, q) == Len(r) <= Len(q) /\ SubSeq(q, 1, Len(r)) = r
ProgressKept ==
  [][\A s \in Sources :
       \/ Extends(meta[s], meta'[s])
       \/ meta'[s] = <<>> /\ meta[s] \in library]_vars

\* When nothing dies and every unlink works, a partial without an owner has a
\* checkpoint: no failed or cancelled call leaves one that blocks the next.
NoOrphan == \A s \in files \ active : meta[s] # <<>>

\* docs/superpowers/specs/2026-09-16-resource-aware-transcription-execution.md,
\* section 8: after the application exits during a transfer, the next boot
\* removes the stale partial and resumes the transfer.
StalePartialRemoved == NoOrphan

\* Every lease on a partial is given back.
LeaseFreed == \A s \in Sources : s \in active ~> s \notin active
=============================================================================
