------------------------ MODULE ResumeDownloadProofs ------------------------
(***************************************************************************)
(* Theorems about the resumable download, for any number of calls, of      *)
(* generations and of ranges, and every reconnection, change of the file,  *)
(* failure, crash and disk damage that ResumeDownload allows.              *)
(***************************************************************************)
EXTENDS ResumeDownload, SequenceTheorems, TLAPS

USE GensAssumption, RangesAssumption

-----------------------------------------------------------------------------
(* The inductive invariant                                                 *)

Probing == {"probePrefix", "probeOverlap"}
Looping == {"beforeRange", "reading", "afterRange", "writing", "saving"}
Bearing == {"afterRange", "writing", "saving"}
Settled == {"beforeRange", "reading", "afterRange", "writing", "final", "staged"}

\* A call holds the lease of its source until its first release.
Holds(c) == pc[c] \in Owning \/ (pc[c] = "releasing" /\ c \in leases)

\* The connection c was started in still presents the file c was started for.
Known(c) == c \notin stale /\ src[c] \notin gone

\* A checkpoint digests ranges of one generation of its source.
MetaOK(s) ==
  /\ Len(meta[s]) <= Ranges
  /\ \A i \in 1..Len(meta[s]) : meta[s][i] = meta[s][1] /\ SourceOf[meta[s][i]] = s

\* The lease, the session and the first-checkpoint flag of a call.
LeaseOK(c) ==
  /\ pc[c] # "idle" => src[c] \in Sources
  /\ Holds(c) => src[c] \in active
  /\ c \in leases => pc[c] \in {"staged", "published", "releasing"}
  /\ c \in fresh => pc[c] \in Looping \cup {"cleanup"} /\ meta[src[c]] = <<>>
  /\ pc[c] \in Working /\ c \notin stale => current = src[c] \/ src[c] \in gone

\* How the partial stands to the checkpoint at each point of a call.
FileOK(c) ==
  /\ pc[c] \in Probing \cup Looping \cup {"final", "staged"} => src[c] \in files
  /\ pc[c] \in Probing => meta[src[c]] # <<>> /\ PrefixVerified(src[c])
  /\ pc[c] \in Settled => part[src[c]] = meta[src[c]]
  /\ pc[c] = "saving" => part[src[c]] = Append(meta[src[c]], hold[c])
  /\ pc[c] \in Looping => Len(meta[src[c]]) < Ranges
  /\ pc[c] \in {"final", "staged"} => Len(meta[src[c]]) = Ranges
  /\ pc[c] = "published" => meta[src[c]] \in library

\* Which generation the committed ranges and the range in hand come from.
OriginOK(c) ==
  /\ pc[c] = "probeOverlap" /\ Known(c) =>
       Prefix[catalog[src[c]]] = Prefix[meta[src[c]][1]]
  /\ pc[c] \in Looping /\ Known(c) /\ meta[src[c]] # <<>> =>
       meta[src[c]][1] = catalog[src[c]]
  /\ pc[c] \in Bearing /\ Known(c) => hold[c] = catalog[src[c]]
  /\ pc[c] \in {"writing", "saving"} =>
       /\ hold[c] \in Gens
       /\ SourceOf[hold[c]] = src[c]
       /\ meta[src[c]] # <<>> => hold[c] = meta[src[c]][1]

CallOK(c) == LeaseOK(c) /\ FileOK(c) /\ OriginOK(c)

OneHolder == \A c, d \in Calls : Holds(c) /\ Holds(d) /\ src[c] = src[d] => c = d
Listed == \A s \in Sources : SourceOf[catalog[s]] = s

IInv ==
  /\ TypeOK
  /\ Listed
  /\ current \notin gone
  /\ \A s \in Sources : MetaOK(s)
  /\ \A c \in Calls : CallOK(c)
  /\ OneHolder
  /\ LibraryWhole
  /\ EvidenceKept
  /\ ~Corruption => CheckpointBacked

\* A partial has a checkpoint, or a call that will write the first or clean up.
PartialsCovered == \A s \in files : meta[s] # <<>> \/ \E c \in fresh : src[c] = s

-----------------------------------------------------------------------------
(* Facts about the sequences of ranges                                     *)

\* Appending a range keeps what was there.
LEMMA AppendFacts ==
  ASSUME NEW S, NEW q \in Seq(S), NEW x \in S
  PROVE  /\ Append(q, x) \in Seq(S)
         /\ Len(Append(q, x)) = Len(q) + 1
         /\ Append(q, x) # <<>>
         /\ Append(q, x)[Len(q) + 1] = x
         /\ \A i \in 1..Len(q) : Append(q, x)[i] = q[i]
         /\ SubSeq(Append(q, x), 1, Len(q)) = q
<1>1. /\ Append(q, x) \in Seq(S)
      /\ Len(Append(q, x)) = Len(q) + 1
      /\ Append(q, x)[Len(q) + 1] = x
      /\ \A i \in 1..Len(q) : Append(q, x)[i] = q[i]
  BY AppendProperties
<1>2. Len(q) \in Nat
  BY LenProperties
<1>3. Append(q, x) # <<>>
  BY <1>1, <1>2
<1>4. SubSeq(Append(q, x), 1, Len(q)) = q
  <2>1. SubSeq(Append(q, x), 1, Len(q)) \in Seq(S)
    BY <1>1, <1>2
  <2> QED
    BY <1>1, <1>2, <2>1
<1> QED
  BY <1>1, <1>3, <1>4

\* The first ranges of a content are a content.
LEMMA PrefixFacts ==
  ASSUME NEW S, NEW q \in Seq(S)
  PROVE  /\ Len(q) \in Nat
         /\ (q = <<>>) <=> (Len(q) = 0)
         /\ SubSeq(q, 1, Len(q)) = q
         /\ \A n \in 0..Len(q) : SubSeq(q, 1, n) \in Seq(S)
<1>1. Len(q) \in Nat /\ ((q = <<>>) <=> (Len(q) = 0))
  BY LenProperties, EmptySeq
<1>2. SubSeq(q, 1, Len(q)) = q
  BY <1>1
<1>3. \A n \in 0..Len(q) : SubSeq(q, 1, n) \in Seq(S)
  BY <1>1
<1> QED
  BY <1>1, <1>2, <1>3

\* Generations are contents, and so are sequences of them.
LEMMA MetaIsContent ==
  ASSUME NEW q \in Seq(Gens)
  PROVE  q \in Seq(Content)
  BY SeqDef DEF Content

-----------------------------------------------------------------------------
(* Type correctness                                                        *)

LEMMA InitType == Init => TypeOK
<1> SUFFICES ASSUME Init PROVE TypeOK
  OBVIOUS
<1>1. <<>> \in Seq(Content) /\ <<>> \in Seq(Gens)
  OBVIOUS
<1> QED
  BY <1>1 DEF Init, TypeOK, Content, Points

\* What the type of the next state depends on beyond the type of this one.
Typed ==
  /\ TypeOK
  /\ \A c \in Calls : pc[c] # "idle" => src[c] \in Sources
  /\ \A c \in Calls : pc[c] \in {"writing", "saving"} => hold[c] \in Gens
  /\ \A c \in Calls : pc[c] = "probeOverlap" =>
       SubSeq(part[src[c]], 1, Len(meta[src[c]])) = meta[src[c]]

\* What a crash may leave on disk is a partial and a checkpoint.
LEMMA CrashContents ==
  ASSUME Typed, NEW s \in Sources
  PROVE  PartsAfterCrash(s) \subseteq Seq(Content) /\ MetasAfterCrash(s) \subseteq Seq(Gens)
<1>1. /\ part[s] \in Seq(Content) /\ meta[s] \in Seq(Gens)
      /\ \A c \in Calls : hold[c] \in Content
      /\ Torn \in Content
  BY DEF Typed, TypeOK, Content
<1>2. ASSUME NEW x \in PartsAfterCrash(s) PROVE x \in Seq(Content)
  <2>1. \/ x = part[s] \/ x = Append(part[s], Torn)
        \/ \E c \in Calls : x = Append(part[s], hold[c])
    BY <1>2 DEF PartsAfterCrash, Writing
  <2>2. CASE x = part[s]
    BY <1>1, <2>2
  <2>3. CASE x = Append(part[s], Torn)
    BY <1>1, <2>3
  <2>4. ASSUME NEW c \in Calls, x = Append(part[s], hold[c]) PROVE x \in Seq(Content)
    <3>1. Append(part[s], hold[c]) \in Seq(Content)
      BY <1>1
    <3> QED
      BY <2>4, <3>1
  <2> QED
    BY <2>1, <2>2, <2>3, <2>4
<1>3. ASSUME NEW x \in MetasAfterCrash(s) PROVE x \in Seq(Gens)
  <2>1. x = meta[s] \/ \E c \in Saving(s) : x = Append(meta[s], hold[c])
    BY <1>3 DEF MetasAfterCrash
  <2>2. CASE x = meta[s]
    BY <1>1, <2>2
  <2>3. ASSUME NEW c \in Saving(s), x = Append(meta[s], hold[c]) PROVE x \in Seq(Gens)
    <3>1. hold[c] \in Gens
      BY <2>3 DEF Saving, Typed
    <3>2. Append(meta[s], hold[c]) \in Seq(Gens)
      BY <1>1, <3>1
    <3> QED
      BY <2>3, <3>2
  <2> QED
    BY <2>1, <2>2, <2>3
<1> QED
  BY <1>2, <1>3

LEMMA NextType == Typed /\ [Next]_vars => TypeOK'
<1> SUFFICES ASSUME Typed, [Next]_vars PROVE TypeOK'
  OBVIOUS
<1> USE DEF TypeOK, Typed, vars, deviceVars, diskVars, leaseVars, callVars, Goto,
            Points, Owning, Working
<1>0. CASE UNCHANGED vars
  BY <1>0
<1>1. ASSUME NEW c \in Calls, Start(c) PROVE TypeOK'
  BY <1>1 DEF Start
<1>2. ASSUME NEW c \in Calls, CheckSource(c) PROVE TypeOK'
  BY <1>2 DEF CheckSource
<1>3. ASSUME NEW c \in Calls, CreatePartial(c) PROVE TypeOK'
  BY <1>3 DEF CreatePartial
<1>4. ASSUME NEW c \in Calls, OpenPartial(c) PROVE TypeOK'
  BY <1>4 DEF OpenPartial
<1>5. ASSUME NEW c \in Calls, ProbePrefix(c) PROVE TypeOK'
  BY <1>5 DEF ProbePrefix
<1>6. ASSUME NEW c \in Calls, ProbeOverlap(c) PROVE TypeOK'
  <2>1. SubSeq(part[src[c]], 1, Len(meta[src[c]])) \in Seq(Content)
    BY <1>6, MetaIsContent DEF ProbeOverlap
  <2> QED
    BY <1>6, <2>1 DEF ProbeOverlap, LoopPoint
<1>7. ASSUME NEW c \in Calls, BeforeRange(c) PROVE TypeOK'
  BY <1>7 DEF BeforeRange
<1>8. ASSUME NEW c \in Calls, ReadRange(c) PROVE TypeOK'
  BY <1>8 DEF ReadRange, Delivered, Content
<1>9. ASSUME NEW c \in Calls, AfterRange(c) PROVE TypeOK'
  BY <1>9 DEF AfterRange
<1>10. ASSUME NEW c \in Calls, WriteRange(c) PROVE TypeOK'
  <2>1. Append(part[src[c]], hold[c]) \in Seq(Content)
    BY <1>10 DEF WriteRange
  <2> QED
    BY <1>10, <2>1 DEF WriteRange
<1>11. ASSUME NEW c \in Calls, WriteFails(c) PROVE TypeOK'
  <2>1. Append(part[src[c]], Torn) \in Seq(Content)
    BY <1>11 DEF WriteFails, Content
  <2> QED
    BY <1>11, <2>1 DEF WriteFails
<1>12. ASSUME NEW c \in Calls, SaveCheckpoint(c) PROVE TypeOK'
  <2>1. Append(meta[src[c]], hold[c]) \in Seq(Gens)
    BY <1>12 DEF SaveCheckpoint
  <2> QED
    BY <1>12, <2>1 DEF SaveCheckpoint, LoopPoint, Content
<1>13. ASSUME NEW c \in Calls, Finish(c) PROVE TypeOK'
  BY <1>13 DEF Finish
<1>14. ASSUME NEW c \in Calls, Fail(c) PROVE TypeOK'
  BY <1>14 DEF Fail
<1>15. ASSUME NEW c \in Calls, Cleanup(c) PROVE TypeOK'
  <2>1. files' \subseteq Sources /\ part' \in [Sources -> Seq(Content)]
    <3>1. CASE c \in fresh
      BY <1>15, <3>1 DEF Cleanup
    <3>2. CASE c \notin fresh
      BY <1>15, <3>2 DEF Cleanup
    <3> QED
      BY <3>1, <3>2
  <2> QED
    BY <1>15, <2>1 DEF Cleanup, Forsake, Content
<1>16. ASSUME NEW c \in Calls, CleanupFails(c) PROVE TypeOK'
  BY <1>16 DEF CleanupFails, Forsake, Content
<1>17. ASSUME NEW c \in Calls, Publish(c) PROVE TypeOK'
  <2>1. library' \subseteq Seq(Content)
    BY <1>17 DEF Publish
  <2>2. files' \subseteq Sources /\ part' \in [Sources -> Seq(Content)]
    <3>1. CASE UNCHANGED <<files, part>>
      BY <3>1
    <3>2. ASSUME files' = files \ {src[c]}, part' = [part EXCEPT ![src[c]] = <<>>]
          PROVE  files' \subseteq Sources /\ part' \in [Sources -> Seq(Content)]
      <4>1. part \in [Sources -> Seq(Content)] /\ <<>> \in Seq(Content)
        OBVIOUS
      <4>2. [part EXCEPT ![src[c]] = <<>>] \in [Sources -> Seq(Content)]
        BY <4>1
      <4> QED
        BY <3>2, <4>2
    <3> QED
      BY <1>17, <3>1, <3>2 DEF Publish
  <2> QED
    BY <1>17, <2>1, <2>2 DEF Publish
<1>18. ASSUME NEW c \in Calls, PublishFails(c) PROVE TypeOK'
  BY <1>18 DEF PublishFails
<1>19. ASSUME NEW c \in Calls, RecordFails(c) PROVE TypeOK'
  BY <1>19 DEF RecordFails
<1>20. ASSUME NEW c \in Calls, Forget(c) PROVE TypeOK'
  <2>1. meta' \in [Sources -> Seq(Gens)]
    <3>1. CASE src[c] \in files
      BY <1>20, <3>1 DEF Forget
    <3>2. CASE src[c] \notin files
      BY <1>20, <3>2 DEF Forget
    <3> QED
      BY <3>1, <3>2
  <2> QED
    BY <1>20, <2>1 DEF Forget, ReleaseLease
<1>21. ASSUME NEW c \in Calls, Release(c) PROVE TypeOK'
  BY <1>21 DEF Release, ReleaseLease, Forsake, Content
<1>22. ASSUME NEW s \in Sources, FileChanges(s) PROVE TypeOK'
  BY <1>22 DEF FileChanges
<1>23. ASSUME NEW s \in Sources, Corrupts(s) PROVE TypeOK'
  <2>1. part' \in [Sources -> Seq(Content)]
    <3>1. CASE part' = [part EXCEPT ![s] = SubSeq(@, 1, Len(@) - 1)]
      <4>1. Len(part[s]) - 1 \in 0..Len(part[s])
        BY <1>23, PrefixFacts DEF Corrupts
      <4>2. SubSeq(part[s], 1, Len(part[s]) - 1) \in Seq(Content)
        BY <4>1, PrefixFacts
      <4> QED
        BY <3>1, <4>2
    <3>2. ASSUME NEW i \in DOMAIN part[s], part' = [part EXCEPT ![s][i] = Torn]
          PROVE  part' \in [Sources -> Seq(Content)]
      <4>1. [part[s] EXCEPT ![i] = Torn] \in Seq(Content)
        <5>1. part[s] \in Seq(Content) /\ Torn \in Content
          BY DEF Content
        <5>2. i \in 1..Len(part[s])
          BY <5>1
        <5> HIDE DEF Content
        <5> QED
          BY <5>1, <5>2, ExceptSeq, Zenon
      <4> QED
        BY <3>2, <4>1
    <3> QED
      BY <1>23, <3>1, <3>2 DEF Corrupts
  <2> QED
    BY <1>23, <2>1 DEF Corrupts
<1>24. ASSUME NEW cat \in [Sources -> Gens], NEW s \in Sources, Reconnect(cat, s) PROVE TypeOK'
  BY <1>24 DEF Reconnect
<1>25. ASSUME Crash PROVE TypeOK'
  <2>1. \A s \in Sources :
          PartsAfterCrash(s) \subseteq Seq(Content) /\ MetasAfterCrash(s) \subseteq Seq(Gens)
    BY CrashContents
  <2>2. part' \in [Sources -> Seq(Content)]
    <3>1. PICK P \in [Sources -> UNION {PartsAfterCrash(s) : s \in Sources}] :
            (\A s \in Sources : P[s] \in PartsAfterCrash(s)) /\ part' = P
      BY <1>25 DEF Crash
    <3> QED
      BY <2>1, <3>1
  <2>3. meta' \in [Sources -> Seq(Gens)]
    <3>1. PICK M \in [Sources -> UNION {MetasAfterCrash(s) : s \in Sources}] :
            (\A s \in Sources : M[s] \in MetasAfterCrash(s)) /\ meta' = M
      BY <1>25 DEF Crash
    <3> QED
      BY <2>1, <3>1
  <2> QED
    BY <1>25, <2>2, <2>3 DEF Crash, Content
<1> QED
  BY <1>0, <1>1, <1>2, <1>3, <1>4, <1>5, <1>6, <1>7, <1>8, <1>9, <1>10, <1>11, <1>12, <1>13, <1>14, <1>15, <1>16, <1>17, <1>18, <1>19, <1>20, <1>21, <1>22, <1>23, <1>24, <1>25 DEF Next, Transfer, Publication

-----------------------------------------------------------------------------
(* Framing: what a step of one call means for the others                   *)

LEMMA InvTyped == IInv => Typed
  BY DEF IInv, Typed, CallOK, LeaseOK, FileOK, OriginOK, PrefixVerified, Probing

\* The variables of one call, and the files of one source.
SameCall(d) ==
  /\ pc'[d] = pc[d] /\ src'[d] = src[d] /\ hold'[d] = hold[d]
  /\ d \in fresh' <=> d \in fresh
  /\ d \in stale' <=> d \in stale
  /\ d \in leases' <=> d \in leases
SameFiles(s) ==
  /\ part'[s] = part[s] /\ meta'[s] = meta[s]
  /\ s \in files => s \in files'
  /\ s \in active => s \in active'

\* A call that is left alone, with the files of its source, stays in order.
LEMMA Frame ==
  ASSUME NEW d \in Calls, CallOK(d), UNCHANGED deviceVars, library \subseteq library',
         SameCall(d), Holds(d) => SameFiles(src[d])
  PROVE  CallOK(d)'
<1>1. LeaseOK(d)'
  BY DEF CallOK, LeaseOK, SameCall, SameFiles, Holds, deviceVars, Owning, Working, Looping
<1>2. FileOK(d)'
  BY DEF CallOK, FileOK, SameCall, SameFiles, Holds, PrefixVerified, Owning, Working,
         Looping, Probing, Settled
<1>3. OriginOK(d)'
  BY DEF CallOK, OriginOK, SameCall, SameFiles, Holds, Known, deviceVars, Owning, Working,
         Looping, Bearing
<1> QED
  BY <1>1, <1>2, <1>3 DEF CallOK

\* A step of c that touches only c and the files c owns keeps the invariant,
\* once it is shown to keep c itself and the files in order.
LEMMA CallStep ==
  ASSUME IInv, TypeOK', NEW c \in Calls, UNCHANGED deviceVars, library \subseteq library',
         \A d \in Calls \ {c} : SameCall(d),
         \A s \in Sources : (Holds(c) => s # src[c]) => SameFiles(s),
         Holds(c)' => Holds(c) /\ src'[c] = src[c],
         CallOK(c)',
         \A s \in Sources : MetaOK(s)',
         LibraryWhole', EvidenceKept', ~Corruption => CheckpointBacked'
  PROVE  IInv'
<1>1. ASSUME NEW d \in Calls \ {c} PROVE CallOK(d)'
  <2>1. ASSUME Holds(d) PROVE SameFiles(src[d])
    <3>1. src[d] \in Sources
      BY <2>1 DEF IInv, CallOK, LeaseOK, Holds, Owning, Working
    <3>2. Holds(c) => src[d] # src[c]
      BY <2>1 DEF IInv, OneHolder
    <3> QED
      BY <3>1, <3>2
  <2> QED
    BY <2>1, Frame DEF IInv
<1>2. \A d \in Calls \ {c} : (Holds(d)' <=> Holds(d)) /\ src'[d] = src[d]
  BY DEF SameCall, Holds
<1>3. OneHolder'
  BY <1>2 DEF IInv, OneHolder
<1>4. Listed' /\ (current \notin gone)'
  BY DEF IInv, Listed, deviceVars
<1> QED
  BY <1>1, <1>3, <1>4 DEF IInv

\* A step of c that leaves the disk and the library alone.
LEMMA QuietStep ==
  ASSUME IInv, TypeOK', NEW c \in Calls, UNCHANGED <<deviceVars, diskVars, library>>,
         \A d \in Calls \ {c} : SameCall(d),
         \A s \in active : (Holds(c) => s # src[c]) => s \in active',
         Holds(c)' => Holds(c) /\ src'[c] = src[c],
         CallOK(c)'
  PROVE  IInv'
<1>1. \A s \in Sources : MetaOK(s)'
  BY DEF IInv, MetaOK, diskVars
<1>2. LibraryWhole' /\ EvidenceKept' /\ (~Corruption => CheckpointBacked')
  BY DEF IInv, LibraryWhole, EvidenceKept, CheckpointBacked, diskVars
<1>3. \A s \in Sources : (Holds(c) => s # src[c]) => SameFiles(s)
  BY DEF SameFiles, diskVars
<1>4. library \subseteq library' /\ UNCHANGED deviceVars
  OBVIOUS
<1> QED
  BY <1>1, <1>2, <1>3, <1>4, CallStep

-----------------------------------------------------------------------------
(* The steps of one call                                                   *)

LEMMA StartStep ==
  ASSUME IInv, TypeOK', NEW c \in Calls, Start(c)
  PROVE  IInv'
<1> USE DEF deviceVars, diskVars, Goto
<1>1. current \in Sources /\ current \notin active /\ ~Holds(c)
  BY DEF Start, IInv, TypeOK, Holds, Owning, Working
<1>2. pc'[c] = "checkSource" /\ src'[c] = current /\ c \notin fresh /\ c \notin leases
  BY DEF Start, IInv, TypeOK, CallOK, LeaseOK, Looping
<1>3. \A d \in Calls \ {c} : SameCall(d)
  BY DEF Start, IInv, TypeOK, SameCall
<1>4. CallOK(c)'
  BY <1>1, <1>2 DEF Start, CallOK, LeaseOK, FileOK, OriginOK, Holds, Owning, Working,
                    Looping, Probing, Settled, Bearing
<1>5. ASSUME NEW d \in Calls \ {c} PROVE CallOK(d)'
  <2>1. Holds(d) => SameFiles(src[d])
    BY DEF Start, SameFiles, IInv, CallOK, LeaseOK
  <2> QED
    BY <1>3, <2>1, Frame DEF Start, IInv
<1>6. OneHolder'
  <2>1. ASSUME NEW d \in Calls \ {c}, Holds(d)' PROVE Holds(d) /\ src'[d] = src[d] /\ src[d] # current
    BY <1>1, <1>3, <2>1 DEF SameCall, Holds, IInv, CallOK, LeaseOK
  <2> QED
    BY <1>2, <2>1 DEF OneHolder, IInv
<1>7. \A s \in Sources : MetaOK(s)'
  BY DEF Start, IInv, MetaOK
<1>8. LibraryWhole' /\ EvidenceKept' /\ (~Corruption => CheckpointBacked')
  BY DEF Start, IInv, LibraryWhole, EvidenceKept, CheckpointBacked
<1>9. Listed' /\ (current \notin gone)'
  BY DEF Start, IInv, Listed
<1> QED
  BY <1>4, <1>5, <1>6, <1>7, <1>8, <1>9 DEF IInv

\* The first look at the source.
LEMMA CheckSourceStep ==
  ASSUME IInv, TypeOK', NEW c \in Calls, CheckSource(c)
  PROVE  IInv'
<1> USE DEF deviceVars, diskVars, leaseVars, Goto
<1>1. UNCHANGED <<deviceVars, diskVars, library>>
  BY DEF CheckSource
<1>2. \A d \in Calls \ {c} : SameCall(d)
  BY DEF CheckSource, IInv, TypeOK, SameCall
<1>3. \A s \in active : (Holds(c) => s # src[c]) => s \in active'
  BY DEF CheckSource, Holds, Owning, Working
<1>4. Holds(c)' => Holds(c) /\ src'[c] = src[c]
  BY DEF CheckSource, IInv, TypeOK, Holds, Owning, Working
<1>5. CallOK(c)'
  <2>1. LeaseOK(c)'
    BY DEF CheckSource, IInv, TypeOK, CallOK, LeaseOK, SameSource, Holds, Owning, Working, Looping
  <2>2. FileOK(c)'
    BY DEF CheckSource, IInv, TypeOK, CallOK, FileOK, PrefixVerified, Probing, Looping, Settled
  <2>3. OriginOK(c)'
    BY DEF CheckSource, IInv, TypeOK, CallOK, LeaseOK, OriginOK, SameSource, Known, Working, Looping, Bearing, Listed
  <2> QED
    BY <2>1, <2>2, <2>3 DEF CallOK
<1> QED
  BY <1>1, <1>2, <1>3, <1>4, <1>5, QuietStep

\* A partial that matches its checkpoint is opened.
LEMMA OpenPartialStep ==
  ASSUME IInv, TypeOK', NEW c \in Calls, OpenPartial(c)
  PROVE  IInv'
<1> USE DEF deviceVars, diskVars, leaseVars, Goto
<1>1. UNCHANGED <<deviceVars, diskVars, library>>
  BY DEF OpenPartial
<1>2. \A d \in Calls \ {c} : SameCall(d)
  BY DEF OpenPartial, IInv, TypeOK, SameCall
<1>3. \A s \in active : (Holds(c) => s # src[c]) => s \in active'
  BY DEF OpenPartial, Holds, Owning, Working
<1>4. Holds(c)' => Holds(c) /\ src'[c] = src[c]
  BY DEF OpenPartial, IInv, TypeOK, Holds, Owning, Working
<1>5. CallOK(c)'
  <2>1. LeaseOK(c)'
    BY DEF OpenPartial, IInv, TypeOK, CallOK, LeaseOK, SameSource, Holds, Owning, Working, Looping
  <2>2. FileOK(c)'
    BY DEF OpenPartial, IInv, TypeOK, CallOK, FileOK, PrefixVerified, Probing, Looping, Settled
  <2>3. OriginOK(c)'
    BY DEF OpenPartial, IInv, TypeOK, CallOK, LeaseOK, OriginOK, SameSource, Known, Working, Looping, Bearing, Listed
  <2> QED
    BY <2>1, <2>2, <2>3 DEF CallOK
<1> QED
  BY <1>1, <1>2, <1>3, <1>4, <1>5, QuietStep

\* The first probe of the source.
LEMMA ProbePrefixStep ==
  ASSUME IInv, TypeOK', NEW c \in Calls, ProbePrefix(c)
  PROVE  IInv'
<1> USE DEF deviceVars, diskVars, leaseVars, Goto
<1>1. UNCHANGED <<deviceVars, diskVars, library>>
  BY DEF ProbePrefix
<1>2. \A d \in Calls \ {c} : SameCall(d)
  BY DEF ProbePrefix, IInv, TypeOK, SameCall, Delivered
<1>3. \A s \in active : (Holds(c) => s # src[c]) => s \in active'
  BY DEF ProbePrefix, Holds, Owning, Working, Delivered
<1>4. Holds(c)' => Holds(c) /\ src'[c] = src[c]
  BY DEF ProbePrefix, IInv, TypeOK, Holds, Owning, Working, Delivered
<1>5. CallOK(c)'
  <2>1. LeaseOK(c)'
    BY DEF ProbePrefix, Delivered, IInv, TypeOK, CallOK, LeaseOK, SameSource, Holds, Owning, Working, Looping
  <2>2. FileOK(c)'
    BY DEF ProbePrefix, Delivered, IInv, TypeOK, CallOK, FileOK, PrefixVerified, Probing, Looping, Settled
  <2>3. OriginOK(c)'
    BY DEF ProbePrefix, Delivered, IInv, TypeOK, CallOK, LeaseOK, OriginOK, SameSource, Known, Working, Looping, Bearing, Listed
  <2> QED
    BY <2>1, <2>2, <2>3 DEF CallOK
<1> QED
  BY <1>1, <1>2, <1>3, <1>4, <1>5, QuietStep

\* The look at the source before a range.
LEMMA BeforeRangeStep ==
  ASSUME IInv, TypeOK', NEW c \in Calls, BeforeRange(c)
  PROVE  IInv'
<1> USE DEF deviceVars, diskVars, leaseVars, Goto
<1>1. UNCHANGED <<deviceVars, diskVars, library>>
  BY DEF BeforeRange
<1>2. \A d \in Calls \ {c} : SameCall(d)
  BY DEF BeforeRange, IInv, TypeOK, SameCall
<1>3. \A s \in active : (Holds(c) => s # src[c]) => s \in active'
  BY DEF BeforeRange, Holds, Owning, Working
<1>4. Holds(c)' => Holds(c) /\ src'[c] = src[c]
  BY DEF BeforeRange, IInv, TypeOK, Holds, Owning, Working
<1>5. CallOK(c)'
  <2>1. LeaseOK(c)'
    BY DEF BeforeRange, IInv, TypeOK, CallOK, LeaseOK, SameSource, Holds, Owning, Working, Looping
  <2>2. FileOK(c)'
    BY DEF BeforeRange, IInv, TypeOK, CallOK, FileOK, PrefixVerified, Probing, Looping, Settled
  <2>3. OriginOK(c)'
    BY DEF BeforeRange, IInv, TypeOK, CallOK, LeaseOK, OriginOK, SameSource, Known, Working, Looping, Bearing, Listed
  <2> QED
    BY <2>1, <2>2, <2>3 DEF CallOK
<1> QED
  BY <1>1, <1>2, <1>3, <1>4, <1>5, QuietStep

\* A range arrives, from whatever the device presents now.
LEMMA ReadRangeStep ==
  ASSUME IInv, TypeOK', NEW c \in Calls, ReadRange(c)
  PROVE  IInv'
<1> USE DEF deviceVars, diskVars, leaseVars, Goto
<1>1. UNCHANGED <<deviceVars, diskVars, library>>
  BY DEF ReadRange
<1>2. \A d \in Calls \ {c} : SameCall(d)
  BY DEF ReadRange, IInv, TypeOK, SameCall, Delivered
<1>3. \A s \in active : (Holds(c) => s # src[c]) => s \in active'
  BY DEF ReadRange, Holds, Owning, Working, Delivered
<1>4. Holds(c)' => Holds(c) /\ src'[c] = src[c]
  BY DEF ReadRange, IInv, TypeOK, Holds, Owning, Working, Delivered
<1>5. CallOK(c)'
  <2>1. LeaseOK(c)'
    BY DEF ReadRange, Delivered, IInv, TypeOK, CallOK, LeaseOK, SameSource, Holds, Owning, Working, Looping
  <2>2. FileOK(c)'
    BY DEF ReadRange, Delivered, IInv, TypeOK, CallOK, FileOK, PrefixVerified, Probing, Looping, Settled
  <2>3. OriginOK(c)'
    BY DEF ReadRange, Delivered, IInv, TypeOK, CallOK, LeaseOK, OriginOK, SameSource, Known, Working, Looping, Bearing, Listed
  <2> QED
    BY <2>1, <2>2, <2>3 DEF CallOK
<1> QED
  BY <1>1, <1>2, <1>3, <1>4, <1>5, QuietStep

\* The look at the source after a range.
LEMMA AfterRangeStep ==
  ASSUME IInv, TypeOK', NEW c \in Calls, AfterRange(c)
  PROVE  IInv'
<1> USE DEF deviceVars, diskVars, leaseVars, Goto
<1>1. UNCHANGED <<deviceVars, diskVars, library>>
  BY DEF AfterRange
<1>2. \A d \in Calls \ {c} : SameCall(d)
  BY DEF AfterRange, IInv, TypeOK, SameCall
<1>3. \A s \in active : (Holds(c) => s # src[c]) => s \in active'
  BY DEF AfterRange, Holds, Owning, Working
<1>4. Holds(c)' => Holds(c) /\ src'[c] = src[c]
  BY DEF AfterRange, IInv, TypeOK, Holds, Owning, Working
<1>5. CallOK(c)'
  <2>1. LeaseOK(c)'
    BY DEF AfterRange, IInv, TypeOK, CallOK, LeaseOK, SameSource, Holds, Owning, Working, Looping
  <2>2. FileOK(c)'
    BY DEF AfterRange, IInv, TypeOK, CallOK, FileOK, PrefixVerified, Probing, Looping, Settled
  <2>3. OriginOK(c)'
    BY DEF AfterRange, IInv, TypeOK, CallOK, LeaseOK, OriginOK, SameSource, Known, Working, Looping, Bearing, Listed
  <2> QED
    BY <2>1, <2>2, <2>3 DEF CallOK
<1> QED
  BY <1>1, <1>2, <1>3, <1>4, <1>5, QuietStep

\* A complete partial is handed to the publisher.
LEMMA FinishStep ==
  ASSUME IInv, TypeOK', NEW c \in Calls, Finish(c)
  PROVE  IInv'
<1> USE DEF deviceVars, diskVars, leaseVars, Goto
<1>1. UNCHANGED <<deviceVars, diskVars, library>>
  BY DEF Finish
<1>2. \A d \in Calls \ {c} : SameCall(d)
  BY DEF Finish, IInv, TypeOK, SameCall
<1>3. \A s \in active : (Holds(c) => s # src[c]) => s \in active'
  BY DEF Finish, Holds, Owning, Working
<1>4. Holds(c)' => Holds(c) /\ src'[c] = src[c]
  BY DEF Finish, IInv, TypeOK, Holds, Owning, Working
<1>5. CallOK(c)'
  <2>1. LeaseOK(c)'
    BY DEF Finish, IInv, TypeOK, CallOK, LeaseOK, SameSource, Holds, Owning, Working, Looping
  <2>2. FileOK(c)'
    BY DEF Finish, IInv, TypeOK, CallOK, FileOK, PrefixVerified, Probing, Looping, Settled
  <2>3. OriginOK(c)'
    BY DEF Finish, IInv, TypeOK, CallOK, LeaseOK, OriginOK, SameSource, Known, Working, Looping, Bearing, Listed
  <2> QED
    BY <2>1, <2>2, <2>3 DEF CallOK
<1> QED
  BY <1>1, <1>2, <1>3, <1>4, <1>5, QuietStep

\* A call gives up.
LEMMA FailStep ==
  ASSUME IInv, TypeOK', NEW c \in Calls, Fail(c)
  PROVE  IInv'
<1> USE DEF deviceVars, diskVars, leaseVars, Goto
<1>1. UNCHANGED <<deviceVars, diskVars, library>>
  BY DEF Fail
<1>2. \A d \in Calls \ {c} : SameCall(d)
  BY DEF Fail, IInv, TypeOK, SameCall
<1>3. \A s \in active : (Holds(c) => s # src[c]) => s \in active'
  BY DEF Fail, Holds, Owning, Working
<1>4. Holds(c)' => Holds(c) /\ src'[c] = src[c]
  BY DEF Fail, IInv, TypeOK, Holds, Owning, Working
<1>5. CallOK(c)'
  <2>1. LeaseOK(c)'
    BY DEF Fail, IInv, TypeOK, CallOK, LeaseOK, SameSource, Holds, Owning, Working, Looping
  <2>2. FileOK(c)'
    BY DEF Fail, IInv, TypeOK, CallOK, FileOK, PrefixVerified, Probing, Looping, Settled
  <2>3. OriginOK(c)'
    BY DEF Fail, IInv, TypeOK, CallOK, LeaseOK, OriginOK, SameSource, Known, Working, Looping, Bearing, Listed
  <2> QED
    BY <2>1, <2>2, <2>3 DEF CallOK
<1> QED
  BY <1>1, <1>2, <1>3, <1>4, <1>5, QuietStep

\* A call ends and its partial cannot be removed.
LEMMA CleanupFailsStep ==
  ASSUME IInv, TypeOK', NEW c \in Calls, CleanupFails(c)
  PROVE  IInv'
<1> USE DEF deviceVars, diskVars, leaseVars, Goto
<1>1. UNCHANGED <<deviceVars, diskVars, library>>
  BY DEF CleanupFails
<1>2. \A d \in Calls \ {c} : SameCall(d)
  BY DEF CleanupFails, IInv, TypeOK, SameCall, Forsake
<1>3. \A s \in active : (Holds(c) => s # src[c]) => s \in active'
  BY DEF CleanupFails, Holds, Owning, Working, Forsake
<1>4. Holds(c)' => Holds(c) /\ src'[c] = src[c]
  BY DEF CleanupFails, IInv, TypeOK, Holds, Owning, Working, Forsake
<1>5. CallOK(c)'
  <2>1. LeaseOK(c)'
    BY DEF CleanupFails, Forsake, IInv, TypeOK, CallOK, LeaseOK, SameSource, Holds, Owning, Working, Looping
  <2>2. FileOK(c)'
    BY DEF CleanupFails, Forsake, IInv, TypeOK, CallOK, FileOK, PrefixVerified, Probing, Looping, Settled
  <2>3. OriginOK(c)'
    BY DEF CleanupFails, Forsake, IInv, TypeOK, CallOK, LeaseOK, OriginOK, SameSource, Known, Working, Looping, Bearing, Listed
  <2> QED
    BY <2>1, <2>2, <2>3 DEF CallOK
<1> QED
  BY <1>1, <1>2, <1>3, <1>4, <1>5, QuietStep

\* A staged file is not published.
LEMMA PublishFailsStep ==
  ASSUME IInv, TypeOK', NEW c \in Calls, PublishFails(c)
  PROVE  IInv'
<1> USE DEF deviceVars, diskVars, leaseVars, Goto
<1>1. UNCHANGED <<deviceVars, diskVars, library>>
  BY DEF PublishFails
<1>2. \A d \in Calls \ {c} : SameCall(d)
  BY DEF PublishFails, IInv, TypeOK, SameCall
<1>3. \A s \in active : (Holds(c) => s # src[c]) => s \in active'
  BY DEF PublishFails, Holds, Owning, Working
<1>4. Holds(c)' => Holds(c) /\ src'[c] = src[c]
  BY DEF PublishFails, IInv, TypeOK, Holds, Owning, Working
<1>5. CallOK(c)'
  <2>1. LeaseOK(c)'
    BY DEF PublishFails, IInv, TypeOK, CallOK, LeaseOK, SameSource, Holds, Owning, Working, Looping
  <2>2. FileOK(c)'
    BY DEF PublishFails, IInv, TypeOK, CallOK, FileOK, PrefixVerified, Probing, Looping, Settled
  <2>3. OriginOK(c)'
    BY DEF PublishFails, IInv, TypeOK, CallOK, LeaseOK, OriginOK, SameSource, Known, Working, Looping, Bearing, Listed
  <2> QED
    BY <2>1, <2>2, <2>3 DEF CallOK
<1> QED
  BY <1>1, <1>2, <1>3, <1>4, <1>5, QuietStep

\* A published file is not recorded.
LEMMA RecordFailsStep ==
  ASSUME IInv, TypeOK', NEW c \in Calls, RecordFails(c)
  PROVE  IInv'
<1> USE DEF deviceVars, diskVars, leaseVars, Goto
<1>1. UNCHANGED <<deviceVars, diskVars, library>>
  BY DEF RecordFails
<1>2. \A d \in Calls \ {c} : SameCall(d)
  BY DEF RecordFails, IInv, TypeOK, SameCall
<1>3. \A s \in active : (Holds(c) => s # src[c]) => s \in active'
  BY DEF RecordFails, Holds, Owning, Working
<1>4. Holds(c)' => Holds(c) /\ src'[c] = src[c]
  BY DEF RecordFails, IInv, TypeOK, Holds, Owning, Working
<1>5. CallOK(c)'
  <2>1. LeaseOK(c)'
    BY DEF RecordFails, IInv, TypeOK, CallOK, LeaseOK, SameSource, Holds, Owning, Working, Looping
  <2>2. FileOK(c)'
    BY DEF RecordFails, IInv, TypeOK, CallOK, FileOK, PrefixVerified, Probing, Looping, Settled
  <2>3. OriginOK(c)'
    BY DEF RecordFails, IInv, TypeOK, CallOK, LeaseOK, OriginOK, SameSource, Known, Working, Looping, Bearing, Listed
  <2> QED
    BY <2>1, <2>2, <2>3 DEF CallOK
<1> QED
  BY <1>1, <1>2, <1>3, <1>4, <1>5, QuietStep

\* The second release of a lease.
LEMMA ReleaseStep ==
  ASSUME IInv, TypeOK', NEW c \in Calls, Release(c)
  PROVE  IInv'
<1> USE DEF deviceVars, diskVars, leaseVars, Goto
<1>1. UNCHANGED <<deviceVars, diskVars, library>>
  BY DEF Release
<1>2. \A d \in Calls \ {c} : SameCall(d)
  BY DEF Release, IInv, TypeOK, SameCall, ReleaseLease, Forsake
<1>3. \A s \in active : (Holds(c) => s # src[c]) => s \in active'
  BY DEF Release, Holds, Owning, Working, ReleaseLease, Forsake
<1>4. Holds(c)' => Holds(c) /\ src'[c] = src[c]
  BY DEF Release, IInv, TypeOK, Holds, Owning, Working, ReleaseLease, Forsake
<1>5. CallOK(c)'
  <2>1. LeaseOK(c)'
    BY DEF Release, ReleaseLease, Forsake, IInv, TypeOK, CallOK, LeaseOK, SameSource, Holds, Owning, Working, Looping
  <2>2. FileOK(c)'
    BY DEF Release, ReleaseLease, Forsake, IInv, TypeOK, CallOK, FileOK, PrefixVerified, Probing, Looping, Settled
  <2>3. OriginOK(c)'
    BY DEF Release, ReleaseLease, Forsake, IInv, TypeOK, CallOK, LeaseOK, OriginOK, SameSource, Known, Working, Looping, Bearing, Listed
  <2> QED
    BY <2>1, <2>2, <2>3 DEF CallOK
<1> QED
  BY <1>1, <1>2, <1>3, <1>4, <1>5, QuietStep

\* A new partial is created where neither it nor a checkpoint exists.
LEMMA CreatePartialStep ==
  ASSUME IInv, TypeOK', NEW c \in Calls, CreatePartial(c)
  PROVE  IInv'
<1> USE DEF deviceVars, diskVars, leaseVars, Goto
<1>0. Holds(c) /\ src[c] \in Sources
  BY DEF CreatePartial, IInv, CallOK, LeaseOK, Holds, Owning, Working
<1>1. UNCHANGED deviceVars /\ library \subseteq library'
  BY DEF CreatePartial
<1>2. \A d \in Calls \ {c} : SameCall(d)
  BY DEF CreatePartial, IInv, TypeOK, SameCall
<1>3. \A s \in Sources : (Holds(c) => s # src[c]) => SameFiles(s)
  BY <1>0 DEF CreatePartial, IInv, TypeOK, SameFiles
<1>4. Holds(c)' => Holds(c) /\ src'[c] = src[c]
  BY <1>0 DEF CreatePartial, IInv, TypeOK, Holds, Owning, Working
<1>5. CallOK(c)'
  <2>1. LeaseOK(c)'
    BY <1>0 DEF CreatePartial, IInv, TypeOK, CallOK, LeaseOK, SameSource, Holds, Owning, Working, Looping
  <2>2. FileOK(c)'
    BY <1>0 DEF CreatePartial, IInv, TypeOK, CallOK, FileOK, PrefixVerified, Probing, Looping, Settled
  <2>3. OriginOK(c)'
    BY <1>0 DEF CreatePartial, IInv, TypeOK, CallOK, LeaseOK, OriginOK, SameSource, Known, Working, Looping, Bearing, Listed
  <2> QED
    BY <2>1, <2>2, <2>3 DEF CallOK
<1>6. \A s \in Sources : MetaOK(s)'
  BY DEF CreatePartial, IInv, MetaOK, TypeOK
<1>7. LibraryWhole'
  BY DEF CreatePartial, IInv, LibraryWhole
<1>8. EvidenceKept'
  BY <1>0 DEF CreatePartial, IInv, EvidenceKept, TypeOK
<1>9. ~Corruption => CheckpointBacked'
  BY <1>0 DEF CreatePartial, IInv, CheckpointBacked, TypeOK
<1> QED
  BY <1>1, <1>2, <1>3, <1>4, <1>5, <1>6, <1>7, <1>8, <1>9, CallStep

\* The second probe: the source is the generation the checkpoint digests.
LEMMA ProbeOverlapStep ==
  ASSUME IInv, TypeOK', NEW c \in Calls, ProbeOverlap(c)
  PROVE  IInv'
<1> USE DEF deviceVars, diskVars, leaseVars, Goto
<1>0. Holds(c) /\ src[c] \in Sources
  BY DEF ProbeOverlap, IInv, CallOK, LeaseOK, Holds, Owning, Working
<1>a. /\ part'[src[c]] = meta[src[c]] /\ meta[src[c]] # <<>>
      /\ \A s \in Sources \ {src[c]} : part'[s] = part[s]
      /\ UNCHANGED <<files, meta, library>>
      /\ src[c] \in files /\ pc[c] = "probeOverlap"
  BY <1>0 DEF ProbeOverlap, IInv, TypeOK, CallOK, FileOK, PrefixVerified, Probing
<1>b. Len(meta[src[c]]) \in 1..Ranges /\ meta[src[c]] \in Seq(Gens)
  BY <1>0, <1>a, PrefixFacts DEF IInv, TypeOK, MetaOK
<1>c. pc'[c] = LoopPoint(Len(meta[src[c]])) /\ UNCHANGED <<src, hold, fresh, stale, active, leases>>
  BY DEF ProbeOverlap, IInv, TypeOK
<1>d. Known(c) => meta[src[c]][1] = catalog[src[c]]
  <2> SUFFICES ASSUME Known(c) PROVE meta[src[c]][1] = catalog[src[c]]
    OBVIOUS
  <2>1. current = src[c]
    BY <1>a DEF IInv, CallOK, LeaseOK, Known, Working
  <2>2. Prefix[catalog[src[c]]] = Prefix[meta[src[c]][1]]
    BY <1>a DEF IInv, CallOK, OriginOK
  <2>3. meta[src[c]][Len(meta[src[c]])] = meta[src[c]][1] /\ SourceOf[meta[src[c]][1]] = src[c]
    BY <1>0, <1>b DEF IInv, MetaOK
  <2>4. Overlap[catalog[src[c]]] = Overlap[meta[src[c]][1]]
    BY <2>1, <2>3 DEF ProbeOverlap, Delivered
  <2>5. meta[src[c]][1] \in Gens /\ catalog[src[c]] \in Gens /\ SourceOf[catalog[src[c]]] = src[c]
    BY <1>0, <1>b DEF IInv, TypeOK, Listed
  <2> QED
    BY <2>2, <2>3, <2>4, <2>5, EvidenceAssumption
<1>1. UNCHANGED deviceVars /\ library \subseteq library'
  BY DEF ProbeOverlap
<1>2. \A d \in Calls \ {c} : SameCall(d)
  BY DEF ProbeOverlap, IInv, TypeOK, SameCall
<1>3. \A s \in Sources : (Holds(c) => s # src[c]) => SameFiles(s)
  BY <1>0 DEF ProbeOverlap, IInv, TypeOK, SameFiles
<1>4. Holds(c)' => Holds(c) /\ src'[c] = src[c]
  BY <1>0 DEF ProbeOverlap, IInv, TypeOK, Holds, Owning, Working
<1>5. CallOK(c)'
  <2>1. pc'[c] \in {"beforeRange", "final"}
    BY <1>c DEF LoopPoint
  <2>2. LeaseOK(c)'
    BY <1>0, <1>a, <1>c, <2>1 DEF ProbeOverlap, IInv, CallOK, LeaseOK, Holds, Owning, Working, Looping
  <2>3. FileOK(c)'
    BY <1>a, <1>b, <1>c, <2>1 DEF FileOK, LoopPoint, Probing, Looping, Settled
  <2>4. OriginOK(c)'
    BY <1>a, <1>c, <1>d, <2>1 DEF ProbeOverlap, OriginOK, Known, Looping, Bearing
  <2> QED
    BY <2>2, <2>3, <2>4 DEF CallOK
<1>6. \A s \in Sources : MetaOK(s)'
  BY DEF ProbeOverlap, IInv, MetaOK, TypeOK
<1>7. LibraryWhole'
  BY DEF ProbeOverlap, IInv, LibraryWhole
<1>8. EvidenceKept'
  BY <1>0 DEF ProbeOverlap, IInv, EvidenceKept, TypeOK
<1>9. ~Corruption => CheckpointBacked'
  <2>1. SubSeq(meta[src[c]], 1, Len(meta[src[c]])) = meta[src[c]]
    BY <1>b, PrefixFacts
  <2> QED
    BY <1>0, <1>a, <2>1 DEF IInv, CheckpointBacked, TypeOK
<1> QED
  BY <1>1, <1>2, <1>3, <1>4, <1>5, <1>6, <1>7, <1>8, <1>9, CallStep

\* A range is written behind the committed ones.
LEMMA WriteRangeStep ==
  ASSUME IInv, TypeOK', NEW c \in Calls, WriteRange(c)
  PROVE  IInv'
<1> USE DEF deviceVars, diskVars, leaseVars, Goto
<1>0. Holds(c) /\ src[c] \in Sources
  BY DEF WriteRange, IInv, CallOK, LeaseOK, Holds, Owning, Working
<1>a. pc[c] = "writing" /\ part[src[c]] = meta[src[c]] /\ hold[c] \in Gens
  BY DEF WriteRange, IInv, CallOK, FileOK, OriginOK, Settled
<1>b. /\ part'[src[c]] = Append(meta[src[c]], hold[c])
      /\ \A s \in Sources \ {src[c]} : part'[s] = part[s]
  BY <1>0, <1>a DEF WriteRange, IInv, TypeOK
<1>c. meta[src[c]] \in Seq(Gens)
  BY <1>0 DEF IInv, TypeOK
<1>1. UNCHANGED deviceVars /\ library \subseteq library'
  BY DEF WriteRange
<1>2. \A d \in Calls \ {c} : SameCall(d)
  BY DEF WriteRange, IInv, TypeOK, SameCall
<1>3. \A s \in Sources : (Holds(c) => s # src[c]) => SameFiles(s)
  BY <1>0 DEF WriteRange, IInv, TypeOK, SameFiles
<1>4. Holds(c)' => Holds(c) /\ src'[c] = src[c]
  BY <1>0 DEF WriteRange, IInv, TypeOK, Holds, Owning, Working
<1>5. CallOK(c)'
  <2>1. LeaseOK(c)'
    BY <1>0 DEF WriteRange, IInv, TypeOK, CallOK, LeaseOK, SameSource, Holds, Owning, Working, Looping
  <2>2. FileOK(c)'
    BY <1>0, <1>a, <1>b DEF WriteRange, IInv, TypeOK, CallOK, FileOK, PrefixVerified, Probing, Looping, Settled
  <2>3. OriginOK(c)'
    BY <1>0, <1>a, <1>b DEF WriteRange, IInv, TypeOK, CallOK, LeaseOK, OriginOK, SameSource, Known, Working, Looping, Bearing, Listed
  <2> QED
    BY <2>1, <2>2, <2>3 DEF CallOK
<1>6. \A s \in Sources : MetaOK(s)'
  BY DEF WriteRange, IInv, MetaOK, TypeOK
<1>7. LibraryWhole'
  BY DEF WriteRange, IInv, LibraryWhole
<1>8. EvidenceKept'
  BY <1>0 DEF WriteRange, IInv, EvidenceKept, TypeOK
<1>9. ~Corruption => CheckpointBacked'
  <2>1. /\ Len(Append(meta[src[c]], hold[c])) = Len(meta[src[c]]) + 1
        /\ SubSeq(Append(meta[src[c]], hold[c]), 1, Len(meta[src[c]])) = meta[src[c]]
    BY <1>a, <1>c, AppendFacts
  <2> QED
    BY <1>0, <1>b, <2>1 DEF WriteRange, IInv, CheckpointBacked, TypeOK
<1> QED
  BY <1>1, <1>2, <1>3, <1>4, <1>5, <1>6, <1>7, <1>8, <1>9, CallStep

\* A range is written in part.
LEMMA WriteFailsStep ==
  ASSUME IInv, TypeOK', NEW c \in Calls, WriteFails(c)
  PROVE  IInv'
<1> USE DEF deviceVars, diskVars, leaseVars, Goto
<1>0. Holds(c) /\ src[c] \in Sources
  BY DEF WriteFails, IInv, CallOK, LeaseOK, Holds, Owning, Working
<1>a. pc[c] = "writing" /\ part[src[c]] = meta[src[c]]
  BY DEF WriteFails, IInv, CallOK, FileOK, Settled
<1>b. /\ part'[src[c]] = Append(meta[src[c]], Torn)
      /\ \A s \in Sources \ {src[c]} : part'[s] = part[s]
  BY <1>0, <1>a DEF WriteFails, IInv, TypeOK
<1>c. meta[src[c]] \in Seq(Content) /\ Torn \in Content
  BY <1>0, MetaIsContent DEF IInv, TypeOK, Content
<1>1. UNCHANGED deviceVars /\ library \subseteq library'
  BY DEF WriteFails
<1>2. \A d \in Calls \ {c} : SameCall(d)
  BY DEF WriteFails, IInv, TypeOK, SameCall
<1>3. \A s \in Sources : (Holds(c) => s # src[c]) => SameFiles(s)
  BY <1>0 DEF WriteFails, IInv, TypeOK, SameFiles
<1>4. Holds(c)' => Holds(c) /\ src'[c] = src[c]
  BY <1>0 DEF WriteFails, IInv, TypeOK, Holds, Owning, Working
<1>5. CallOK(c)'
  <2>1. LeaseOK(c)'
    BY <1>0 DEF WriteFails, IInv, TypeOK, CallOK, LeaseOK, SameSource, Holds, Owning, Working, Looping
  <2>2. FileOK(c)'
    BY <1>0, <1>a, <1>b DEF WriteFails, IInv, TypeOK, CallOK, FileOK, PrefixVerified, Probing, Looping, Settled
  <2>3. OriginOK(c)'
    BY <1>0, <1>a, <1>b DEF WriteFails, IInv, TypeOK, CallOK, LeaseOK, OriginOK, SameSource, Known, Working, Looping, Bearing, Listed
  <2> QED
    BY <2>1, <2>2, <2>3 DEF CallOK
<1>6. \A s \in Sources : MetaOK(s)'
  BY DEF WriteFails, IInv, MetaOK, TypeOK
<1>7. LibraryWhole'
  BY DEF WriteFails, IInv, LibraryWhole
<1>8. EvidenceKept'
  BY <1>0 DEF WriteFails, IInv, EvidenceKept, TypeOK
<1>9. ~Corruption => CheckpointBacked'
  <2>1. /\ Len(Append(meta[src[c]], Torn)) = Len(meta[src[c]]) + 1
        /\ SubSeq(Append(meta[src[c]], Torn), 1, Len(meta[src[c]])) = meta[src[c]]
    BY <1>c, AppendFacts
  <2> QED
    BY <1>0, <1>b, <2>1 DEF WriteFails, IInv, CheckpointBacked, TypeOK
<1> QED
  BY <1>1, <1>2, <1>3, <1>4, <1>5, <1>6, <1>7, <1>8, <1>9, CallStep

\* A range is committed: the checkpoint grows by what was written.
LEMMA SaveCheckpointStep ==
  ASSUME IInv, TypeOK', NEW c \in Calls, SaveCheckpoint(c)
  PROVE  IInv'
<1> USE DEF deviceVars, diskVars, leaseVars, Goto
<1>0. Holds(c) /\ src[c] \in Sources
  BY DEF SaveCheckpoint, IInv, CallOK, LeaseOK, Holds, Owning, Working
<1>a. /\ pc[c] = "saving" /\ hold[c] \in Gens /\ SourceOf[hold[c]] = src[c]
      /\ meta[src[c]] # <<>> => hold[c] = meta[src[c]][1]
      /\ part[src[c]] = Append(meta[src[c]], hold[c])
      /\ Len(meta[src[c]]) < Ranges /\ src[c] \in files
      /\ Known(c) => hold[c] = catalog[src[c]]
  BY DEF SaveCheckpoint, IInv, CallOK, FileOK, OriginOK, Looping, Bearing
<1>b. /\ meta'[src[c]] = Append(meta[src[c]], hold[c])
      /\ \A s \in Sources \ {src[c]} : meta'[s] = meta[s]
  BY <1>0 DEF SaveCheckpoint, IInv, TypeOK
<1>c. /\ meta[src[c]] \in Seq(Gens) /\ Len(meta[src[c]]) \in Nat
      /\ (meta[src[c]] = <<>>) <=> (Len(meta[src[c]]) = 0)
  BY <1>0, PrefixFacts DEF IInv, TypeOK
<1>d. /\ meta'[src[c]] \in Seq(Gens) /\ meta'[src[c]] # <<>>
      /\ Len(meta'[src[c]]) = Len(meta[src[c]]) + 1
      /\ meta'[src[c]][Len(meta[src[c]]) + 1] = hold[c]
      /\ \A i \in 1..Len(meta[src[c]]) : meta'[src[c]][i] = meta[src[c]][i]
      /\ SubSeq(meta'[src[c]], 1, Len(meta'[src[c]])) = meta'[src[c]]
  BY <1>a, <1>b, <1>c, AppendFacts, PrefixFacts
<1>e. meta'[src[c]][1] = hold[c]
  BY <1>a, <1>c, <1>d
<1>1. UNCHANGED deviceVars /\ library \subseteq library'
  BY DEF SaveCheckpoint
<1>2. \A d \in Calls \ {c} : SameCall(d)
  BY DEF SaveCheckpoint, IInv, TypeOK, SameCall
<1>3. \A s \in Sources : (Holds(c) => s # src[c]) => SameFiles(s)
  BY <1>0 DEF SaveCheckpoint, IInv, TypeOK, SameFiles
<1>4. Holds(c)' => Holds(c) /\ src'[c] = src[c]
  BY <1>0 DEF SaveCheckpoint, IInv, TypeOK, Holds, Owning, Working
<1>5. CallOK(c)'
  <2>1. pc'[c] = LoopPoint(Len(meta[src[c]]) + 1) /\ pc'[c] \in {"beforeRange", "final"}
    BY DEF SaveCheckpoint, IInv, TypeOK, LoopPoint
  <2>2. LeaseOK(c)'
    BY <1>0, <1>a, <2>1 DEF SaveCheckpoint, IInv, CallOK, LeaseOK, Holds, Owning, Working, Looping
  <2>3. FileOK(c)'
    BY <1>a, <1>b, <1>c, <1>d, <2>1 DEF SaveCheckpoint, FileOK, LoopPoint, Probing, Looping, Settled
  <2>4. OriginOK(c)'
    BY <1>a, <1>e, <2>1 DEF SaveCheckpoint, OriginOK, Known, Looping, Bearing
  <2> QED
    BY <2>2, <2>3, <2>4 DEF CallOK
<1>6. \A s \in Sources : MetaOK(s)'
  <2>1. ASSUME NEW s \in Sources, s = src[c] PROVE MetaOK(s)'
    <3>1. Len(meta'[src[c]]) <= Ranges
      BY <1>a, <1>c, <1>d
    <3>2. ASSUME NEW i \in 1..Len(meta'[src[c]])
          PROVE  meta'[src[c]][i] = meta'[src[c]][1] /\ SourceOf[meta'[src[c]][i]] = src[c]
      <4>1. CASE i = Len(meta[src[c]]) + 1
        BY <1>a, <1>d, <1>e, <4>1
      <4>2. CASE i \in 1..Len(meta[src[c]])
        <5>1. meta[src[c]] # <<>>
          BY <1>c, <4>2
        <5>2. meta[src[c]][i] = meta[src[c]][1]
          BY <1>0, <4>2 DEF IInv, MetaOK
        <5> QED
          BY <1>a, <1>d, <1>e, <4>2, <5>1, <5>2
      <4> QED
        BY <1>c, <1>d, <4>1, <4>2
    <3> QED
      BY <2>1, <3>1, <3>2 DEF MetaOK
  <2>2. ASSUME NEW s \in Sources \ {src[c]} PROVE MetaOK(s)'
    BY <1>b DEF IInv, MetaOK
  <2> QED
    BY <2>1, <2>2
<1>7. LibraryWhole'
  BY DEF SaveCheckpoint, IInv, LibraryWhole
<1>8. EvidenceKept'
  BY <1>0, <1>a, <1>b DEF SaveCheckpoint, IInv, EvidenceKept
<1>9. ~Corruption => CheckpointBacked'
  BY <1>0, <1>a, <1>b, <1>d DEF SaveCheckpoint, IInv, CheckpointBacked
<1> QED
  BY <1>1, <1>2, <1>3, <1>4, <1>5, <1>6, <1>7, <1>8, <1>9, CallStep

\* A call ends; its partial goes unless a checkpoint covers it.
LEMMA CleanupStep ==
  ASSUME IInv, TypeOK', NEW c \in Calls, Cleanup(c)
  PROVE  IInv'
<1> USE DEF deviceVars, diskVars, leaseVars, Goto
<1>0. Holds(c) /\ src[c] \in Sources
  BY DEF Cleanup, IInv, CallOK, LeaseOK, Holds, Owning, Working
<1>a. /\ pc[c] = "cleanup"
      /\ c \in fresh => meta[src[c]] = <<>>
  BY DEF Cleanup, IInv, CallOK, LeaseOK
<1>b. /\ \A s \in Sources \ {src[c]} : part'[s] = part[s] /\ (s \in files' <=> s \in files)
      /\ c \notin fresh => part' = part /\ files' = files
      /\ UNCHANGED <<meta, library>>
  <2>1. CASE c \in fresh
    BY <1>0, <2>1 DEF Cleanup, IInv, TypeOK
  <2>2. CASE c \notin fresh
    BY <2>2 DEF Cleanup
  <2> QED
    BY <2>1, <2>2
<1>1. UNCHANGED deviceVars /\ library \subseteq library'
  BY DEF Cleanup
<1>2. \A d \in Calls \ {c} : SameCall(d)
  BY DEF Cleanup, IInv, TypeOK, SameCall, Forsake
<1>3. \A s \in Sources : (Holds(c) => s # src[c]) => SameFiles(s)
  BY <1>0, <1>b DEF Cleanup, SameFiles
<1>4. Holds(c)' => Holds(c) /\ src'[c] = src[c]
  BY <1>0 DEF Cleanup, IInv, TypeOK, Holds, Owning, Working, Forsake
<1>5. CallOK(c)'
  BY DEF Cleanup, Forsake, IInv, TypeOK, CallOK, LeaseOK, FileOK, OriginOK, Holds, Owning,
         Working, Looping, Probing, Settled, Bearing
<1>6. \A s \in Sources : MetaOK(s)'
  BY <1>b DEF IInv, MetaOK
<1>7. LibraryWhole'
  BY <1>b DEF IInv, LibraryWhole
<1>8. EvidenceKept'
  BY <1>0, <1>a, <1>b DEF IInv, EvidenceKept
<1>9. ~Corruption => CheckpointBacked'
  BY <1>0, <1>a, <1>b DEF IInv, TypeOK, CheckpointBacked
<1> QED
  BY <1>1, <1>2, <1>3, <1>4, <1>5, <1>6, <1>7, <1>8, <1>9, CallStep

\* A staged file is linked into the library.
LEMMA PublishStep ==
  ASSUME IInv, TypeOK', NEW c \in Calls, Publish(c)
  PROVE  IInv'
<1> USE DEF deviceVars, diskVars, leaseVars, Goto
<1>0. Holds(c) /\ src[c] \in Sources
  BY DEF Publish, IInv, CallOK, LeaseOK, Holds, Owning, Working
<1>a. /\ pc[c] = "staged" /\ part[src[c]] = meta[src[c]] /\ Len(meta[src[c]]) = Ranges
      /\ library' = library \cup {meta[src[c]]}
  BY DEF Publish, IInv, CallOK, FileOK, Settled
<1>b. /\ \A s \in Sources \ {src[c]} : part'[s] = part[s] /\ (s \in files' <=> s \in files)
      /\ src[c] \in files' => part'[src[c]] = part[src[c]] /\ src[c] \in files
      /\ UNCHANGED meta
  <2>1. CASE UNCHANGED <<files, part>>
    BY <2>1 DEF Publish
  <2>2. CASE files' = files \ {src[c]} /\ part' = [part EXCEPT ![src[c]] = <<>>]
    BY <1>0, <2>2 DEF Publish, IInv, TypeOK
  <2> QED
    BY <2>1, <2>2 DEF Publish
<1>c. Whole(meta[src[c]])
  <2>1. meta[src[c]] \in Seq(Gens) /\ Ranges \in Nat \ {0}
    BY <1>0 DEF IInv, TypeOK
  <2>2. \A i \in 1..Ranges : meta[src[c]][i] = meta[src[c]][1]
    BY <1>0, <1>a DEF IInv, MetaOK
  <2>3. meta[src[c]] = [i \in 1..Ranges |-> meta[src[c]][1]]
    BY <1>a, <2>1, <2>2
  <2>4. meta[src[c]][1] \in Gens
    BY <1>a, <2>1
  <2> QED
    BY <2>3, <2>4 DEF Whole
<1>1. UNCHANGED deviceVars /\ library \subseteq library'
  BY DEF Publish
<1>2. \A d \in Calls \ {c} : SameCall(d)
  BY DEF Publish, IInv, TypeOK, SameCall
<1>3. \A s \in Sources : (Holds(c) => s # src[c]) => SameFiles(s)
  BY <1>0, <1>b DEF Publish, SameFiles
<1>4. Holds(c)' => Holds(c) /\ src'[c] = src[c]
  BY <1>0 DEF Publish, IInv, TypeOK, Holds, Owning, Working
<1>5. CallOK(c)'
  BY <1>0, <1>a, <1>b DEF Publish, IInv, TypeOK, CallOK, LeaseOK, FileOK, OriginOK, Holds,
                    Owning, Working, Looping, Probing, Settled, Bearing
<1>6. \A s \in Sources : MetaOK(s)'
  BY <1>b DEF IInv, MetaOK
<1>7. LibraryWhole'
  BY <1>a, <1>c DEF IInv, LibraryWhole, Whole
<1>8. EvidenceKept'
  BY <1>0, <1>a, <1>b DEF IInv, EvidenceKept
<1>9. ~Corruption => CheckpointBacked'
  BY <1>0, <1>a, <1>b DEF IInv, TypeOK, CheckpointBacked
<1> QED
  BY <1>1, <1>2, <1>3, <1>4, <1>5, <1>6, <1>7, <1>8, <1>9, CallStep

\* The checkpoint of a published file is removed.
LEMMA ForgetStep ==
  ASSUME IInv, TypeOK', NEW c \in Calls, Forget(c)
  PROVE  IInv'
<1> USE DEF deviceVars, diskVars, leaseVars, Goto
<1>0. Holds(c) /\ src[c] \in Sources
  BY DEF Forget, IInv, CallOK, LeaseOK, Holds, Owning, Working
<1>a. /\ pc[c] = "published"
      /\ \A s \in Sources \ {src[c]} : meta'[s] = meta[s]
      /\ meta'[src[c]] = meta[src[c]] \/ (meta'[src[c]] = <<>> /\ src[c] \notin files)
      /\ UNCHANGED <<files, part, library>>
  <2>1. CASE src[c] \in files
    BY <2>1 DEF Forget
  <2>2. CASE src[c] \notin files
    BY <1>0, <2>2 DEF Forget, IInv, TypeOK
  <2> QED
    BY <2>1, <2>2
<1>1. UNCHANGED deviceVars /\ library \subseteq library'
  BY DEF Forget
<1>2. \A d \in Calls \ {c} : SameCall(d)
  BY DEF Forget, IInv, TypeOK, SameCall, ReleaseLease
<1>3. \A s \in Sources : (Holds(c) => s # src[c]) => SameFiles(s)
  BY <1>0, <1>a DEF Forget, ReleaseLease, SameFiles
<1>4. Holds(c)' => Holds(c) /\ src'[c] = src[c]
  BY <1>0 DEF Forget, IInv, TypeOK, Holds, Owning, Working, ReleaseLease
<1>5. CallOK(c)'
  <2>1. pc'[c] = "releasing" /\ src'[c] = src[c] /\ c \notin leases' /\ c \notin fresh'
    <3>1. c \notin fresh
      BY <1>a DEF IInv, CallOK, LeaseOK, Looping
    <3>2. c \notin leases'
      BY DEF Forget, ReleaseLease
    <3> QED
      BY <3>1, <3>2 DEF Forget, IInv, TypeOK
  <2> QED
    BY <1>0, <2>1 DEF CallOK, LeaseOK, FileOK, OriginOK, Holds, Owning, Working, Looping,
                      Probing, Settled, Bearing
<1>6. \A s \in Sources : MetaOK(s)'
  <2>1. ASSUME NEW s \in Sources, meta'[s] = <<>> PROVE MetaOK(s)'
    BY <2>1 DEF MetaOK
  <2>2. ASSUME NEW s \in Sources, meta'[s] = meta[s] PROVE MetaOK(s)'
    BY <2>2 DEF IInv, MetaOK
  <2> QED
    BY <1>a, <2>1, <2>2
<1>7. LibraryWhole'
  BY <1>a DEF IInv, LibraryWhole
<1>8. EvidenceKept'
  BY <1>0, <1>a DEF IInv, EvidenceKept
<1>9. ~Corruption => CheckpointBacked'
  BY <1>0, <1>a DEF IInv, TypeOK, CheckpointBacked
<1> QED
  BY <1>1, <1>2, <1>3, <1>4, <1>5, <1>6, <1>7, <1>8, <1>9, CallStep

-----------------------------------------------------------------------------
(* The steps of the device, of the disk and of the process                 *)

\* A file that moves on is no longer known to any call that is under way.
LEMMA FileChangesStep ==
  ASSUME IInv, TypeOK', NEW s \in Sources, FileChanges(s)
  PROVE  IInv'
<1> USE DEF diskVars, leaseVars, callVars
<1>1. ASSUME NEW c \in Calls PROVE CallOK(c)'
  <2>1. LeaseOK(c)'
    BY DEF FileChanges, IInv, CallOK, LeaseOK, Holds
  <2>2. FileOK(c)'
    BY DEF FileChanges, IInv, CallOK, FileOK, PrefixVerified
  <2>3. Known(c)' => Known(c)
    BY DEF FileChanges, Known
  <2>4. OriginOK(c)'
    BY <2>3 DEF FileChanges, IInv, CallOK, OriginOK
  <2> QED
    BY <2>1, <2>2, <2>4 DEF CallOK
<1>2. OneHolder' /\ Listed' /\ (current \notin gone)'
  BY DEF FileChanges, IInv, OneHolder, Holds, Listed
<1>3. \A t \in Sources : MetaOK(t)'
  BY DEF FileChanges, IInv, MetaOK
<1>4. LibraryWhole' /\ EvidenceKept' /\ (~Corruption => CheckpointBacked')
  BY DEF FileChanges, IInv, LibraryWhole, EvidenceKept, CheckpointBacked
<1> QED
  BY <1>1, <1>2, <1>3, <1>4 DEF IInv

\* After a reconnection no call under way trusts the device any more.
LEMMA ReconnectStep ==
  ASSUME IInv, TypeOK', NEW cat \in [Sources -> Gens], NEW s \in Sources, Reconnect(cat, s)
  PROVE  IInv'
<1> USE DEF diskVars, leaseVars
<1>1. ASSUME NEW c \in Calls PROVE CallOK(c)'
  <2>1. pc[c] = "idle" \/ c \in stale'
    BY DEF Reconnect
  <2>2. LeaseOK(c)'
    BY <2>1 DEF Reconnect, IInv, CallOK, LeaseOK, Holds, Working
  <2>3. FileOK(c)'
    BY DEF Reconnect, IInv, CallOK, FileOK, PrefixVerified
  <2>4. OriginOK(c)'
    BY <2>1 DEF Reconnect, IInv, CallOK, OriginOK, Known, Looping, Bearing
  <2> QED
    BY <2>2, <2>3, <2>4 DEF CallOK
<1>2. OneHolder' /\ Listed' /\ (current \notin gone)'
  BY DEF Reconnect, IInv, OneHolder, Holds, Listed
<1>3. \A t \in Sources : MetaOK(t)'
  BY DEF Reconnect, IInv, MetaOK
<1>4. LibraryWhole' /\ EvidenceKept' /\ (~Corruption => CheckpointBacked')
  BY DEF Reconnect, IInv, LibraryWhole, EvidenceKept, CheckpointBacked
<1> QED
  BY <1>1, <1>2, <1>3, <1>4 DEF IInv

\* Disk damage reaches only partials no call relies on.
LEMMA CorruptsStep ==
  ASSUME IInv, TypeOK', NEW s \in Sources, Corrupts(s)
  PROVE  IInv'
<1>0. /\ UNCHANGED <<deviceVars, files, meta, leaseVars, callVars, library>>
      /\ \A t \in Sources \ {s} : part'[t] = part[t]
      /\ s \notin active /\ Corruption
  <2>1. part \in [Sources -> Seq(Content)]
    BY DEF IInv, TypeOK
  <2> QED
    BY <2>1 DEF Corrupts
<1>1. ASSUME NEW c \in Calls PROVE CallOK(c)'
  <2>1. SameCall(c) /\ UNCHANGED deviceVars /\ library \subseteq library'
    BY <1>0 DEF SameCall, callVars, leaseVars
  <2>2. ASSUME Holds(c) PROVE SameFiles(src[c])
    <3>1. src[c] \in Sources \ {s}
      BY <1>0, <2>2 DEF IInv, TypeOK, CallOK, LeaseOK
    <3> QED
      BY <1>0, <3>1 DEF SameFiles, leaseVars
  <2> QED
    BY <2>1, <2>2, Frame DEF IInv
<1>2. OneHolder' /\ Listed' /\ (current \notin gone)'
  BY <1>0 DEF IInv, OneHolder, Holds, Listed, deviceVars, leaseVars, callVars
<1>3. \A t \in Sources : MetaOK(t)'
  BY <1>0 DEF IInv, MetaOK
<1>4. LibraryWhole' /\ EvidenceKept' /\ (~Corruption => CheckpointBacked')
  BY <1>0 DEF IInv, LibraryWhole, EvidenceKept
<1> QED
  BY <1>1, <1>2, <1>3, <1>4 DEF IInv

\* A crash leaves of each source a partial and a checkpoint that still agree.
LEMMA CrashStep ==
  ASSUME IInv, TypeOK', Crash
  PROVE  IInv'
<1>0. /\ UNCHANGED <<deviceVars, files, library>>
      /\ \A s \in Sources : part'[s] \in PartsAfterCrash(s) /\ meta'[s] \in MetasAfterCrash(s)
  <2>1. \A s \in Sources : part'[s] \in PartsAfterCrash(s)
    BY DEF Crash
  <2>2. \A s \in Sources : meta'[s] \in MetasAfterCrash(s)
    BY DEF Crash
  <2> QED
    BY <2>1, <2>2 DEF Crash
<1>1. ASSUME NEW c \in Calls PROVE CallOK(c)'
  BY DEF Crash, CallOK, LeaseOK, FileOK, OriginOK, Holds, Owning, Working, Looping, Probing,
         Settled, Bearing
<1>2. OneHolder' /\ Listed' /\ (current \notin gone)'
  BY <1>0 DEF Crash, IInv, OneHolder, Holds, Owning, Working, Listed, deviceVars
<1>3. ASSUME NEW s \in Sources
      PROVE  \/ meta'[s] = meta[s]
             \/ /\ s \in files /\ meta'[s] \in Seq(Gens)
                /\ part[s] = meta'[s] /\ part'[s] = part[s]
                /\ MetaOK(s)'
  <2>1. CASE meta'[s] = meta[s]
    BY <2>1
  <2>2. ASSUME NEW c \in Saving(s), meta'[s] = Append(meta[s], hold[c])
        PROVE  /\ s \in files /\ meta'[s] \in Seq(Gens)
               /\ part[s] = meta'[s] /\ part'[s] = part[s]
               /\ MetaOK(s)'
    <3>1. /\ c \in Calls /\ pc[c] = "saving" /\ src[c] = s /\ hold[c] \in Gens
          /\ SourceOf[hold[c]] = s
          /\ meta[s] # <<>> => hold[c] = meta[s][1]
          /\ part[s] = Append(meta[s], hold[c])
          /\ Len(meta[s]) < Ranges /\ s \in files
      BY <2>2 DEF Saving, IInv, CallOK, FileOK, OriginOK, Looping
    <3>2. /\ meta[s] \in Seq(Gens) /\ Len(meta[s]) \in Nat
          /\ (meta[s] = <<>>) <=> (Len(meta[s]) = 0)
      BY PrefixFacts DEF IInv, TypeOK
    <3>3. /\ meta'[s] \in Seq(Gens) /\ Len(meta'[s]) = Len(meta[s]) + 1
          /\ meta'[s][Len(meta[s]) + 1] = hold[c]
          /\ \A i \in 1..Len(meta[s]) : meta'[s][i] = meta[s][i]
      BY <2>2, <3>1, <3>2, AppendFacts
    <3>4. \A i \in 1..Len(meta[s]) : meta[s][i] = hold[c]
      BY <3>1, <3>2 DEF IInv, MetaOK
    <3>5. \A i \in 1..Len(meta'[s]) : meta'[s][i] = hold[c]
      BY <3>2, <3>3, <3>4
    <3>6. MetaOK(s)'
      BY <3>1, <3>2, <3>3, <3>5 DEF MetaOK
    <3>7. Writing(s) = {}
      BY <3>1 DEF Writing, IInv, OneHolder, Holds, Owning, Working
    <3>8. part'[s] = part[s]
      BY <1>0, <3>7 DEF PartsAfterCrash
    <3> QED
      BY <2>2, <3>1, <3>3, <3>6, <3>8
  <2> QED
    BY <1>0, <2>1, <2>2 DEF MetasAfterCrash
<1>4. \A s \in Sources : MetaOK(s)'
  BY <1>3 DEF IInv, MetaOK
<1>5. LibraryWhole' /\ EvidenceKept'
  BY <1>0, <1>3 DEF IInv, LibraryWhole, EvidenceKept
<1>6. ~Corruption => CheckpointBacked'
  <2> SUFFICES ASSUME ~Corruption, NEW s \in files, meta'[s] # <<>>
               PROVE  /\ Len(part'[s]) \in {Len(meta'[s]), Len(meta'[s]) + 1}
                      /\ SubSeq(part'[s], 1, Len(meta'[s])) = meta'[s]
    BY <1>0 DEF CheckpointBacked
  <2>0. s \in Sources
    BY DEF IInv, TypeOK
  <2>1. CASE meta'[s] # meta[s]
    BY <1>3, <2>0, <2>1, PrefixFacts
  <2>2. CASE meta'[s] = meta[s] /\ part'[s] = part[s]
    BY <2>2 DEF IInv, CheckpointBacked
  <2>3. CASE meta'[s] = meta[s] /\ part'[s] # part[s]
    <3>0. Torn \in Content /\ \A c \in Writing(s) : hold[c] \in Content
      BY DEF Content, Writing, IInv, TypeOK
    <3>a. PICK c \in Writing(s) : part'[s] = Append(part[s], hold[c]) \/ part'[s] = Append(part[s], Torn)
      BY <1>0, <2>0, <2>3 DEF PartsAfterCrash
    <3>1. PICK x \in Content : part'[s] = Append(part[s], x)
      BY <3>0, <3>a
    <3>2. part[s] = meta[s]
      BY <3>a DEF Writing, IInv, CallOK, FileOK, Settled
    <3>3. meta[s] \in Seq(Content)
      BY <2>0, MetaIsContent DEF IInv, TypeOK
    <3> QED
      BY <2>3, <3>1, <3>2, <3>3, AppendFacts
  <2> QED
    BY <2>1, <2>2, <2>3
<1> QED
  BY <1>1, <1>2, <1>4, <1>5, <1>6 DEF IInv

-----------------------------------------------------------------------------
(* What a step does to the checkpoints                                     *)

\* A checkpoint that does not change extends itself.
LEMMA ExtendsSelf ==
  ASSUME IInv, NEW s \in Sources, meta'[s] = meta[s]
  PROVE  Extends(meta[s], meta'[s])
<1>1. meta[s] \in Seq(Gens)
  BY DEF IInv, TypeOK
<1> QED
  BY <1>1, PrefixFacts DEF Extends

\* A checkpoint one range longer extends the one it replaces.
LEMMA ExtendsByOne ==
  ASSUME IInv, NEW s \in Sources, NEW g \in Gens, meta'[s] = Append(meta[s], g)
  PROVE  Extends(meta[s], meta'[s])
<1>1. meta[s] \in Seq(Gens) /\ Len(meta[s]) \in Nat
  BY PrefixFacts DEF IInv, TypeOK
<1> QED
  BY <1>1, AppendFacts DEF Extends

LEMMA ProgressStep ==
  ASSUME IInv, [Next]_vars, NEW s \in Sources
  PROVE  Extends(meta[s], meta'[s]) \/ (meta'[s] = <<>> /\ meta[s] \in library)
<1>0. meta \in [Sources -> Seq(Gens)]
  BY DEF IInv, TypeOK
<1>1. ASSUME NEW c \in Calls, SaveCheckpoint(c)
      PROVE  Extends(meta[s], meta'[s])
  <2>1. pc[c] = "saving" /\ hold[c] \in Gens
    BY <1>1 DEF SaveCheckpoint, IInv, CallOK, OriginOK
  <2>2. meta'[s] = meta[s] \/ meta'[s] = Append(meta[s], hold[c])
    BY <1>0, <1>1 DEF SaveCheckpoint
  <2> QED
    BY <2>1, <2>2, ExtendsSelf, ExtendsByOne
<1>2. ASSUME NEW c \in Calls, Forget(c)
      PROVE  Extends(meta[s], meta'[s]) \/ (meta'[s] = <<>> /\ meta[s] \in library)
  <2>1. pc[c] = "published" /\ meta[src[c]] \in library
    BY <1>2 DEF Forget, IInv, CallOK, FileOK
  <2>2. meta'[s] = meta[s] \/ (s = src[c] /\ meta'[s] = <<>>)
    BY <1>0, <1>2 DEF Forget
  <2> QED
    BY <2>1, <2>2, ExtendsSelf
<1>3. CASE Crash
  <2>1. meta'[s] \in MetasAfterCrash(s)
    BY <1>3 DEF Crash
  <2>2. meta'[s] = meta[s] \/ \E c \in Saving(s) : meta'[s] = Append(meta[s], hold[c])
    BY <2>1 DEF MetasAfterCrash
  <2>3. \A c \in Saving(s) : hold[c] \in Gens
    BY DEF Saving, IInv, CallOK, OriginOK
  <2> QED
    BY <2>2, <2>3, ExtendsSelf, ExtendsByOne
<1>4. meta' = meta \/ Crash \/ \E c \in Calls : SaveCheckpoint(c) \/ Forget(c)
  BY DEF Next, Transfer, Publication, Start, CheckSource, CreatePartial, OpenPartial,
         ProbePrefix, ProbeOverlap, BeforeRange, ReadRange, AfterRange, WriteRange, WriteFails,
         Finish, Fail, Cleanup, CleanupFails, Publish, PublishFails, RecordFails, Release,
         FileChanges, Corrupts, Reconnect, vars, diskVars
<1> QED
  BY <1>1, <1>2, <1>3, <1>4, ExtendsSelf

\* When nothing dies and every unlink works, only a call that removes its partial
\* forgets that no checkpoint covers it.
LEMMA CoveredStep ==
  ASSUME ~Faults, IInv, PartialsCovered, [Next]_vars
  PROVE  PartialsCovered'
<1> SUFFICES ASSUME NEW s \in files'
             PROVE  meta'[s] # <<>> \/ \E c \in fresh' : src'[c] = s
  BY DEF PartialsCovered
<1>0. /\ meta \in [Sources -> Seq(Gens)] /\ files \subseteq Sources /\ fresh \subseteq Calls
      /\ src \in [Calls -> Sources \cup {NoSource}]
  BY DEF IInv, TypeOK
<1>00. /\ s \in files => meta[s] # <<>> \/ \E c \in fresh : src[c] = s
       /\ \A c \in fresh : pc[c] \in Looping \cup {"cleanup"} /\ meta[src[c]] = <<>>
       /\ \A c, d \in fresh : src[c] = src[d] => c = d
  BY <1>0 DEF PartialsCovered, IInv, CallOK, LeaseOK, OneHolder, Holds, Owning, Working, Looping
<1>1. ASSUME NEW c \in Calls, Start(c) PROVE meta'[s] # <<>> \/ \E d \in fresh' : src'[d] = s
  BY <1>1, <1>0, <1>00 DEF Start, Looping, diskVars
<1>2. ASSUME NEW c \in Calls, CreatePartial(c)
      PROVE  meta'[s] # <<>> \/ \E d \in fresh' : src'[d] = s
  BY <1>2, <1>0, <1>00 DEF CreatePartial
<1>3. ASSUME NEW c \in Calls, SaveCheckpoint(c)
      PROVE  meta'[s] # <<>> \/ \E d \in fresh' : src'[d] = s
  <2>1. pc[c] = "saving" /\ hold[c] \in Gens /\ src[c] \in Sources /\ meta[src[c]] \in Seq(Gens)
    BY <1>3, <1>0 DEF SaveCheckpoint, IInv, CallOK, LeaseOK, OriginOK
  <2>2. Append(meta[src[c]], hold[c]) # <<>>
    BY <2>1, AppendFacts
  <2>3. CASE s = src[c]
    BY <1>3, <1>0, <2>1, <2>2, <2>3 DEF SaveCheckpoint
  <2>4. CASE s # src[c]
    BY <1>3, <1>0, <1>00, <2>4 DEF SaveCheckpoint
  <2> QED
    BY <2>3, <2>4
<1>4. ASSUME NEW c \in Calls, Cleanup(c)
      PROVE  meta'[s] # <<>> \/ \E d \in fresh' : src'[d] = s
  <2>1. s \in files /\ (c \in fresh => s # src[c])
    BY <1>4 DEF Cleanup
  <2>2. \A d \in fresh : src[d] = s => d \in fresh' /\ src'[d] = s
    BY <1>4, <1>0, <2>1 DEF Cleanup, Forsake
  <2> QED
    BY <1>4, <1>00, <2>1, <2>2 DEF Cleanup
<1>5. ASSUME NEW c \in Calls, Release(c)
      PROVE  meta'[s] # <<>> \/ \E d \in fresh' : src'[d] = s
  <2>1. c \notin fresh
    BY <1>5, <1>00 DEF Release, Looping
  <2> QED
    BY <1>5, <1>0, <1>00, <2>1 DEF Release, Forsake, diskVars
<1>6. ASSUME NEW c \in Calls, Publish(c)
      PROVE  meta'[s] # <<>> \/ \E d \in fresh' : src'[d] = s
  BY <1>6, <1>00 DEF Publish
<1>7. ASSUME NEW c \in Calls, Forget(c)
      PROVE  meta'[s] # <<>> \/ \E d \in fresh' : src'[d] = s
  BY <1>7, <1>0, <1>00 DEF Forget
<1>8. CASE files' = files /\ meta' = meta /\ fresh' = fresh /\ src' = src
  BY <1>8, <1>00
<1>9. \/ files' = files /\ meta' = meta /\ fresh' = fresh /\ src' = src
      \/ \E c \in Calls : \/ Start(c) \/ CreatePartial(c) \/ SaveCheckpoint(c) \/ Cleanup(c)
                          \/ Release(c) \/ Publish(c) \/ Forget(c)
  BY DEF Next, Transfer, Publication, CheckSource, OpenPartial,
         ProbePrefix, ProbeOverlap, BeforeRange, ReadRange, AfterRange, WriteRange, WriteFails,
         Finish, Fail, CleanupFails, PublishFails, RecordFails, Crash,
         FileChanges, Corrupts, Reconnect, vars, diskVars, callVars
<1> QED
  BY <1>1, <1>2, <1>3, <1>4, <1>5, <1>6, <1>7, <1>8, <1>9

-----------------------------------------------------------------------------
(* Theorems                                                                *)

LEMMA InitInv == Init => IInv
<1> SUFFICES ASSUME Init PROVE IInv
  OBVIOUS
<1>1. TypeOK
  BY InitType
<1>2. Listed /\ current \notin gone
  BY DEF Init, Listed
<1>3. \A s \in Sources : MetaOK(s)
  BY DEF Init, MetaOK
<1>4. \A c \in Calls : CallOK(c)
  BY DEF Init, CallOK, LeaseOK, FileOK, OriginOK, Holds, Owning, Working, Looping, Probing,
         Settled, Bearing
<1>5. OneHolder /\ LibraryWhole /\ EvidenceKept /\ CheckpointBacked
  BY DEF Init, OneHolder, Holds, Owning, Working, LibraryWhole, EvidenceKept, CheckpointBacked
<1> QED
  BY <1>1, <1>2, <1>3, <1>4, <1>5 DEF IInv

LEMMA NextInv == IInv /\ [Next]_vars => IInv'
<1> SUFFICES ASSUME IInv, [Next]_vars PROVE IInv'
  OBVIOUS
<1>0. TypeOK'
  BY InvTyped, NextType
<1>1. CASE UNCHANGED vars
  <2>1. UNCHANGED <<catalog, current, gone, files, part, meta, active, leases, pc, src, hold,
                    fresh, stale, library>>
    BY <1>1 DEF vars, deviceVars, diskVars, leaseVars, callVars
  <2>2. \A c \in Calls : CallOK(c)'
    BY <2>1 DEF IInv, CallOK, LeaseOK, FileOK, OriginOK, Holds, Known, PrefixVerified
  <2> QED
    BY <1>0, <2>1, <2>2 DEF IInv, Listed, MetaOK, OneHolder, Holds, LibraryWhole,
                            EvidenceKept, CheckpointBacked
<1>2. ASSUME NEW c \in Calls, Start(c) \/ Transfer(c) PROVE IInv'
  BY <1>0, <1>2, StartStep, CheckSourceStep, CreatePartialStep, OpenPartialStep,
     ProbePrefixStep, ProbeOverlapStep, BeforeRangeStep, ReadRangeStep, AfterRangeStep,
     WriteRangeStep, WriteFailsStep, SaveCheckpointStep, FinishStep, FailStep, CleanupStep,
     CleanupFailsStep DEF Transfer
<1>3. ASSUME NEW c \in Calls, Publication(c) PROVE IInv'
  BY <1>0, <1>3, PublishStep, PublishFailsStep, RecordFailsStep, ForgetStep, ReleaseStep
     DEF Publication
<1>4. ASSUME NEW s \in Sources, FileChanges(s) \/ Corrupts(s) PROVE IInv'
  BY <1>0, <1>4, FileChangesStep, CorruptsStep
<1>5. ASSUME NEW cat \in [Sources -> Gens], NEW s \in Sources, Reconnect(cat, s) PROVE IInv'
  BY <1>0, <1>5, ReconnectStep
<1>6. CASE Crash
  BY <1>0, <1>6, CrashStep
<1> QED
  BY <1>1, <1>2, <1>3, <1>4, <1>5, <1>6 DEF Next

\* The leases, the checkpoint beside each partial, the generation each range
\* came from and the library agree in every reachable state of
\* downloadWithResume() and its callers.
THEOREM ResumeInvariant == Spec => []IInv
  BY InitInv, NextInv, PTL DEF Spec

\* Every reachable state of the resumable download is well typed.
THEOREM ResumeTypeCorrect == Spec => []TypeOK
<1>1. IInv => TypeOK
  BY DEF IInv
<1> QED
  BY <1>1, ResumeInvariant, PTL

\* What the publisher links into the library is a whole file of one
\* generation, for any number of ranges, reconnections, crashes and damages.
THEOREM PublishedIsWhole == Spec => []LibraryWhole
<1>1. IInv => LibraryWhole
  BY DEF IInv
<1> QED
  BY <1>1, ResumeInvariant, PTL

\* retainActiveStagingFile() and the publication leases never let two calls
\* work on one partial.
THEOREM SingleWriter == Spec => []OneWriter
<1>1. IInv => OneWriter
  BY DEF IInv, OneWriter, OneHolder, Holds
<1> QED
  BY <1>1, ResumeInvariant, PTL

\* A partial disappears from beside its checkpoint only by publication.
THEOREM EvidenceOutlives == Spec => []EvidenceKept
<1>1. IInv => EvidenceKept
  BY DEF IInv
<1> QED
  BY <1>1, ResumeInvariant, PTL

\* Unless the disk is damaged from outside, a checkpoint digests a prefix of
\* the partial beside it, whatever the process was doing when it died.
THEOREM CheckpointDurable ==
  ASSUME ~Corruption
  PROVE  Spec => []CheckpointBacked
<1>1. IInv => CheckpointBacked
  BY DEF IInv
<1> QED
  BY <1>1, ResumeInvariant, PTL

\* A checkpoint only grows until what it digests is in the library: no crash,
\* failure, reconnection or cancellation gives committed progress up.
THEOREM ProgressOutlives == Spec => ProgressKept
<1>1. IInv /\ [Next]_vars =>
        [\A s \in Sources :
           \/ Extends(meta[s], meta'[s])
           \/ meta'[s] = <<>> /\ meta[s] \in library]_vars
  BY ProgressStep
<1> QED
  BY <1>1, ResumeInvariant, PTL DEF Spec, ProgressKept

\* While the process lives and every unlink works, downloadWithResume() leaves no
\* partial behind that neither a checkpoint nor a call answers for, however calls
\* fail, are cancelled or lose their connection: the next one is never blocked.
THEOREM NothingOrphaned ==
  ASSUME ~Faults
  PROVE  Spec => []NoOrphan
<1>1. Init => IInv /\ PartialsCovered
  BY InitInv DEF Init, PartialsCovered
<1>2. (IInv /\ PartialsCovered) /\ [Next]_vars => (IInv /\ PartialsCovered)'
  BY NextInv, CoveredStep
<1>3. IInv /\ PartialsCovered => NoOrphan
  BY DEF IInv, TypeOK, CallOK, LeaseOK, Holds, Owning, Working, Looping, PartialsCovered, NoOrphan
<1> QED
  BY <1>1, <1>2, <1>3, PTL DEF Spec
=============================================================================
