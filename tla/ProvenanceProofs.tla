---------------------------- MODULE ProvenanceProofs ----------------------------
(***************************************************************************)
(* What the tags of a cell's reports tell, for any reports, chunks,        *)
(* versions, retention and analyzers.                                      *)
(*                                                                         *)
(* The first four parts of IInv are about a report in the making: where it *)
(* is (PlaceOk), what it has picked while it still depends on the          *)
(* directory (PickedOk), what that says of the pair to stamp (StampOk) and *)
(* of its source (SourceOk).  TagOk, RowOk and EntryOk carry the result to *)
(* the summary, the row and the index entries the readers use.  The banner *)
(* of the cells goes by the chunk index: CountTells is what it relies on.  *)
(***************************************************************************)
EXTENDS Provenance, FiniteSetTheorems, WellFoundedInduction, TLAPS

Stages == {"idle", "picked", "locked", "prepared", "ready", "written", "patched", "stamped",
           "completed", "sampling", "indexed", "patchedrow", "done"}
Kinds == {"none", "default", "filtered", "batch", "sampled"}
Before == {"idle", "picked", "locked", "prepared", "ready", "sampling"}
Made == {"default", "filtered", "batch"}

TypesOk ==
    /\ roster \in Nat /\ code \in Nat \ {0} /\ localCfg \in BOOLEAN
    /\ chunks = [i \in Idx |-> chunks[i]]
    /\ DOMAIN rep = Reports /\ DOMAIN summary = Reports
    /\ DOMAIN entries = Reports /\ DOMAIN row = Reports
    /\ \A r \in Reports : DOMAIN rep[r] = DOMAIN NoRep
    /\ \A r \in Reports : DOMAIN summary[r] = {"tag", "eff"}
    /\ \A r \in Reports : DOMAIN row[r] = {"status", "tag", "eff"}
    /\ \A r \in Reports : \A e \in entries[r] : DOMAIN e = {"tag", "eff"}

(* Where a report can be, by its kind, and that it has no summary and no   *)
(* entry before one is written.                                            *)
PlaceOk(r) ==
    /\ rep[r].at \in Stages /\ rep[r].kind \in Kinds
    /\ rep[r].kind = "none" <=> rep[r].at = "idle"
    /\ rep[r].kind = "sampled" =>
           rep[r].at \in {"sampling", "written", "indexed", "patchedrow", "done"}
    /\ rep[r].at = "sampling" => rep[r].stamp # Absent
    /\ rep[r].kind \in Made => rep[r].at \notin {"sampling", "indexed", "patchedrow"}
    /\ rep[r].at \in Before => summary[r] = NoSummary /\ entries[r] = {}
    /\ summary[r] = NoSummary => entries[r] = {}
    /\ summary[r] = NoSummary \/ summary[r].eff # 0

(* Nobody overtook it: the files it picked are there, with their pairs.    *)
PickedOk(r) ==
    Exposed(r) /\ "overtaken" \notin rep[r].fault =>
        /\ rep[r].sel # {} /\ rep[r].sel \subseteq Files
        /\ rep[r].picked = TagsOf(rep[r].sel)
        /\ rep[r].at \in {"prepared", "ready"} => rep[r].sel = Files

(* The pair that will be stamped is one of those it picked.                *)
StampOk(r) ==
    /\ IsFiniteSet(rep[r].picked)
    /\ rep[r].kind = "filtered" /\ rep[r].at # "done" => rep[r].picked = {rep[r].stamp}
    /\ /\ rep[r].kind \in Made /\ rep[r].at \in {"prepared", "ready", "written", "patched"}
       /\ "overtaken" \notin rep[r].fault
       => rep[r].stamp \in rep[r].picked

(* What it is made from is what it picked.                                 *)
SourceOk(r) ==
    /\ /\ rep[r].kind \in Made /\ "overtaken" \notin rep[r].fault
       /\ \/ rep[r].at \in {"prepared", "ready"} /\ rep[r].scoped
          \/ rep[r].at \in {"written", "patched"}
       => rep[r].src = rep[r].picked
    /\ /\ rep[r].kind = "sampled" /\ rep[r].at \in {"written", "indexed", "patchedrow", "done"}
       /\ summary[r] # NoSummary /\ "drift" \notin rep[r].fault
       => rep[r].src = {summary[r].tag}
    /\ rep[r].at = "done" => ~rep[r].scoped

(* The fourth conjunct of the property, report by report.                  *)
TagOk(r) ==
    /\ summary[r] # NoSummary /\ rep[r].at \in {"stamped", "completed", "indexed", "patchedrow", "done"}
    /\ rep[r].fault \cap {"overtaken", "unstamped", "drift"} = {}
    /\ Cardinality(rep[r].picked) = 1 /\ Blank \notin rep[r].picked
    => rep[r].src = {summary[r].tag}

(* A completed row has what the summary has, and its report is finished.   *)
RowOk(r) ==
    /\ row[r].status = "completed" =>
           /\ rep[r].at \in {"completed", "done"}
           /\ summary[r] # NoSummary
           /\ row[r].tag = summary[r].tag /\ row[r].eff = summary[r].eff
    /\ rep[r].at = "patchedrow" => row[r].tag = summary[r].tag /\ row[r].eff = summary[r].eff
    /\ rep[r].at \notin Before \cup {"done"} => summary[r] # NoSummary

(* An entry has the summary's pair unless a reconcile made it before the   *)
(* stamp.                                                                  *)
EntryOk(r) ==
    "early" \notin rep[r].fault =>
        /\ \A e \in entries[r] : e.tag = summary[r].tag
        /\ Unstamped(rep[r]) => entries[r] = {}

RepInv(r) == PlaceOk(r) /\ PickedOk(r) /\ StampOk(r) /\ SourceOk(r) /\ TagOk(r) /\ RowOk(r) /\ EntryOk(r)
IInv == TypesOk /\ \A r \in Reports : RepInv(r)

-----------------------------------------------------------------------------
(* Least elements, and what a set of one element is.                       *)
LEMMA LeastNatural ==
    ASSUME NEW S \in SUBSET Nat, S # {}
    PROVE  \E x \in S : \A y \in S : x <= y
<1> DEFINE R == {ss \in Nat \X Nat : ss[1] < ss[2]}
<1>1. PICK x \in S : \A y \in S : ~(<<y, x>> \in R)
  BY WFMin, NatLessThanWellFounded DEF OpToRel
<1>2. \A y \in S : ~(y < x)
  BY <1>1
<1> QED BY <1>1, <1>2

LEMMA MinIsElement ==
    ASSUME NEW S \in SUBSET Nat, S # {}
    PROVE  Min(S) \in S
BY LeastNatural DEF Min

LEMMA FilesAreFinite == IsFiniteSet(Files) /\ Files \subseteq Nat
<1>1. IsFiniteSet(1 .. MaxChunk)
  BY FS_Interval, ProvenanceAssumption
<1>2. Files \subseteq 1 .. MaxChunk
  BY DEF Files, Idx
<1>3. 1 .. MaxChunk \subseteq Nat
  BY ProvenanceAssumption
<1> QED BY <1>1, <1>2, <1>3, FS_Subset

LEMMA PairsAreFinite ==
    ASSUME NEW sel, sel \subseteq Files
    PROVE  IsFiniteSet(TagsOf(sel))
<1>1. IsFiniteSet(sel)
  BY FilesAreFinite, FS_Subset
<1>2. [i \in sel |-> chunks[i]] \in Surjection(sel, TagsOf(sel))
  BY DEF Surjection, TagsOf
<1> QED BY <1>1, <1>2, FS_Surjection DEF ExistsSurjection

(* A selection that is not linked elsewhere is the whole directory.        *)
LEMMA UnscopedIsWhole ==
    ASSUME NEW sel, sel \subseteq Files, ~Scoped(sel)
    PROVE  sel = Files
BY FilesAreFinite, FS_Subset DEF Scoped

(* A step that leaves a report and the files alone keeps what is known of  *)
(* the report.                                                             *)
LEMMA OthersKeep ==
    ASSUME NEW q \in Reports, RepInv(q), rep'[q] = rep[q], summary'[q] = summary[q],
           entries'[q] = entries[q], row'[q] = row[q], chunks' = chunks \/ ~Exposed(q)
    PROVE  RepInv(q)'
<1>1. PlaceOk(q)' /\ StampOk(q)' /\ SourceOk(q)' /\ TagOk(q)' /\ RowOk(q)' /\ EntryOk(q)'
  BY DEF RepInv, PlaceOk, StampOk, SourceOk, TagOk, RowOk, EntryOk, Unstamped, Before, Made, Stages, Kinds
<1>2. PickedOk(q)'
  BY DEF RepInv, PickedOk, Exposed, Files, TagsOf
<1> QED BY <1>1, <1>2 DEF RepInv

LEMMA OneReport ==
    ASSUME IInv, NEW r \in Reports, chunks' = chunks, RepInv(r)',
           \A q \in Reports \ {r} : /\ rep'[q] = rep[q] /\ summary'[q] = summary[q]
                                   /\ entries'[q] = entries[q] /\ row'[q] = row[q]
    PROVE  \A q \in Reports : RepInv(q)'
BY OthersKeep DEF IInv

-----------------------------------------------------------------------------
(* Picking, locking and linking.                                           *)
LEMMA PickKeeps ==
    ASSUME IInv, NEW r \in Reports, NEW kind \in {"default", "filtered", "batch"}, NEW pair \in Tags,
           Pick(r, kind, pair)
    PROVE  IInv'
<1>1. TypesOk /\ RepInv(r) /\ rep[r].kind = "none"
  BY DEF IInv, Pick, Unused
<1>2. TypesOk'
  BY <1>1 DEF Pick, TypesOk, world, disk, NoRep
<1>3. /\ rep'[r] = [kind |-> kind, at |-> "picked", sel |-> Selection(kind, pair), scoped |-> FALSE,
                    picked |-> TagsOf(Selection(kind, pair)), stamp |-> pair, upstream |-> Blank,
                    src |-> {}, fault |-> {}]
      /\ summary'[r] = NoSummary /\ entries'[r] = {} /\ row' = row /\ chunks' = chunks
  BY <1>1 DEF Pick, TypesOk, NoRep, RepInv, PlaceOk, Before, world, disk
<1>4. Selection(kind, pair) # {} /\ Selection(kind, pair) \subseteq Files
  BY DEF Pick, Selection, CurrentFiles
<1>5. kind = "filtered" => TagsOf(Selection(kind, pair)) = {pair}
  BY <1>4 DEF Selection, TagsOf
<1>6. RepInv(r)'
  <2> IsFiniteSet(TagsOf(Selection(kind, pair)))
    BY <1>4, PairsAreFinite
  <2>1. PlaceOk(r)' /\ StampOk(r)' /\ SourceOk(r)' /\ TagOk(r)' /\ EntryOk(r)'
    BY <1>3, <1>5 DEF PlaceOk, StampOk, SourceOk, TagOk, EntryOk, Stages, Kinds, Before, Made, Unstamped
  <2>2. PickedOk(r)'
    BY <1>3, <1>4 DEF PickedOk, Exposed, Files, TagsOf
  <2>3. RowOk(r)'
    BY <1>1, <1>3 DEF RowOk, RepInv, Before, PlaceOk
  <2> QED BY <2>1, <2>2, <2>3 DEF RepInv
<1>7. \A q \in Reports \ {r} : /\ rep'[q] = rep[q] /\ summary'[q] = summary[q]
                               /\ entries'[q] = entries[q] /\ row'[q] = row[q]
  BY DEF Pick
<1> QED BY <1>2, <1>3, <1>6, <1>7, OneReport DEF IInv

LEMMA LockKeeps ==
    ASSUME IInv, NEW r \in Reports, Lock(r)
    PROVE  IInv'
<1>1. TypesOk /\ RepInv(r)
  BY DEF IInv
<1>2. TypesOk'
  BY <1>1 DEF Lock, Go, Done, Over, TypesOk, world, disk, NoRep
<1>3. /\ summary' = summary /\ entries' = entries /\ row' = row /\ chunks' = chunks
      /\ \A q \in Reports \ {r} : rep'[q] = rep[q]
  BY <1>1 DEF Lock, Go, Done, disk, TypesOk
<1>4. \/ rep[r].at = "picked" /\ rep[r].kind \in Inline /\ rep'[r] = [rep[r] EXCEPT !.at = "locked"]
      \/ rep[r].at = "prepared" /\ rep[r].kind = "batch" /\ rep'[r] = [rep[r] EXCEPT !.at = "ready"]
      \/ rep[r].at \in {"picked", "prepared"} /\ rep'[r] = Over(rep[r])
  BY <1>1 DEF Lock, Go, Done, TypesOk
<1>5. RepInv(r)'
  <2>1. CASE rep[r].at \in {"picked", "prepared"} /\ rep'[r] = Over(rep[r])
    BY <1>1, <1>3, <2>1 DEF RepInv, PlaceOk, PickedOk, StampOk, SourceOk, TagOk, RowOk, EntryOk, Unstamped, Before, Made, Stages, Kinds, Over, NoRep, Exposed, TypesOk
  <2>2. CASE rep[r].at = "picked" /\ rep[r].kind \in Inline /\ rep'[r] = [rep[r] EXCEPT !.at = "locked"]
    BY <1>1, <1>3, <2>2 DEF RepInv, PlaceOk, PickedOk, StampOk, SourceOk, TagOk, RowOk, EntryOk, Unstamped, Before, Made, Stages, Kinds, Exposed, TypesOk, NoRep, Inline, Files, TagsOf
  <2>3. CASE rep[r].at = "prepared" /\ rep[r].kind = "batch" /\ rep'[r] = [rep[r] EXCEPT !.at = "ready"]
    BY <1>1, <1>3, <2>3 DEF RepInv, PlaceOk, PickedOk, StampOk, SourceOk, TagOk, RowOk, EntryOk, Unstamped, Before, Made, Stages, Kinds, Exposed, TypesOk, NoRep, Inline, Files, TagsOf
  <2> QED BY <1>4, <2>1, <2>2, <2>3
<1> QED BY <1>2, <1>3, <1>5, OneReport DEF IInv

LEMMA ScopeKeeps ==
    ASSUME IInv, NEW r \in Reports, Scope(r)
    PROVE  IInv'
<1> DEFINE it == rep[r]
           first == chunks[Min(it.sel)]
           next == IF it.kind = "batch" THEN "prepared" ELSE "ready"
           stamp == IF it.kind = "filtered" THEN it.stamp ELSE first
           linked == IF Scoped(it.sel) THEN TagsOf(it.sel) ELSE {}
           new == [it EXCEPT !.at = next, !.scoped = Scoped(it.sel), !.stamp = stamp,
                             !.upstream = Server(roster), !.src = linked]
<1>1. TypesOk /\ RepInv(r)
  BY DEF IInv
<1>2. TypesOk'
  <2>1. /\ DOMAIN rep' = Reports /\ DOMAIN row' = Reports
        /\ \A q \in Reports : DOMAIN rep'[q] = DOMAIN NoRep
    BY <1>1 DEF Scope, Done, Over, TypesOk, NoRep
  <2>2. \A q \in Reports : DOMAIN row'[q] = {"status", "tag", "eff"}
    BY <1>1 DEF Scope, TypesOk, NoRow
  <2>3. UNCHANGED <<world, disk, summary, entries>>
    BY DEF Scope
  <2> QED BY <1>1, <2>1, <2>2, <2>3 DEF TypesOk, world, disk
<1>3. /\ summary' = summary /\ entries' = entries /\ chunks' = chunks
      /\ \A q \in Reports \ {r} : rep'[q] = rep[q] /\ row'[q] = row[q]
  BY <1>1 DEF Scope, Done, disk, TypesOk
<1>4. it.at \in {"picked", "locked"} /\ (it.at = "picked" <=> it.kind = "batch")
  BY <1>1 DEF Scope, RepInv, PlaceOk
<1>5. \/ rep'[r] = Over(it) /\ row' = row
      \/ rep'[r] = new /\ row'[r].status = "running"
  BY <1>1 DEF Scope, Done, TypesOk, NoRow
<1>6. RepInv(r)'
  <2>1. CASE rep'[r] = Over(it) /\ row' = row
    BY <1>1, <1>3, <1>4, <2>1 DEF RepInv, PlaceOk, PickedOk, StampOk, SourceOk, TagOk, RowOk, EntryOk, Unstamped, Before, Made, Stages, Kinds, Over, NoRep, Exposed, TypesOk
  <2>2. CASE rep'[r] = new /\ row'[r].status = "running"
    <3>1. /\ rep'[r].kind = it.kind /\ rep'[r].at = next /\ rep'[r].scoped = Scoped(it.sel)
          /\ rep'[r].stamp = stamp /\ rep'[r].src = linked /\ rep'[r].sel = it.sel
          /\ rep'[r].picked = it.picked /\ rep'[r].fault = it.fault
      BY <1>1, <2>2 DEF TypesOk, NoRep
    <3>2. it.kind \in Made /\ next \in {"prepared", "ready"}
      BY <1>1, <1>4 DEF RepInv, PlaceOk, Made, Kinds
    <3> HIDE DEF stamp, linked, next, new
    <3>3. PlaceOk(r)' /\ TagOk(r)' /\ RowOk(r)' /\ EntryOk(r)'
      BY <1>1, <1>3, <1>4, <2>2, <3>1, <3>2
         DEF RepInv, PlaceOk, TagOk, RowOk, EntryOk, Unstamped, Before, Made, Stages, Kinds
    <3>4. "overtaken" \notin it.fault => /\ it.sel # {} /\ it.sel \subseteq Files
                                        /\ it.picked = TagsOf(it.sel)
      BY <1>1, <1>4 DEF RepInv, PickedOk, Exposed
    <3>5. PickedOk(r)'
      BY <1>3, <3>1, <3>2, <3>4, UnscopedIsWhole DEF PickedOk, Exposed, Files, TagsOf
    <3>6. "overtaken" \notin it.fault => Min(it.sel) \in it.sel
      BY <3>4, FilesAreFinite, MinIsElement
    <3>7. "overtaken" \notin it.fault => stamp \in it.picked
      BY <1>1, <1>4, <3>2, <3>4, <3>6 DEF stamp, TagsOf, RepInv, StampOk, Made
    <3>8. it.kind = "filtered" => it.picked = {stamp}
      BY <1>1, <1>4 DEF stamp, RepInv, StampOk
    <3>9. StampOk(r)'
      BY <1>1, <3>1, <3>7, <3>8 DEF StampOk, RepInv
    <3>10. SourceOk(r)'
      BY <3>1, <3>2, <3>4 DEF SourceOk, linked, Made
    <3> QED BY <3>3, <3>5, <3>9, <3>10 DEF RepInv
  <2> QED BY <1>5, <2>1, <2>2
<1> QED BY <1>2, <1>3, <1>6, OneReport DEF IInv

-----------------------------------------------------------------------------
(* The engine, the stamp, the row and the entry.                           *)
LEMMA EngineKeeps ==
    ASSUME IInv, NEW r \in Reports, Engine(r)
    PROVE  IInv'
<1> DEFINE src == IF rep[r].scoped THEN rep[r].src ELSE TagsOf(Files)
<1>1. TypesOk /\ RepInv(r)
  BY DEF IInv
<1>2. TypesOk'
  BY <1>1 DEF Engine, TypesOk, world, disk, NoRep
<1>3. /\ entries' = entries /\ chunks' = chunks /\ row' = row
      /\ \A q \in Reports \ {r} : rep'[q] = rep[q] /\ summary'[q] = summary[q]
  BY <1>1 DEF Engine, disk, TypesOk
<1>4. /\ rep[r].at = "ready" /\ rep[r].kind \in Made
      /\ rep'[r] = [rep[r] EXCEPT !.at = "written", !.src = src]
      /\ summary'[r] = [tag |-> Server(roster), eff |-> code]
  BY <1>1 DEF Engine, TypesOk, RepInv, PlaceOk, Made, Kinds
<1>5. /\ rep'[r].kind = rep[r].kind /\ rep'[r].at = "written" /\ rep'[r].scoped = rep[r].scoped
      /\ rep'[r].stamp = rep[r].stamp /\ rep'[r].src = src /\ rep'[r].picked = rep[r].picked
      /\ rep'[r].fault = rep[r].fault
  BY <1>1, <1>4 DEF TypesOk, NoRep
<1>6. "overtaken" \notin rep[r].fault => src = rep[r].picked
  BY <1>1, <1>4 DEF RepInv, PickedOk, SourceOk, Exposed
<1>7. summary'[r] # NoSummary /\ summary'[r].eff # 0
  BY <1>1, <1>4 DEF TypesOk, NoSummary
<1> HIDE DEF src
<1>8. RepInv(r)'
  <2>1. PlaceOk(r)' /\ PickedOk(r)' /\ TagOk(r)' /\ EntryOk(r)'
    BY <1>1, <1>3, <1>4, <1>5, <1>7 DEF RepInv, PlaceOk, PickedOk, StampOk, SourceOk, TagOk, RowOk, EntryOk, Unstamped, Before, Made, Stages, Kinds, Exposed
  <2>2. RowOk(r)'
    BY <1>1, <1>3, <1>4, <1>5, <1>7 DEF RepInv, RowOk, Before
  <2>3. StampOk(r)' /\ SourceOk(r)'
    BY <1>1, <1>4, <1>5, <1>6 DEF RepInv, StampOk, SourceOk, Made
  <2> QED BY <2>1, <2>2, <2>3 DEF RepInv
<1> QED BY <1>2, <1>3, <1>8, OneReport DEF IInv

LEMMA PatchKeeps ==
    ASSUME IInv, NEW r \in Reports, Patch(r)
    PROVE  IInv'
<1> DEFINE known == IF rep[r].kind = "batch" THEN rep[r].upstream ELSE Server(roster)
           tag == IF summary[r].tag = Blank THEN known ELSE summary[r].tag
<1>1. TypesOk /\ RepInv(r)
  BY DEF IInv
<1>2. TypesOk'
  BY <1>1 DEF Patch, Go, TypesOk, world, disk, NoRep
<1>3. /\ entries' = entries /\ chunks' = chunks /\ row' = row
      /\ \A q \in Reports \ {r} : rep'[q] = rep[q] /\ summary'[q] = summary[q]
  BY <1>1 DEF Patch, Go, disk, TypesOk
<1>4. /\ rep[r].at = "written" /\ rep[r].kind \in Made
      /\ rep'[r] = [rep[r] EXCEPT !.at = "patched"]
      /\ summary'[r] = [summary[r] EXCEPT !.tag = tag]
  BY <1>1 DEF Patch, Go, TypesOk, RepInv, PlaceOk, Made, Kinds
<1>5. /\ rep'[r].kind = rep[r].kind /\ rep'[r].at = "patched" /\ rep'[r].scoped = rep[r].scoped
      /\ rep'[r].stamp = rep[r].stamp /\ rep'[r].src = rep[r].src /\ rep'[r].picked = rep[r].picked
      /\ rep'[r].fault = rep[r].fault
  BY <1>1, <1>4 DEF TypesOk, NoRep
<1> HIDE DEF tag
<1>6. "early" \notin rep[r].fault => entries[r] = {}
  BY <1>1, <1>4 DEF RepInv, EntryOk, Unstamped, Made
<1>7. /\ summary'[r].eff = summary[r].eff /\ summary[r] # NoSummary /\ summary[r].eff # 0
      /\ summary'[r] # NoSummary
  BY <1>1, <1>4 DEF TypesOk, RepInv, RowOk, PlaceOk, Before, NoSummary
<1>8. RepInv(r)'
  BY <1>1, <1>3, <1>4, <1>5, <1>6, <1>7 DEF RepInv, PlaceOk, PickedOk, StampOk, SourceOk, TagOk, RowOk, EntryOk, Unstamped, Before, Made, Stages, Kinds, Exposed
<1> QED BY <1>2, <1>3, <1>8, OneReport DEF IInv

LEMMA StampKeeps ==
    ASSUME IInv, NEW r \in Reports, Stamp(r)
    PROVE  IInv'
<1>1. TypesOk /\ RepInv(r)
  BY DEF IInv
<1>2. TypesOk'
  BY <1>1 DEF Stamp, Go, TypesOk, world, disk, NoRep
<1>3. /\ entries' = entries /\ chunks' = chunks /\ row' = row
      /\ \A q \in Reports \ {r} : rep'[q] = rep[q] /\ summary'[q] = summary[q]
  BY <1>1 DEF Stamp, Go, disk, TypesOk
<1>4. /\ rep[r].at = "patched" /\ rep[r].kind \in Made
      /\ \/ /\ rep'[r] = [rep[r] EXCEPT !.at = "stamped"]
            /\ summary'[r] = [summary[r] EXCEPT !.tag = Stamped(r)]
         \/ /\ rep'[r] = [rep[r] EXCEPT !.at = "stamped", !.fault = @ \cup {"unstamped"}]
            /\ summary'[r] = summary[r]
  BY <1>1 DEF Stamp, Go, TypesOk, RepInv, PlaceOk, Made, Kinds
<1>5. /\ rep'[r].kind = rep[r].kind /\ rep'[r].at = "stamped" /\ rep'[r].scoped = rep[r].scoped
      /\ rep'[r].stamp = rep[r].stamp /\ rep'[r].src = rep[r].src /\ rep'[r].picked = rep[r].picked
      /\ \/ rep'[r].fault = rep[r].fault /\ summary'[r].tag = Stamped(r)
         \/ rep'[r].fault = rep[r].fault \cup {"unstamped"}
  BY <1>1, <1>4 DEF TypesOk, NoRep
<1>6. "early" \notin rep[r].fault => entries[r] = {}
  BY <1>1, <1>4 DEF RepInv, EntryOk, Unstamped, Made
<1>7. summary'[r] # NoSummary /\ summary'[r].eff # 0
  BY <1>1, <1>4 DEF TypesOk, RepInv, RowOk, PlaceOk, Before, NoSummary
<1>8. TagOk(r)'
  <2> SUFFICES ASSUME rep'[r].fault \cap {"overtaken", "unstamped", "drift"} = {},
                      Cardinality(rep[r].picked) = 1, Blank \notin rep[r].picked
               PROVE  rep'[r].src = {summary'[r].tag}
    BY <1>5 DEF TagOk
  <2>1. "overtaken" \notin rep[r].fault /\ summary'[r].tag = Stamped(r)
    BY <1>5
  <2>2. rep[r].src = rep[r].picked /\ rep[r].stamp \in rep[r].picked
    BY <1>1, <1>4, <2>1 DEF RepInv, SourceOk, StampOk
  <2>3. PICK x : rep[r].picked = {x}
    BY <1>1, FS_Singleton DEF RepInv, StampOk
  <2> QED BY <1>5, <2>1, <2>2, <2>3 DEF Stamped
<1>9. RepInv(r)'
  BY <1>1, <1>3, <1>4, <1>5, <1>6, <1>7, <1>8 DEF RepInv, PlaceOk, PickedOk, StampOk, SourceOk, RowOk, EntryOk, Unstamped, Before, Made, Stages, Kinds, Exposed
<1> QED BY <1>2, <1>3, <1>9, OneReport DEF IInv

LEMMA CompleteKeeps ==
    ASSUME IInv, NEW r \in Reports, Complete(r)
    PROVE  IInv'
<1>1. TypesOk /\ RepInv(r)
  BY DEF IInv
<1>2. TypesOk'
  BY <1>1 DEF Complete, Go, CompletedRow, TypesOk, world, disk, NoRep
<1>3. /\ entries' = entries /\ chunks' = chunks /\ summary' = summary
      /\ \A q \in Reports \ {r} : rep'[q] = rep[q] /\ row'[q] = row[q]
  BY <1>1 DEF Complete, Go, disk, TypesOk
<1>4. /\ rep[r].at = "stamped" /\ rep'[r] = [rep[r] EXCEPT !.at = "completed"]
      /\ row'[r] = CompletedRow(r)
  BY <1>1 DEF Complete, Go, TypesOk
<1>5. RepInv(r)'
  BY <1>1, <1>3, <1>4 DEF RepInv, PlaceOk, PickedOk, StampOk, SourceOk, TagOk, RowOk, EntryOk, Unstamped, Before, Made, Stages, Kinds, Exposed, CompletedRow, TypesOk, NoRep
<1> QED BY <1>2, <1>3, <1>5, OneReport DEF IInv

(* What a report keeps when its maker is over.                             *)
LEMMA OverKeeps ==
    ASSUME TypesOk, NEW r \in Reports
    PROVE  /\ Over(rep[r]).kind = rep[r].kind /\ Over(rep[r]).at = "done"
           /\ Over(rep[r]).picked = rep[r].picked /\ Over(rep[r]).src = rep[r].src
           /\ Over(rep[r]).fault = rep[r].fault /\ Over(rep[r]).scoped = FALSE
           /\ DOMAIN Over(rep[r]) = DOMAIN NoRep
BY DEF Over, NoRep, TypesOk

LEMMA InterruptedKeeps ==
    ASSUME TypesOk, NEW r \in Reports, NEW it, it = Over(Interrupted(rep[r]))
    PROVE  /\ it.kind = rep[r].kind /\ it.at = "done" /\ it.scoped = FALSE
           /\ it.picked = rep[r].picked /\ it.src = rep[r].src
           /\ it.fault = IF Unstamped(rep[r]) THEN rep[r].fault \cup {"unstamped"} ELSE rep[r].fault
           /\ DOMAIN it = DOMAIN NoRep
<1>1. CASE Unstamped(rep[r])
  <2>1. Interrupted(rep[r]) = [rep[r] EXCEPT !.fault = @ \cup {"unstamped"}]
    BY <1>1 DEF Interrupted
  <2> QED BY <1>1, <2>1 DEF Over, NoRep, TypesOk
<1>2. CASE ~Unstamped(rep[r])
  <2>1. Interrupted(rep[r]) = rep[r]
    BY <1>2 DEF Interrupted
  <2> QED BY <1>2, <2>1 DEF Over, NoRep, TypesOk
<1> QED BY <1>1, <1>2

LEMMA PublishKeeps ==
    ASSUME IInv, NEW r \in Reports, Publish(r)
    PROVE  IInv'
<1>1. TypesOk /\ RepInv(r)
  BY DEF IInv
<1>2. rep[r].at = "completed" /\ rep'[r] = Over(rep[r]) /\ entries'[r] = entries[r] \cup {Entry(r)}
  BY <1>1 DEF Publish, Done, TypesOk
<1>3. /\ row' = row /\ chunks' = chunks /\ summary' = summary
      /\ \A q \in Reports \ {r} : rep'[q] = rep[q] /\ entries'[q] = entries[q]
  BY <1>1 DEF Publish, Done, disk, TypesOk
<1>4. TypesOk'
  <2>1. DOMAIN rep' = Reports /\ \A q \in Reports : DOMAIN rep'[q] = DOMAIN NoRep
    BY <1>1, <1>2, <1>3, OverKeeps DEF TypesOk, Publish, Done
  <2>2. DOMAIN entries' = Reports /\ \A q \in Reports : \A e \in entries'[q] : DOMAIN e = {"tag", "eff"}
    BY <1>1, <1>2, <1>3 DEF TypesOk, Publish, Entry
  <2> QED BY <1>1, <2>1, <2>2 DEF TypesOk, Publish, world, disk
<1>5. /\ rep'[r].kind = rep[r].kind /\ rep'[r].at = "done" /\ rep'[r].src = rep[r].src
      /\ rep'[r].picked = rep[r].picked /\ rep'[r].scoped = FALSE /\ rep'[r].fault = rep[r].fault
  BY <1>1, <1>2, OverKeeps
<1>6. \A e \in entries'[r] : e \in entries[r] \/ e.tag = summary[r].tag
  BY <1>2 DEF Entry
<1>7. summary[r] # NoSummary
  BY <1>1, <1>2 DEF RepInv, RowOk, Before
<1>8. RepInv(r)'
  BY <1>1, <1>2, <1>3, <1>5, <1>6, <1>7 DEF RepInv, PlaceOk, PickedOk, StampOk, SourceOk, TagOk, RowOk, EntryOk, Unstamped, Before, Made, Stages, Kinds, Exposed
<1> QED BY <1>3, <1>4, <1>8, OneReport DEF IInv

LEMMA GenerateFailsKeeps ==
    ASSUME IInv, NEW r \in Reports, GenerateFails(r)
    PROVE  IInv'
<1>1. TypesOk /\ RepInv(r)
  BY DEF IInv
<1>2. /\ rep[r].at \in {"ready", "written", "patched", "stamped", "completed"} /\ rep[r].kind \in Made
      /\ rep'[r] = Over(Interrupted(rep[r])) /\ row'[r].status = "failed"
  BY <1>1 DEF GenerateFails, TypesOk, RepInv, PlaceOk, Inline, Made, Kinds
<1>3. /\ entries' = entries /\ chunks' = chunks /\ summary' = summary
      /\ \A q \in Reports \ {r} : rep'[q] = rep[q] /\ row'[q] = row[q]
  BY <1>1 DEF GenerateFails, disk, TypesOk
<1>4. TypesOk'
  <2>1. DOMAIN rep' = Reports /\ \A q \in Reports : DOMAIN rep'[q] = DOMAIN NoRep
    BY <1>1, <1>2, <1>3, InterruptedKeeps DEF TypesOk, GenerateFails
  <2>2. DOMAIN row' = Reports /\ \A q \in Reports : DOMAIN row'[q] = {"status", "tag", "eff"}
    BY <1>1, <1>3 DEF TypesOk, GenerateFails
  <2> QED BY <1>1, <2>1, <2>2 DEF TypesOk, GenerateFails, world, disk
<1>5. /\ rep'[r].kind = rep[r].kind /\ rep'[r].at = "done" /\ rep'[r].src = rep[r].src
      /\ rep'[r].picked = rep[r].picked /\ rep'[r].scoped = FALSE
      /\ rep'[r].fault = IF Unstamped(rep[r]) THEN rep[r].fault \cup {"unstamped"} ELSE rep[r].fault
  BY <1>1, <1>2, InterruptedKeeps
<1>6. RepInv(r)'
  BY <1>1, <1>2, <1>3, <1>5 DEF RepInv, PlaceOk, PickedOk, StampOk, SourceOk, TagOk, RowOk, EntryOk, Unstamped, Before, Made, Stages, Kinds, Exposed
<1> QED BY <1>3, <1>4, <1>6, OneReport DEF IInv

-----------------------------------------------------------------------------
(* Sampling.                                                               *)
LEMMA StartSamplingKeeps ==
    ASSUME IInv, NEW r \in Reports, NEW withLocal \in BOOLEAN, StartSampling(r, withLocal)
    PROVE  IInv'
<1> DEFINE stamp == IF withLocal THEN Local(roster) ELSE Server(roster)
<1>1. TypesOk /\ RepInv(r) /\ rep[r].kind = "none"
  BY DEF IInv, StartSampling, Unused
<1>2. /\ rep'[r] = [kind |-> "sampled", at |-> "sampling", sel |-> {}, scoped |-> FALSE,
                    picked |-> {}, stamp |-> stamp, upstream |-> Blank, src |-> {}, fault |-> {}]
      /\ row'[r].status = "running" /\ summary[r] = NoSummary /\ entries[r] = {}
  BY <1>1 DEF StartSampling, TypesOk, NoRep, NoRow, RepInv, PlaceOk, Before
<1>3. /\ entries' = entries /\ chunks' = chunks /\ summary' = summary
      /\ \A q \in Reports \ {r} : rep'[q] = rep[q] /\ row'[q] = row[q]
  BY <1>1 DEF StartSampling, disk, TypesOk
<1>4. TypesOk'
  BY <1>1 DEF StartSampling, TypesOk, world, disk, NoRep, NoRow
<1>5. RepInv(r)'
  <2> stamp # Absent
    BY DEF Server, Local, Absent
  <2> HIDE DEF stamp
  <2> QED BY <1>1, <1>2, <1>3, FS_EmptySet DEF RepInv, PlaceOk, PickedOk, StampOk, SourceOk, TagOk, RowOk, EntryOk, Unstamped, Before, Made, Stages, Kinds, Exposed
<1> QED BY <1>3, <1>4, <1>5, OneReport DEF IInv

LEMMA AnalyseKeeps ==
    ASSUME IInv, NEW r \in Reports, Analyse(r)
    PROVE  IInv'
<1> DEFINE src == IF rep[r].stamp = Blank THEN TagsOf(Files) ELSE TagsOf(Files) \cap {rep[r].stamp}
           fault == IF Unverifiable \/ rep[r].stamp # Server(roster) THEN {"drift"} ELSE {}
<1>1. TypesOk /\ RepInv(r)
  BY DEF IInv
<1>2. /\ rep[r].at = "sampling" /\ src # {} /\ rep[r].kind = "sampled"
      /\ rep'[r] = [rep[r] EXCEPT !.at = "written", !.src = src, !.picked = src, !.fault = fault]
      /\ summary'[r] = [tag |-> Server(roster), eff |-> code] /\ entries[r] = {}
  BY <1>1 DEF Analyse, TypesOk, RepInv, PlaceOk, Before, Made, Kinds
<1>3. /\ entries' = entries /\ chunks' = chunks /\ row' = row
      /\ \A q \in Reports \ {r} : rep'[q] = rep[q] /\ summary'[q] = summary[q]
  BY <1>1 DEF Analyse, disk, TypesOk
<1>4. TypesOk'
  BY <1>1 DEF Analyse, TypesOk, world, disk, NoRep
<1>5. /\ rep'[r].kind = "sampled" /\ rep'[r].at = "written" /\ rep'[r].src = src
      /\ rep'[r].picked = src /\ rep'[r].fault = fault /\ rep'[r].scoped = rep[r].scoped
  BY <1>1, <1>2 DEF TypesOk, NoRep
<1>6. "drift" \notin fault => src = {summary'[r].tag}
  BY <1>1, <1>2 DEF Unverifiable, Server, Blank, TypesOk
<1>7. IsFiniteSet(src)
  BY PairsAreFinite, FS_Subset
<1>8. summary'[r] # NoSummary /\ summary'[r].eff # 0
  BY <1>1, <1>2 DEF TypesOk, NoSummary
<1> HIDE DEF src, fault
<1>9. RepInv(r)'
  BY <1>1, <1>2, <1>3, <1>5, <1>6, <1>7, <1>8 DEF RepInv, PlaceOk, PickedOk, StampOk, SourceOk, TagOk, RowOk, EntryOk, Unstamped, Before, Made, Stages, Kinds, Exposed
<1> QED BY <1>3, <1>4, <1>9, OneReport DEF IInv

LEMMA IndexSampleKeeps ==
    ASSUME IInv, NEW r \in Reports, IndexSample(r)
    PROVE  IInv'
<1>1. TypesOk /\ RepInv(r)
  BY DEF IInv
<1>2. /\ rep[r].at = "written" /\ rep[r].kind = "sampled"
      /\ rep'[r] = [rep[r] EXCEPT !.at = "indexed"] /\ entries'[r] = entries[r] \cup {Entry(r)}
  BY <1>1 DEF IndexSample, Go, TypesOk
<1>3. /\ row' = row /\ chunks' = chunks /\ summary' = summary
      /\ \A q \in Reports \ {r} : rep'[q] = rep[q] /\ entries'[q] = entries[q]
  BY <1>1 DEF IndexSample, Go, disk, TypesOk
<1>4. TypesOk'
  <2>1. DOMAIN rep' = Reports /\ \A q \in Reports : DOMAIN rep'[q] = DOMAIN NoRep
    BY <1>1, <1>2, <1>3 DEF TypesOk, IndexSample, Go, NoRep
  <2>2. DOMAIN entries' = Reports /\ \A q \in Reports : \A e \in entries'[q] : DOMAIN e = {"tag", "eff"}
    BY <1>1, <1>2, <1>3 DEF TypesOk, IndexSample, Entry
  <2> QED BY <1>1, <2>1, <2>2 DEF TypesOk, IndexSample, world, disk
<1>5. /\ rep'[r].kind = rep[r].kind /\ rep'[r].at = "indexed" /\ rep'[r].src = rep[r].src
      /\ rep'[r].picked = rep[r].picked /\ rep'[r].scoped = rep[r].scoped
      /\ rep'[r].fault = rep[r].fault
  BY <1>1, <1>2 DEF TypesOk, NoRep
<1>6. /\ \A e \in entries'[r] : e \in entries[r] \/ e.tag = summary[r].tag
      /\ summary[r] # NoSummary
  BY <1>1, <1>2 DEF Entry, RepInv, RowOk, Before
<1>7. RepInv(r)'
  BY <1>1, <1>2, <1>3, <1>5, <1>6 DEF RepInv, PlaceOk, PickedOk, StampOk, SourceOk, TagOk, RowOk, EntryOk, Unstamped, Before, Made, Stages, Kinds, Exposed
<1> QED BY <1>3, <1>4, <1>7, OneReport DEF IInv

LEMMA PatchRowKeeps ==
    ASSUME IInv, NEW r \in Reports, PatchRow(r)
    PROVE  IInv'
<1>1. TypesOk /\ RepInv(r)
  BY DEF IInv
<1>2. TypesOk'
  BY <1>1 DEF PatchRow, Go, TypesOk, world, disk, NoRep
<1>3. /\ entries' = entries /\ chunks' = chunks /\ summary' = summary
      /\ \A q \in Reports \ {r} : rep'[q] = rep[q] /\ row'[q] = row[q]
  BY <1>1 DEF PatchRow, Go, disk, TypesOk
<1>4. /\ rep[r].at = "indexed" /\ rep'[r] = [rep[r] EXCEPT !.at = "patchedrow"]
      /\ row'[r].tag = summary[r].tag /\ row'[r].eff = summary[r].eff
      /\ row'[r].status = row[r].status
  BY <1>1 DEF PatchRow, Go, TypesOk
<1>5. RepInv(r)'
  BY <1>1, <1>3, <1>4 DEF RepInv, PlaceOk, PickedOk, StampOk, SourceOk, TagOk, RowOk, EntryOk, Unstamped, Before, Made, Stages, Kinds, Exposed, TypesOk, NoRep
<1> QED BY <1>2, <1>3, <1>5, OneReport DEF IInv

LEMMA FinishSampleKeeps ==
    ASSUME IInv, NEW r \in Reports, FinishSample(r) \/ SampleFails(r)
    PROVE  IInv'
<1>1. TypesOk /\ RepInv(r)
  BY DEF IInv
<1>2. /\ entries' = entries /\ chunks' = chunks /\ summary' = summary
      /\ \A q \in Reports \ {r} : rep'[q] = rep[q] /\ row'[q] = row[q]
      /\ rep'[r] = Over(rep[r])
      /\ row'[r].tag = row[r].tag /\ row'[r].eff = row[r].eff
      /\ \/ rep[r].at = "patchedrow"
         \/ rep[r].at = "sampling" /\ row'[r].status = "failed"
  BY <1>1 DEF FinishSample, SampleFails, Done, disk, TypesOk
<1>3. TypesOk'
  <2>1. DOMAIN rep' = Reports /\ \A q \in Reports : DOMAIN rep'[q] = DOMAIN NoRep
    BY <1>1, <1>2, OverKeeps DEF TypesOk, FinishSample, SampleFails, Done
  <2>2. DOMAIN row' = Reports /\ \A q \in Reports : DOMAIN row'[q] = {"status", "tag", "eff"}
    BY <1>1 DEF TypesOk, FinishSample, SampleFails
  <2> QED BY <1>1, <2>1, <2>2 DEF TypesOk, FinishSample, SampleFails, world, disk
<1>4. /\ rep'[r].kind = rep[r].kind /\ rep'[r].at = "done" /\ rep'[r].src = rep[r].src
      /\ rep'[r].picked = rep[r].picked /\ rep'[r].scoped = FALSE /\ rep'[r].fault = rep[r].fault
  BY <1>1, <1>2, OverKeeps
<1>5. RepInv(r)'
  BY <1>1, <1>2, <1>4 DEF RepInv, PlaceOk, PickedOk, StampOk, SourceOk, TagOk, RowOk, EntryOk, Unstamped, Before, Made, Stages, Kinds, Exposed
<1> QED BY <1>2, <1>3, <1>5, OneReport DEF IInv

-----------------------------------------------------------------------------
(* The files change under the reports that depend on them.                 *)
LEMMA ChangeKeeps ==
    ASSUME IInv, NEW new, NEW w, ChangeFiles(new, w), new = [i \in Idx |-> new[i]],
           w \in Reports => ~Exposed(w), UNCHANGED <<world, summary, entries, row>>
    PROVE  IInv'
<1>1. TypesOk'
  BY DEF IInv, TypesOk, ChangeFiles, world, NoRep
<1>2. ASSUME NEW q \in Reports PROVE RepInv(q)'
  <2>1. CASE ~Exposed(q)
    <3>1. rep'[q] = rep[q]
      BY <2>1 DEF ChangeFiles
    <3> QED BY <2>1, <3>1, OthersKeep DEF IInv
  <2>2. CASE Exposed(q)
    <3>1. rep'[q] = [rep[q] EXCEPT !.fault = rep[q].fault \cup {"overtaken"}]
      BY <2>2 DEF ChangeFiles
    <3>2. RepInv(q) /\ DOMAIN rep[q] = DOMAIN NoRep
      BY DEF IInv, TypesOk
    <3>3. /\ rep'[q].kind = rep[q].kind /\ rep'[q].at = rep[q].at /\ rep'[q].scoped = rep[q].scoped
          /\ rep'[q].stamp = rep[q].stamp /\ rep'[q].src = rep[q].src
          /\ rep'[q].picked = rep[q].picked /\ rep'[q].fault = rep[q].fault \cup {"overtaken"}
      BY <3>1, <3>2 DEF NoRep
    <3> QED BY <2>2, <3>2, <3>3 DEF RepInv, PlaceOk, PickedOk, StampOk, SourceOk, TagOk, RowOk, EntryOk, Unstamped, Before, Made, Stages, Kinds, Exposed
  <2> QED BY <2>1, <2>2
<1> QED BY <1>1, <1>2 DEF IInv

LEMMA FilesKeep ==
    ASSUME IInv,
           \/ CleanupUnlink
           \/ \E pair \in Tags : DeleteVersion(pair)
           \/ \E r \in Reports : WriteChunk(r)
    PROVE  IInv'
<1>1. CASE CleanupUnlink
  BY <1>1, ChangeKeeps, ProvenanceAssumption DEF CleanupUnlink
<1>2. ASSUME NEW pair \in Tags, DeleteVersion(pair) PROVE IInv'
  BY <1>2, ChangeKeeps, ProvenanceAssumption DEF DeleteVersion
<1>3. ASSUME NEW r \in Reports, WriteChunk(r) PROVE IInv'
  <2> DEFINE next == IF Files = {} THEN 1 ELSE Max(Files) + 1
             new == [chunks EXCEPT ![next] = rep[r].stamp]
  <2>1. new = [i \in Idx |-> new[i]]
    BY DEF IInv, TypesOk
  <2>2. ~Exposed(r) /\ ChangeFiles(new, r) /\ UNCHANGED <<world, summary, entries, row>>
    BY <1>3 DEF WriteChunk, Exposed
  <2> HIDE DEF new
  <2> QED BY <2>1, <2>2, ChangeKeeps
<1> QED BY <1>1, <1>2, <1>3

LEMMA WorldKeeps ==
    ASSUME IInv, Refresh \/ ToggleLocal \/ CleanupList \/ ReadStatus
    PROVE  IInv'
<1>1. TypesOk'
  <2>1. CASE Refresh
    BY <2>1 DEF IInv, TypesOk, Refresh, disk, reports
  <2>2. CASE ToggleLocal
    BY <2>2 DEF IInv, TypesOk, ToggleLocal, disk, reports
  <2>3. CASE CleanupList
    BY <2>3 DEF IInv, TypesOk, CleanupList, disk, reports, world
  <2>4. CASE ReadStatus
    BY <2>4 DEF IInv, TypesOk, ReadStatus, reports, world
  <2> QED BY <2>1, <2>2, <2>3, <2>4
<1>2. UNCHANGED <<rep, summary, entries, row, chunks>>
  BY DEF Refresh, ToggleLocal, CleanupList, ReadStatus, world, disk, reports
<1> QED BY <1>1, <1>2, OthersKeep DEF IInv

-----------------------------------------------------------------------------
(* The reconcile and the restart reach every report.                       *)
LEMMA FilledKeeps ==
    ASSUME IInv, NEW r \in Reports
    PROVE  /\ Filled(r).status = row[r].status
           /\ row[r].status = "completed" \/ rep[r].at = "patchedrow" =>
                  Filled(r).tag = row[r].tag /\ Filled(r).eff = row[r].eff
           /\ DOMAIN Filled(r) = {"status", "tag", "eff"}
BY DEF IInv, RepInv, RowOk, TypesOk, Filled

LEMMA ReconcileKeeps ==
    ASSUME IInv, Reconcile
    PROVE  IInv'
<1>1. TypesOk
  BY DEF IInv
<1>2. TypesOk'
  <2>1. DOMAIN rep' = Reports /\ \A q \in Reports : DOMAIN rep'[q] = DOMAIN NoRep
    BY <1>1 DEF Reconcile, TypesOk
  <2>2. DOMAIN row' = Reports /\ \A q \in Reports : DOMAIN row'[q] = {"status", "tag", "eff"}
    BY FilledKeeps DEF Reconcile
  <2>3. DOMAIN entries' = Reports /\ \A q \in Reports : \A e \in entries'[q] : DOMAIN e = {"tag", "eff"}
    BY <1>1 DEF Reconcile, Reconciled, Entry, TypesOk
  <2> QED BY <1>1, <2>1, <2>2, <2>3 DEF TypesOk, Reconcile, world, disk
<1>3. ASSUME NEW r \in Reports PROVE RepInv(r)'
  <2>1. RepInv(r)
    BY DEF IInv
  <2>2. /\ entries'[r] = Reconciled(r) /\ row'[r] = Filled(r) /\ chunks' = chunks /\ summary' = summary
        /\ rep'[r] = IF entries[r] = {} /\ Unstamped(rep[r])
                     THEN [rep[r] EXCEPT !.fault = @ \cup {"early"}] ELSE rep[r]
    BY DEF Reconcile, disk
  <2>3. /\ rep'[r].kind = rep[r].kind /\ rep'[r].at = rep[r].at /\ rep'[r].scoped = rep[r].scoped
        /\ rep'[r].stamp = rep[r].stamp /\ rep'[r].src = rep[r].src /\ rep'[r].sel = rep[r].sel
        /\ rep'[r].picked = rep[r].picked
        /\ rep'[r].fault = IF entries[r] = {} /\ Unstamped(rep[r])
                           THEN rep[r].fault \cup {"early"} ELSE rep[r].fault
    BY <1>1, <2>2 DEF TypesOk, NoRep
  <2>4. PlaceOk(r)'
    BY <2>1, <2>2, <2>3 DEF RepInv, PlaceOk, Reconciled, Stages, Kinds, Before, Made
  <2>5. PickedOk(r)' /\ StampOk(r)' /\ SourceOk(r)' /\ TagOk(r)'
    BY <2>1, <2>2, <2>3 DEF RepInv, PickedOk, StampOk, SourceOk, TagOk, Exposed, Files, TagsOf, Made
  <2>6. RowOk(r)'
    BY <2>1, <2>2, <2>3, FilledKeeps DEF RepInv, RowOk, Before
  <2>7. EntryOk(r)'
    <3>1. \A e \in entries'[r] : \/ e.tag = summary[r].tag
                                 \/ \E d \in entries[r] : e.tag = d.tag
      BY <1>1, <2>2 DEF Reconciled, Entry, TypesOk
    <3> QED BY <2>1, <2>2, <2>3, <3>1 DEF RepInv, EntryOk, Unstamped, Reconciled
  <2> QED BY <2>4, <2>5, <2>6, <2>7 DEF RepInv
<1> QED BY <1>2, <1>3 DEF IInv

LEMMA RestartKeeps ==
    ASSUME IInv, NEW new \in 1 .. MaxCode, Restart(new)
    PROVE  IInv'
<1>1. TypesOk
  BY DEF IInv
<1>2. TypesOk'
  <2>1. DOMAIN rep' = Reports /\ \A q \in Reports : DOMAIN rep'[q] = DOMAIN NoRep
    BY <1>1, InterruptedKeeps DEF Restart, TypesOk
  <2>2. DOMAIN row' = Reports /\ \A q \in Reports : DOMAIN row'[q] = {"status", "tag", "eff"}
    BY <1>1, FilledKeeps DEF Restart, TypesOk
  <2>3. code' \in Nat \ {0}
    BY ProvenanceAssumption DEF Restart
  <2> QED BY <1>1, <2>1, <2>2, <2>3 DEF TypesOk, Restart, disk
<1>3. ASSUME NEW r \in Reports PROVE RepInv(r)'
  <2>1. RepInv(r)
    BY DEF IInv
  <2>2. /\ row'[r] = IF row[r].status = "running" THEN [row[r] EXCEPT !.status = "failed"] ELSE Filled(r)
        /\ rep'[r] = IF rep[r].at \in {"idle", "done"} THEN rep[r] ELSE Over(Interrupted(rep[r]))
        /\ UNCHANGED <<entries, summary, chunks>>
    BY DEF Restart, disk
  <2>3. /\ row'[r].status = "completed" => row[r].status = "completed"
        /\ row[r].status = "completed" => row'[r].tag = row[r].tag /\ row'[r].eff = row[r].eff
    BY <1>1, <2>2, FilledKeeps DEF TypesOk
  <2>4. RowOk(r)'
    BY <1>1, <2>1, <2>2, <2>3, InterruptedKeeps DEF RepInv, RowOk, Before, PlaceOk
  <2>5. CASE rep[r].at \in {"idle", "done"}
    BY <2>1, <2>2, <2>4, <2>5 DEF RepInv, PlaceOk, PickedOk, StampOk, SourceOk, TagOk, RowOk, EntryOk, Unstamped, Before, Made, Stages, Kinds, Exposed
  <2>6. CASE rep[r].at \notin {"idle", "done"}
    <3>1. /\ rep'[r].kind = rep[r].kind /\ rep'[r].at = "done" /\ rep'[r].src = rep[r].src
          /\ rep'[r].picked = rep[r].picked /\ rep'[r].scoped = FALSE
          /\ rep'[r].fault = IF Unstamped(rep[r]) THEN rep[r].fault \cup {"unstamped"} ELSE rep[r].fault
      BY <1>1, <2>2, <2>6, InterruptedKeeps
    <3>2. PlaceOk(r)' /\ PickedOk(r)' /\ StampOk(r)' /\ SourceOk(r)' /\ EntryOk(r)'
      BY <2>1, <2>2, <2>6, <3>1 DEF RepInv, PlaceOk, PickedOk, StampOk, SourceOk, TagOk, RowOk, EntryOk, Unstamped, Before, Made, Stages, Kinds, Exposed
    <3>3. TagOk(r)'
      BY <2>1, <2>2, <2>6, <3>1 DEF RepInv, PlaceOk, PickedOk, StampOk, SourceOk, TagOk, RowOk, EntryOk, Unstamped, Before, Made, Stages, Kinds
    <3> QED BY <2>4, <3>2, <3>3 DEF RepInv
  <2> QED BY <2>5, <2>6
<1> QED BY <1>2, <1>3 DEF IInv

-----------------------------------------------------------------------------
(* The invariant holds at the start and through every step.                *)
LEMMA InitInv == Init => IInv
<1> SUFFICES ASSUME Init PROVE IInv
  OBVIOUS
<1>1. TypesOk
  <2>1. chunks = [i \in Idx |-> chunks[i]]
    BY DEF Init, InitChunks
  <2>2. roster \in Nat /\ code \in Nat \ {0}
    BY DEF Init
  <2>4. localCfg \in BOOLEAN
    BY DEF Init
  <2>3. /\ rep = [r \in Reports |-> NoRep] /\ summary = [r \in Reports |-> NoSummary]
        /\ entries = [r \in Reports |-> {}] /\ row = [r \in Reports |-> NoRow]
    BY DEF Init
  <2> QED BY <2>1, <2>2, <2>3, <2>4 DEF TypesOk, NoRep, NoSummary, NoRow
<1>2. ASSUME NEW r \in Reports PROVE RepInv(r)
  <2>1. /\ rep[r] = NoRep /\ summary[r] = NoSummary /\ entries[r] = {} /\ row[r] = NoRow
    BY DEF Init
  <2> QED BY <2>1, FS_EmptySet DEF RepInv, PlaceOk, PickedOk, StampOk, SourceOk, TagOk, RowOk, EntryOk, Unstamped, Before, Made, Stages, Kinds, Exposed, NoRep, NoRow
<1> QED BY <1>1, <1>2 DEF IInv

LEMMA StepKeeps == IInv /\ [Next]_vars => IInv'
<1> SUFFICES ASSUME IInv, [Next]_vars PROVE IInv'
  OBVIOUS
<1>1. CASE UNCHANGED vars
  <2>1. UNCHANGED <<roster, localCfg, code, rep, summary, entries, row, chunks>>
    BY <1>1 DEF vars
  <2>2. TypesOk'
    BY <2>1 DEF IInv, TypesOk
  <2> QED BY <2>1, <2>2, OthersKeep DEF IInv
<1>2. ASSUME NEW r \in Reports,
             \/ \E kind \in {"default", "filtered", "batch"}, pair \in Tags : Pick(r, kind, pair)
             \/ \E withLocal \in BOOLEAN : StartSampling(r, withLocal)
             \/ Lock(r) \/ Scope(r) \/ Engine(r) \/ Patch(r) \/ Stamp(r) \/ Complete(r)
             \/ Publish(r) \/ GenerateFails(r)
             \/ WriteChunk(r) \/ Analyse(r) \/ IndexSample(r) \/ PatchRow(r)
             \/ FinishSample(r) \/ SampleFails(r)
      PROVE  IInv'
  BY <1>2, PickKeeps, StartSamplingKeeps, LockKeeps, ScopeKeeps, EngineKeeps, PatchKeeps, StampKeeps,
     CompleteKeeps, PublishKeeps, GenerateFailsKeeps, FilesKeep, AnalyseKeeps, IndexSampleKeeps,
     PatchRowKeeps, FinishSampleKeeps
<1>3. CASE Refresh \/ ToggleLocal \/ CleanupList \/ ReadStatus
  BY <1>3, WorldKeeps
<1>4. CASE CleanupUnlink \/ \E pair \in Tags : DeleteVersion(pair)
  BY <1>4, FilesKeep
<1>5. CASE Reconcile
  BY <1>5, ReconcileKeeps
<1>6. ASSUME NEW new \in 1 .. MaxCode, Restart(new) PROVE IInv'
  BY <1>6, RestartKeeps
<1> QED BY <1>1, <1>2, <1>3, <1>4, <1>5, <1>6 DEF Next

(* Everything the invariant says holds in every state.                     *)
THEOREM ReportsSound == Spec => []IInv
BY InitInv, StepKeeps, PTL DEF Spec

(* A finished report whose chunks shared one known pair is tagged with it, *)
(* whatever became of the server's pair, the files and the console, but    *)
(* for the three exceptions the property names.                            *)
THEOREM TagsTell == Spec => []TagTellsTheSource
<1>1. IInv => TagTellsTheSource
  BY DEF IInv, RepInv, TagOk, TagTellsTheSource
<1> QED BY <1>1, ReportsSound, PTL

(* The banner, the validation and the version list say the same.           *)
THEOREM ReadersSaySame == Spec => []ReadersAgree
<1>1. IInv => ReadersAgree
  <2> SUFFICES ASSUME IInv PROVE ReadersAgree
    OBVIOUS
  <2>1. \A r \in Completed : row[r].tag = summary[r].tag /\ row[r].eff = summary[r].eff
    BY DEF IInv, RepInv, RowOk, Completed
  <2>2. RawdataStale <=> /\ ~Unverifiable
                         /\ \E r \in Completed : Md5Status(r) # "untagged"
                         /\ \A r \in Completed : Md5Status(r) # "match"
    BY <2>1 DEF RawdataStale, RowTags, Md5Status, Unverifiable, Server, Blank
  <2>3. AnalyzerStale <=> /\ \E r \in Completed : AnalyzerStatus(r) # "untagged"
                          /\ \A r \in Completed : AnalyzerStatus(r) # "match"
    BY <2>1 DEF AnalyzerStale, RowVersions, AnalyzerStatus, IInv, TypesOk
  <2>4. ASSUME NEW r \in Completed, NEW pair \in Tags \ {Blank}, entries[r] # {}, "early" \notin rep[r].fault
        PROVE  ListedUnder(r, pair) <=> summary[r].tag \in {Blank, pair}
    <3>1. \A e \in entries[r] : e.tag = summary[r].tag
      BY <2>4 DEF IInv, RepInv, EntryOk, Completed
    <3> QED BY <2>4, <3>1 DEF ListedUnder
  <2> QED BY <2>2, <2>3, <2>4 DEF ReadersAgree
<1> QED BY <1>1, ReportsSound, PTL

-----------------------------------------------------------------------------
(* How many files the index counts, and what the fast path makes of it.    *)
CountTells == idx = Scan(chunks) \/ idx.n # Cardinality(Files)

LEMMA ScanCounts ==
    ASSUME TypesOk
    PROVE  Scan(chunks).n = Cardinality(Files)
BY DEF Scan, NoIdx, Files, TypesOk

LEMMA NewIndexIsFree ==
    ASSUME Files # {}
    PROVE  Max(Files) \in Nat /\ \A i \in Files : i <= Max(Files)
<1> DEFINE S == {n \in Nat : \A i \in Files : i <= n}
<1>1. Files \subseteq Nat /\ \A i \in Files : i <= MaxChunk
  BY FilesAreFinite, ProvenanceAssumption DEF Files, Idx
<1>2. MaxChunk \in S /\ S \in SUBSET Nat
  BY <1>1, ProvenanceAssumption
<1> HIDE DEF S
<1>3. PICK n \in S : \A k \in S : n <= k
  BY <1>2, LeastNatural
<1>4. n \in Nat /\ \A i \in Files : i <= n
  BY <1>3 DEF S
<1>5. n \in Files
  <2> SUFFICES ASSUME n \notin Files PROVE FALSE
    OBVIOUS
  <2>1. \A i \in Files : i < n
    BY <1>1, <1>4
  <2>2. PICK f \in Files : f \in Nat /\ f < n
    BY <1>1, <2>1
  <2>3. n - 1 \in Nat
    BY <1>4, <2>2
  <2>4. \A i \in Files : i <= n - 1
    BY <1>1, <1>4, <2>1
  <2>5. n - 1 \in S
    BY <2>3, <2>4 DEF S
  <2> QED BY <1>3, <1>4, <2>5
<1>6. \E x \in Files : \A y \in Files : x >= y
  BY <1>1, <1>4, <1>5
<1>7. Max(Files) \in Files /\ \A y \in Files : Max(Files) >= y
  BY <1>6 DEF Max
<1> QED BY <1>1, <1>7

(* A step that changes the files changes how many they are.                *)
LEMMA FewerFiles ==
    ASSUME TypesOk, NEW gone, chunks' = [i \in Idx |-> IF i \in gone THEN Absent ELSE chunks[i]]
    PROVE  chunks' = chunks \/ Cardinality(Files') # Cardinality(Files)
<1>1. Files' = Files \ gone
  BY DEF Files
<1>2. CASE Files \ gone = Files
  <2>1. \A i \in Idx : i \in gone => chunks[i] = Absent
    BY <1>2 DEF Files
  <2> QED BY <2>1 DEF TypesOk
<1>3. CASE Files \ gone # Files
  BY <1>1, <1>3, FilesAreFinite, FS_Subset
<1> QED BY <1>2, <1>3

LEMMA FilesChange ==
    ASSUME IInv,
           \/ CleanupUnlink
           \/ \E pair \in Tags : DeleteVersion(pair)
           \/ \E r \in Reports : WriteChunk(r)
    PROVE  /\ chunks' = chunks \/ Cardinality(Files') # Cardinality(Files)
           /\ \/ idx' = Scan(chunks') /\ budget' = budget
              \/ idx' = idx /\ Spend("trouble")
<1>1. CASE CleanupUnlink
  BY <1>1, FewerFiles DEF CleanupUnlink, ChangeFiles, IInv
<1>2. ASSUME NEW pair \in Tags, DeleteVersion(pair)
      PROVE  /\ chunks' = chunks \/ Cardinality(Files') # Cardinality(Files)
             /\ \/ idx' = Scan(chunks') /\ budget' = budget
                \/ idx' = idx /\ Spend("trouble")
  <2>1. chunks' = [i \in Idx |-> IF i \in {j \in Idx : chunks[j] = pair} THEN Absent ELSE chunks[i]]
    BY <1>2 DEF DeleteVersion, ChangeFiles
  <2> QED BY <1>2, <2>1, FewerFiles DEF DeleteVersion, ChangeFiles, IInv
<1>3. ASSUME NEW r \in Reports, WriteChunk(r)
      PROVE  /\ chunks' = chunks \/ Cardinality(Files') # Cardinality(Files)
             /\ \/ idx' = Scan(chunks') /\ budget' = budget
                \/ idx' = idx /\ Spend("trouble")
  <2> DEFINE next == IF Files = {} THEN 1 ELSE Max(Files) + 1
  <2>1. next \in Idx /\ chunks' = [chunks EXCEPT ![next] = rep[r].stamp] /\ rep[r].stamp # Absent
    BY <1>3 DEF WriteChunk, ChangeFiles, IInv, RepInv, PlaceOk
  <2>2. next \notin Files
    BY NewIndexIsFree
  <2> HIDE DEF next
  <2>3. Files' = Files \cup {next}
    BY <2>1 DEF Files, IInv, TypesOk
  <2>4. Cardinality(Files') = Cardinality(Files) + 1
    BY <2>2, <2>3, FilesAreFinite, FS_AddElement
  <2>5. Cardinality(Files) \in Nat
    BY FilesAreFinite, FS_CardinalityType
  <2> QED BY <1>3, <2>4, <2>5 DEF WriteChunk, ChangeFiles
<1> QED BY <1>1, <1>2, <1>3

LEMMA DiskStep ==
    ASSUME IInv, [Next]_vars
    PROVE  \/ UNCHANGED disk
           \/ chunks' = chunks /\ idx' = Scan(chunks)
           \/ CleanupUnlink
           \/ \E pair \in Tags : DeleteVersion(pair)
           \/ \E r \in Reports : WriteChunk(r)
<1>1. ASSUME NEW r \in Reports,
             \/ \E kind \in {"default", "filtered", "batch"}, pair \in Tags : Pick(r, kind, pair)
             \/ \E withLocal \in BOOLEAN : StartSampling(r, withLocal)
             \/ Lock(r) \/ Scope(r) \/ Engine(r) \/ Patch(r) \/ Stamp(r) \/ Complete(r)
             \/ Publish(r) \/ GenerateFails(r)
             \/ Analyse(r) \/ IndexSample(r) \/ PatchRow(r)
             \/ FinishSample(r) \/ SampleFails(r)
      PROVE  UNCHANGED disk
  BY <1>1 DEF Pick, StartSampling, Lock, Scope, Engine, Patch, Stamp, Complete, Publish, GenerateFails,
              Analyse, IndexSample, PatchRow, FinishSample, SampleFails
<1>2. CASE Refresh \/ ToggleLocal \/ CleanupList \/ Reconcile \/ \E new \in 1 .. MaxCode : Restart(new)
  BY <1>2 DEF Refresh, ToggleLocal, CleanupList, Reconcile, Restart
<1>3. CASE ReadStatus
  BY <1>3 DEF ReadStatus
<1>4. CASE UNCHANGED vars
  BY <1>4 DEF vars, disk
<1> QED BY <1>1, <1>2, <1>3, <1>4 DEF Next

(* The reader of the index is right while it counts the files or shows     *)
(* that it does not.                                                       *)
LEMMA CountSuffices ==
    ASSUME TypesOk, CountTells
    PROVE  FixableCanBeRegenerated
<1>1. IsFiniteSet(CurrentFiles) /\ (Cardinality(CurrentFiles) = 0 <=> CurrentFiles = {})
  BY FilesAreFinite, FS_Subset, FS_EmptySet DEF CurrentFiles
<1>2. Cardinality(Files) = 0 <=> Files = {}
  BY FilesAreFinite, FS_EmptySet
<1>3. Cardinality(Files) \in Nat /\ Cardinality(CurrentFiles) \in Nat
  BY <1>1, FilesAreFinite, FS_CardinalityType
<1>4. Selection("default", Blank) = CurrentFiles
  BY DEF Selection
<1>5. CASE ~IndexUsable
  BY <1>1, <1>3, <1>4, <1>5 DEF FixableCanBeRegenerated, Fixable, NeedsRawdata, UsableChunks
<1>6. CASE IndexUsable
  <2>1. idx = Scan(chunks) /\ idx.n = Cardinality(Files)
    BY <1>6 DEF IndexUsable, CountTells
  <2>2. CASE idx.n = 0
    BY <1>2, <1>3, <1>4, <1>6, <2>1, <2>2
       DEF FixableCanBeRegenerated, Fixable, NeedsRawdata, UsableChunks, CurrentFiles
  <2>3. CASE idx.n # 0
    <3>1. Files # {}
      BY <1>2, <2>1, <2>3
    <3>2. CurrentFiles # {}
      <4>1. CASE Unverifiable
        BY <3>1, <4>1 DEF CurrentFiles, Current
      <4>2. CASE ~Unverifiable
        <5> DEFINE tagged == {i \in DOMAIN chunks : chunks[i] \notin {Absent, Blank}}
        <5>1. idx.tag # Blank /\ idx.tag = Server(roster)
          BY <1>6, <2>3, <4>2 DEF IndexUsable
        <5>2. tagged # {} /\ idx.tag = chunks[Min(tagged)]
          BY <2>1, <2>3, <5>1 DEF Scan, NoIdx
        <5>3. tagged \subseteq Files /\ tagged \in SUBSET Nat
          BY FilesAreFinite DEF Files, TypesOk
        <5>4. Min(tagged) \in Files
          BY <5>2, <5>3, MinIsElement
        <5>5. Current(chunks[Min(tagged)])
          BY <5>1, <5>2 DEF Current, CurrentPairs
        <5> QED BY <5>4, <5>5 DEF CurrentFiles
      <4> QED BY <4>1, <4>2
    <3> QED BY <1>4, <1>6, <2>3, <3>2 DEF FixableCanBeRegenerated, NeedsRawdata, UsableChunks
  <2> QED BY <2>2, <2>3
<1> QED BY <1>5, <1>6

OneLostUpdateShows == [][idx = Scan(chunks) => CountTells']_vars

(* One lost update leaves an index that shows by its count that it is old. *)
THEOREM LostUpdateShows == Spec => OneLostUpdateShows
<1>1. ASSUME IInv, [Next]_vars, idx = Scan(chunks) PROVE CountTells'
  <2>1. CASE UNCHANGED disk
    BY <1>1, <2>1 DEF CountTells, disk, Scan
  <2>2. CASE chunks' = chunks /\ idx' = Scan(chunks)
    BY <2>2 DEF CountTells, Scan
  <2>3. CASE \/ CleanupUnlink
             \/ \E pair \in Tags : DeleteVersion(pair)
             \/ \E r \in Reports : WriteChunk(r)
    <3>1. idx.n = Cardinality(Files)
      BY <1>1, ScanCounts DEF IInv
    <3> QED BY <1>1, <2>3, <3>1, FilesChange DEF CountTells, Scan, NoIdx
  <2> QED BY <1>1, <2>1, <2>2, <2>3, DiskStep
<1> QED BY <1>1, ReportsSound, PTL DEF OneLostUpdateShows, Spec

(* While the index is at most one update behind, a cell the banner offers  *)
(* to regenerate can be regenerated and one it sends to sampling cannot.   *)
THEOREM BannerRight == Spec => [](CountTells => FixableCanBeRegenerated)
<1>1. IInv => (CountTells => FixableCanBeRegenerated)
  BY CountSuffices DEF IInv
<1> QED BY <1>1, ReportsSound, PTL

(* With one trouble to spend, the second lost update cannot come.          *)
SpentOk ==
    /\ DOMAIN budget = {"trouble", "chores"}
    /\ budget["trouble"] \in Nat /\ budget["trouble"] <= MaxTrouble
    /\ idx # Scan(chunks) => budget["trouble"] < MaxTrouble

LEMMA BudgetStep ==
    ASSUME [Next]_vars
    PROVE  UNCHANGED budget \/ Spend("trouble") \/ Spend("chores")
<1>1. ASSUME NEW r \in Reports,
             \/ \E kind \in {"default", "filtered", "batch"}, pair \in Tags : Pick(r, kind, pair)
             \/ \E withLocal \in BOOLEAN : StartSampling(r, withLocal)
             \/ Lock(r) \/ Scope(r) \/ Engine(r) \/ Patch(r) \/ Stamp(r) \/ Complete(r)
             \/ Publish(r) \/ GenerateFails(r)
             \/ WriteChunk(r) \/ Analyse(r) \/ IndexSample(r) \/ PatchRow(r)
             \/ FinishSample(r) \/ SampleFails(r)
      PROVE  UNCHANGED budget \/ Spend("trouble") \/ Spend("chores")
  BY <1>1 DEF Pick, StartSampling, Lock, Scope, Engine, Patch, Stamp, Complete, Publish, GenerateFails,
              WriteChunk, Analyse, IndexSample, PatchRow, FinishSample, SampleFails, ChangeFiles
<1>2. CASE \/ Refresh \/ ToggleLocal \/ CleanupList \/ CleanupUnlink \/ ReadStatus \/ Reconcile
           \/ \E pair \in Tags : DeleteVersion(pair)
           \/ \E new \in 1 .. MaxCode : Restart(new)
  BY <1>2 DEF Refresh, ToggleLocal, CleanupList, CleanupUnlink, ReadStatus, Reconcile, DeleteVersion,
              Restart, ChangeFiles
<1>3. CASE UNCHANGED vars
  BY <1>3 DEF vars
<1> QED BY <1>1, <1>2, <1>3 DEF Next

LEMMA SpentStep ==
    ASSUME IInv, SpentOk, CountTells, [Next]_vars, MaxTrouble <= 1
    PROVE  SpentOk' /\ CountTells'
<1>1. /\ DOMAIN budget' = {"trouble", "chores"} /\ budget'["trouble"] \in Nat
      /\ budget'["trouble"] <= budget["trouble"]
      /\ Spend("trouble") => budget["trouble"] > 0 /\ budget'["trouble"] < budget["trouble"]
  <2>1. CASE UNCHANGED budget
    BY <2>1 DEF SpentOk, Spend
  <2>2. CASE Spend("trouble")
    BY <2>2 DEF SpentOk, Spend
  <2>3. CASE Spend("chores") /\ ~Spend("trouble")
    BY <2>3 DEF SpentOk, Spend
  <2> QED BY <2>1, <2>2, <2>3, BudgetStep
<1>2. CASE UNCHANGED disk
  BY <1>1, <1>2, ProvenanceAssumption DEF SpentOk, CountTells, disk, Scan, Files
<1>3. CASE chunks' = chunks /\ idx' = Scan(chunks)
  BY <1>1, <1>3, ProvenanceAssumption DEF SpentOk, CountTells, Scan
<1>4. CASE \/ CleanupUnlink
           \/ \E pair \in Tags : DeleteVersion(pair)
           \/ \E r \in Reports : WriteChunk(r)
  <2>1. CASE idx' = Scan(chunks')
    <3>1. Scan(chunks)' = Scan(chunks')
      BY DEF Scan
    <3> QED BY <1>1, <2>1, <3>1, ProvenanceAssumption DEF SpentOk, CountTells
  <2>2. CASE idx' = idx /\ Spend("trouble")
    <3>1. budget["trouble"] = 1 /\ MaxTrouble = 1
      BY <1>1, <2>2, ProvenanceAssumption DEF SpentOk
    <3>2. idx = Scan(chunks) /\ idx.n = Cardinality(Files)
      BY <3>1, ScanCounts DEF SpentOk, IInv
    <3>3. CASE chunks' = chunks
      BY <1>1, <2>2, <3>1, <3>2, <3>3 DEF SpentOk, CountTells, Scan
    <3>4. CASE Cardinality(Files') # Cardinality(Files)
      BY <1>1, <2>2, <3>1, <3>2, <3>4 DEF SpentOk, CountTells
    <3> QED BY <1>4, <3>3, <3>4, FilesChange
  <2> QED BY <1>4, <2>1, <2>2, FilesChange
<1> QED BY <1>2, <1>3, <1>4, DiskStep

(* The banner is right in every state when one trouble may come.           *)
THEOREM OneTroubleIsHarmless ==
    ASSUME MaxTrouble <= 1
    PROVE  Spec => []FixableCanBeRegenerated
<1>1. Init => SpentOk /\ CountTells
  BY ProvenanceAssumption DEF Init, SpentOk, CountTells
<1>2. IInv /\ SpentOk /\ CountTells /\ [Next]_vars => (SpentOk /\ CountTells)'
  BY SpentStep
<1>3. IInv /\ CountTells => FixableCanBeRegenerated
  BY CountSuffices DEF IInv
<1>4. Spec => [](SpentOk /\ CountTells)
  BY <1>1, <1>2, ReportsSound, PTL DEF Spec
<1> QED BY <1>3, <1>4, ReportsSound, PTL
=============================================================================
