---------------------------- MODULE RegistryProofs ----------------------------
(***************************************************************************)
(* Proofs about Registry for any number of commands and versions.          *)
(***************************************************************************)
EXTENDS Registry, TLAPS

\* Each of the three changes turns an index into an index.
LEMMA ChangedTyped ==
    ASSUME NEW o \in Ops, NEW i \in Index, NEW v \in Versions
    PROVE  Changed(o, i, v) \in Index
<1>1. CASE o = "register"
  BY <1>1 DEF Changed, Index, Statuses
<1>2. CASE o = "promote"
  <2>1. Changed(o, i, v) = Promoted(i, v)
    BY <1>2 DEF Changed
  <2>2. \A w \in Versions : i[w] \in Statuses \cup {"absent"}
    BY DEF Index
  <2> QED
    BY <2>1, <2>2 DEF Promoted, Index, Statuses
<1>3. CASE o \in {"remove", "purge"}
  BY <1>3 DEF Changed, Index, Statuses
<1> QED
  BY <1>1, <1>2, <1>3 DEF Ops

\* None of them puts a second version into production.
LEMMA ChangedKeepsOne ==
    ASSUME NEW o \in Ops, NEW i \in Index, NEW v \in Versions, OneProduction(i)
    PROVE  OneProduction(Changed(o, i, v))
<1>1. CASE o = "register"
  BY <1>1 DEF Changed, Index, OneProduction, InProduction
<1>2. CASE o = "promote"
  <2>1. Changed(o, i, v) = Promoted(i, v)
    BY <1>2 DEF Changed
  <2>2. \A w \in Versions : InProduction(Promoted(i, v), w) => w = v
    BY DEF Promoted, InProduction
  <2> QED
    BY <2>1, <2>2 DEF OneProduction
<1>3. CASE o \in {"remove", "purge"}
  BY <1>3 DEF Changed, Index, OneProduction, InProduction
<1> QED
  BY <1>1, <1>2, <1>3 DEF Ops

\* A truncated file names nothing.
LEMMA EmptyIndex == Empty \in Index /\ OneProduction(Empty)
  BY DEF Empty, Index, Statuses, OneProduction, InProduction

-------------------------------------------------------------------------------
LEMMA NextTypeOK == TypeOK /\ [Next]_vars => TypeOK'
<1> SUFFICES ASSUME TypeOK, [Next]_vars PROVE TypeOK'
  OBVIOUS
<1> USE RegistryTyped DEF TypeOK, history, Running
<1>1. ASSUME NEW p \in Commands, LoadIndex(p) PROVE TypeOK'
  <2>1. Changed(op[p], index, version[p]) \in Index
    BY ChangedTyped
  <2> QED
    BY <1>1, <2>1 DEF LoadIndex, FilesAfterLoad, Alone
<1>2. ASSUME NEW p \in Commands, Refuse(p) PROVE TypeOK'
  BY <1>2 DEF Refuse
<1>3. ASSUME NEW p \in Commands, OpenIndex(p) PROVE TypeOK'
  BY <1>3, EmptyIndex DEF OpenIndex
<1>4. ASSUME NEW p \in Commands, WriteIndex(p) PROVE TypeOK'
  <2>1. index' \in Index
    BY <1>4, EmptyIndex DEF WriteIndex
  <2> QED
    BY <1>4, <2>1 DEF WriteIndex
<1>5. ASSUME NEW p \in Commands, RemoveTree(p) PROVE TypeOK'
  BY <1>5 DEF RemoveTree
<1>6. ASSUME NEW p \in Commands, Crash(p) PROVE TypeOK'
  BY <1>6 DEF Crash
<1>7. CASE UNCHANGED vars
  BY <1>7 DEF vars
<1> QED
  BY <1>1, <1>2, <1>3, <1>4, <1>5, <1>6, <1>7 DEF Next, Command

\* Type correctness of the registry file and its commands.
THEOREM RegistryTypeOK == Spec => []TypeOK
<1>1. ASSUME Init PROVE TypeOK
  <2>1. copy \in [Commands -> Index]
    BY <1>1, EmptyIndex DEF Init
  <2>2. pc \in [Commands -> {"start", "done", "refused", "crashed"} \cup Running]
    BY <1>1 DEF Init
  <2> QED
    BY <1>1, <2>1, <2>2 DEF Init, TypeOK
<1> QED
  BY <1>1, NextTypeOK, PTL DEF Spec

-------------------------------------------------------------------------------
(***************************************************************************)
(* The strengthening: what a command is about to write names at most one   *)
(* production version too, even if the index has changed since it loaded.  *)
(***************************************************************************)
CopiesInv == \A p \in Commands : pc[p] \in {"save", "writing"} => OneProduction(copy[p])

LEMMA NextOneProduction ==
    TypeOK /\ AtMostOneProduction /\ CopiesInv /\ [Next]_vars
        => AtMostOneProduction' /\ CopiesInv'
<1> SUFFICES ASSUME TypeOK, AtMostOneProduction, CopiesInv, [Next]_vars
             PROVE  AtMostOneProduction' /\ CopiesInv'
  OBVIOUS
<1>0. AtMostOneProduction' <=> OneProduction(index')
  BY DEF AtMostOneProduction, OneProduction
<1>1. ASSUME NEW p \in Commands, LoadIndex(p) PROVE AtMostOneProduction' /\ CopiesInv'
  <2>1. OneProduction(Changed(op[p], index, version[p]))
    BY ChangedKeepsOne DEF TypeOK, AtMostOneProduction
  <2>2. \A q \in Commands : pc'[q] \in {"save", "writing"} =>
            \/ q = p /\ copy'[q] = Changed(op[p], index, version[p])
            \/ pc[q] \in {"save", "writing"} /\ copy'[q] = copy[q]
    BY <1>1 DEF LoadIndex, TypeOK
  <2>3. CopiesInv'
    BY <2>1, <2>2 DEF CopiesInv, OneProduction
  <2> QED
    BY <1>0, <1>1, <2>3 DEF LoadIndex, AtMostOneProduction
<1>2. ASSUME NEW p \in Commands, Refuse(p) \/ RemoveTree(p) \/ Crash(p)
      PROVE  AtMostOneProduction' /\ CopiesInv'
  <2>1. UNCHANGED <<index, copy>>
    BY <1>2 DEF Refuse, RemoveTree, Crash
  <2>2. \A q \in Commands : pc'[q] \in {"save", "writing"} => pc[q] \in {"save", "writing"}
    BY <1>2 DEF Refuse, RemoveTree, Crash, TypeOK
  <2> QED
    BY <1>0, <2>1, <2>2 DEF AtMostOneProduction, CopiesInv, OneProduction
<1>3. ASSUME NEW p \in Commands, OpenIndex(p) PROVE AtMostOneProduction' /\ CopiesInv'
  <2>1. \A q \in Commands : pc'[q] \in {"save", "writing"} => pc[q] \in {"save", "writing"}
    BY <1>3 DEF OpenIndex, TypeOK
  <2>2. CopiesInv'
    BY <1>3, <2>1 DEF OpenIndex, CopiesInv, OneProduction
  <2> QED
    BY <1>0, <1>3, <2>2, EmptyIndex DEF OpenIndex
<1>4. ASSUME NEW p \in Commands, WriteIndex(p) PROVE AtMostOneProduction' /\ CopiesInv'
  <2>1. index' = copy[p] \/ index' = Empty
    BY <1>4 DEF WriteIndex
  <2>2. OneProduction(copy[p])
    BY <1>4 DEF WriteIndex, CopiesInv
  <2>3. \A q \in Commands : pc'[q] \in {"save", "writing"} => pc[q] \in {"save", "writing"}
    BY <1>4 DEF WriteIndex, TypeOK
  <2>4. CopiesInv'
    BY <1>4, <2>3 DEF WriteIndex, CopiesInv, OneProduction
  <2> QED
    BY <1>0, <2>1, <2>2, <2>4, EmptyIndex
<1>5. CASE UNCHANGED vars
  BY <1>5 DEF vars, AtMostOneProduction, CopiesInv, OneProduction, InProduction
<1> QED
  BY <1>1, <1>2, <1>3, <1>4, <1>5 DEF Next, Command

\* Any number of unlocked read-modify-write commands, crashes and torn writes
\* included, never leaves two versions in production.
THEOREM OneProductionVersion == Spec => []AtMostOneProduction
<1>1. Init => AtMostOneProduction /\ CopiesInv
  BY DEF Init, AtMostOneProduction, CopiesInv
<1> QED
  BY <1>1, RegistryTypeOK, NextOneProduction, PTL DEF Spec

-------------------------------------------------------------------------------
(***************************************************************************)
(* While no two commands have overlapped, at most one is between its load  *)
(* and its end, and no open file has been written by another.              *)
(***************************************************************************)
Solo ==
    ~overlapped =>
        /\ \A p, q \in Commands : pc[p] \in Running /\ pc[q] \in Running => p = q
        /\ over = {}

LEMMA NextSolo == TypeOK /\ Solo /\ [Next]_vars => Solo'
<1> SUFFICES ASSUME TypeOK, Solo, [Next]_vars, ~overlapped'
             PROVE  /\ \A p, q \in Commands : pc'[p] \in Running /\ pc'[q] \in Running => p = q
                    /\ over' = {}
  BY DEF Solo
<1> USE DEF Running, history, TypeOK
<1>1. ASSUME NEW p \in Commands, LoadIndex(p)
      PROVE  /\ \A q, r \in Commands : pc'[q] \in Running /\ pc'[r] \in Running => q = r
             /\ over' = {}
  <2>1. ~overlapped /\ Alone(p)
    BY <1>1 DEF LoadIndex
  <2>2. \A q \in Commands \ {p} : pc'[q] \notin Running
    BY <1>1, <2>1 DEF LoadIndex, Alone
  <2> QED
    BY <1>1, <2>1, <2>2 DEF LoadIndex, Solo
<1>2. ASSUME NEW p \in Commands, Refuse(p) \/ OpenIndex(p) \/ RemoveTree(p) \/ Crash(p)
      PROVE  /\ \A q, r \in Commands : pc'[q] \in Running /\ pc'[r] \in Running => q = r
             /\ over' = {}
  <2>1. ~overlapped /\ over' = {}
    BY <1>2 DEF Refuse, OpenIndex, RemoveTree, Crash, Solo
  <2>2. \A q \in Commands : pc'[q] \in Running => pc[q] \in Running
    BY <1>2 DEF Refuse, OpenIndex, RemoveTree, Crash
  <2> QED
    BY <2>1, <2>2 DEF Solo
<1>3. ASSUME NEW p \in Commands, WriteIndex(p)
      PROVE  /\ \A q, r \in Commands : pc'[q] \in Running /\ pc'[r] \in Running => q = r
             /\ over' = {}
  <2>1. ~overlapped /\ \A q \in Commands \ {p} : pc[q] \notin Running
    BY <1>3 DEF WriteIndex, Solo
  <2>2. \A q \in Commands : pc'[q] \in Running => pc[q] \in Running
    BY <1>3 DEF WriteIndex
  <2> QED
    BY <1>3, <2>1, <2>2 DEF WriteIndex, Solo
<1>4. CASE UNCHANGED vars
  BY <1>4 DEF vars, Solo
<1> QED
  BY <1>1, <1>2, <1>3, <1>4 DEF Next, Command

-------------------------------------------------------------------------------
(***************************************************************************)
(* Without an overlap, what a command is about to write names only         *)
(* versions with files, and a purge is past its save when it deletes them. *)
(***************************************************************************)
Backed(i) == \A v \in Versions : i[v] # "absent" => v \in artifacts

FilesInv ==
    ~overlapped => \A p \in Commands :
        /\ pc[p] \in {"save", "writing"} =>
              /\ Backed(copy[p])
              /\ op[p] = "purge" => copy[p][version[p]] = "absent"
        /\ pc[p] = "rmtree" => index[version[p]] = "absent"

\* A change names no version the index did not name, except the registered
\* one, whose files were checked; a removal takes its version out.
LEMMA ChangedBacked ==
    ASSUME TypeOK, NEW o \in Ops, NEW v \in Versions, Backed(index), Accepted(o, index, v)
    PROVE  /\ Backed(Changed(o, index, v))
           /\ o = "purge" => Changed(o, index, v)[v] = "absent"
<1> USE DEF TypeOK, Index, Backed, Accepted, Changed
<1>1. CASE o = "register"
  BY <1>1
<1>2. CASE o = "promote"
  <2>1. Changed(o, index, v) = Promoted(index, v)
    BY <1>2
  <2>2. \A w \in Versions : Promoted(index, v)[w] # "absent" => index[w] # "absent"
    BY <1>2 DEF Promoted, InProduction
  <2> QED
    BY <1>2, <2>1, <2>2
<1>3. CASE o \in {"remove", "purge"}
  BY <1>3
<1> QED
  BY <1>1, <1>2, <1>3 DEF Ops

LEMMA NextFiles ==
    TypeOK /\ Solo /\ FilesInv /\ IndexedVersionsExist /\ [Next]_vars
        => FilesInv' /\ IndexedVersionsExist'
<1> SUFFICES ASSUME TypeOK, Solo, FilesInv, IndexedVersionsExist, [Next]_vars, ~overlapped'
             PROVE  FilesInv' /\ IndexedVersionsExist'
  BY DEF FilesInv, IndexedVersionsExist
<1> USE DEF Running, history, Backed
<1>1. ASSUME NEW p \in Commands, LoadIndex(p) PROVE FilesInv' /\ IndexedVersionsExist'
  <2>1. ~overlapped /\ Alone(p) /\ Accepted(op[p], index, version[p])
    BY <1>1 DEF LoadIndex, TypeOK
  <2>2. Backed(index)
    BY <2>1 DEF IndexedVersionsExist
  <2>3. /\ Backed(Changed(op[p], index, version[p]))
        /\ op[p] = "purge" => Changed(op[p], index, version[p])[version[p]] = "absent"
    BY <2>1, <2>2, ChangedBacked DEF TypeOK
  <2>4. \A q \in Commands : pc'[q] \in Running => q = p
    BY <1>1, <2>1 DEF LoadIndex, Alone, TypeOK
  <2>5. UNCHANGED <<op, version, index, artifacts>>
        /\ pc'[p] = "save" /\ copy'[p] = Changed(op[p], index, version[p])
    BY <1>1 DEF LoadIndex, FilesAfterLoad, TypeOK
  <2>6. FilesInv'
    BY <2>3, <2>4, <2>5 DEF FilesInv
  <2> QED
    BY <2>1, <2>5, <2>6 DEF IndexedVersionsExist
<1>2. ASSUME NEW p \in Commands, Refuse(p) \/ Crash(p)
      PROVE  FilesInv' /\ IndexedVersionsExist'
  <2>1. UNCHANGED <<op, version, copy, index, artifacts, overlapped>>
    BY <1>2 DEF Refuse, Crash
  <2>2. \A q \in Commands : pc'[q] \in Running => pc'[q] = pc[q]
    BY <1>2 DEF Refuse, Crash, TypeOK
  <2> QED
    BY <2>1, <2>2 DEF FilesInv, IndexedVersionsExist
<1>3. ASSUME NEW p \in Commands, OpenIndex(p) PROVE FilesInv' /\ IndexedVersionsExist'
  <2>1. UNCHANGED <<op, version, copy, artifacts, overlapped>> /\ index' = Empty
    BY <1>3 DEF OpenIndex
  <2>2. \A q \in Commands : pc'[q] \in Running =>
            pc'[q] = pc[q] \/ (pc[q] = "save" /\ pc'[q] = "writing")
    BY <1>3 DEF OpenIndex, TypeOK
  <2>3. \A v \in Versions : index'[v] = "absent"
    BY <2>1 DEF Empty
  <2>4. version \in [Commands -> Versions]
    BY DEF TypeOK
  <2> QED
    BY <2>1, <2>2, <2>3, <2>4 DEF FilesInv, IndexedVersionsExist
<1>4. ASSUME NEW p \in Commands, WriteIndex(p) PROVE FilesInv' /\ IndexedVersionsExist'
  <2>1. UNCHANGED <<op, version, copy, artifacts, overlapped>> /\ ~overlapped
        /\ pc[p] = "writing"
    BY <1>4 DEF WriteIndex
  <2>2. index' = copy[p]
    BY <1>4, <2>1 DEF WriteIndex, Solo
  <2>3. Backed(copy[p]) /\ (op[p] = "purge" => copy[p][version[p]] = "absent")
    BY <2>1 DEF FilesInv
  <2>4. \A q \in Commands : pc'[q] \in Running =>
            q = p /\ pc'[q] = "rmtree" /\ op[q] = "purge"
    BY <1>4, <2>1 DEF WriteIndex, Solo, TypeOK
  <2> QED
    BY <2>1, <2>2, <2>3, <2>4 DEF FilesInv, IndexedVersionsExist
<1>5. ASSUME NEW p \in Commands, RemoveTree(p) PROVE FilesInv' /\ IndexedVersionsExist'
  <2>1. UNCHANGED <<index, overlapped>> /\ ~overlapped /\ pc[p] = "rmtree"
        /\ artifacts' = artifacts \ {version[p]}
    BY <1>5 DEF RemoveTree
  <2>2. index[version[p]] = "absent"
    BY <2>1 DEF FilesInv
  <2>3. \A q \in Commands : pc'[q] \notin Running
    BY <1>5, <2>1 DEF RemoveTree, Solo, TypeOK
  <2> QED
    BY <2>1, <2>2, <2>3 DEF FilesInv, IndexedVersionsExist
<1>6. CASE UNCHANGED vars
  BY <1>6 DEF vars, FilesInv, IndexedVersionsExist
<1> QED
  BY <1>1, <1>2, <1>3, <1>4, <1>5, <1>6 DEF Next, Command

\* As long as commands run one after the other, each version the index names
\* has its files, whichever commands died and at whatever step.
THEOREM ListedVersionsHaveFiles == Spec => []IndexedVersionsExist
<1>1. ASSUME Init PROVE Solo /\ FilesInv /\ IndexedVersionsExist
  <2>1. \A p \in Commands : pc[p] \notin Running
    BY <1>1 DEF Init, Running
  <2> QED
    BY <1>1, <2>1 DEF Init, Solo, FilesInv, IndexedVersionsExist, Running
<1> QED
  BY <1>1, RegistryTypeOK, NextSolo, NextFiles, PTL DEF Spec

-------------------------------------------------------------------------------
(***************************************************************************)
(* Without an overlap or a torn save, a command that is about to write     *)
(* keeps the promoted version in production, or is a promotion itself.     *)
(***************************************************************************)
Kept(p) ==
    IF op[p] = "promote" THEN InProduction(copy[p], version[p])
    ELSE \A v \in Versions : promoted = v => InProduction(copy[p], v)

PromotionInv ==
    (~overlapped /\ ~halfWritten) =>
        \A p \in Commands : pc[p] \in {"save", "writing"} => Kept(p)

LEMMA ChangedKeepsPromoted ==
    ASSUME TypeOK, NEW o \in Ops, NEW v \in Versions, Accepted(o, index, v)
    PROVE  IF o = "promote" THEN InProduction(Changed(o, index, v), v)
           ELSE \A w \in Versions : InProduction(index, w) => InProduction(Changed(o, index, v), w)
<1> USE DEF TypeOK, Index, Accepted, Changed, InProduction
<1>1. CASE o = "promote"
  BY <1>1 DEF Promoted
<1>2. CASE o = "register"
  BY <1>2
<1>3. CASE o \in {"remove", "purge"}
  BY <1>3
<1> QED
  BY <1>1, <1>2, <1>3 DEF Ops

LEMMA NextPromotion ==
    TypeOK /\ Solo /\ PromotionInv /\ PromotionSticks /\ [Next]_vars
        => PromotionInv' /\ PromotionSticks'
<1> SUFFICES ASSUME TypeOK, Solo, PromotionInv, PromotionSticks, [Next]_vars,
                    ~overlapped', ~halfWritten'
             PROVE  PromotionInv' /\ PromotionSticks'
  BY DEF PromotionInv, PromotionSticks
<1> USE DEF Running, history
<1>1. ASSUME NEW p \in Commands, LoadIndex(p) PROVE PromotionInv' /\ PromotionSticks'
  <2>1. ~overlapped /\ ~halfWritten /\ Alone(p) /\ Accepted(op[p], index, version[p])
    BY <1>1 DEF LoadIndex, TypeOK
  <2>2. \A q \in Commands : pc'[q] \in Running => q = p
    BY <1>1, <2>1 DEF LoadIndex, Alone, TypeOK
  <2>3. UNCHANGED <<op, version, index, promoted>>
        /\ pc'[p] = "save" /\ copy'[p] = Changed(op[p], index, version[p])
    BY <1>1 DEF LoadIndex, TypeOK
  <2>4. \A q \in Commands : pc[q] # "writing"
    BY <1>1, <2>1 DEF LoadIndex, Alone
  <2>5. \A v \in Versions : promoted = v => InProduction(index, v)
    BY <2>1, <2>4 DEF PromotionSticks
  <2>6. Kept(p)'
    <3>1. op[p] \in Ops /\ version[p] \in Versions
      BY DEF TypeOK
    <3>2. IF op[p] = "promote" THEN InProduction(copy'[p], version[p])
          ELSE \A w \in Versions : InProduction(index, w) => InProduction(copy'[p], w)
      BY <2>1, <2>3, <3>1, ChangedKeepsPromoted
    <3> QED
      BY <2>3, <2>5, <3>2 DEF Kept, InProduction
  <2>7. PromotionInv'
    BY <2>2, <2>6 DEF PromotionInv
  <2> QED
    BY <2>3, <2>5, <2>7 DEF PromotionSticks, InProduction
<1>2. ASSUME NEW p \in Commands, Refuse(p) \/ Crash(p) \/ RemoveTree(p)
      PROVE  PromotionInv' /\ PromotionSticks'
  <2>1. UNCHANGED <<op, version, copy, index, promoted, overlapped>>
        /\ ~halfWritten /\ pc[p] # "writing"
    BY <1>2 DEF Refuse, Crash, RemoveTree, TypeOK
  <2>2. \A q \in Commands : pc'[q] \in {"save", "writing"} => pc'[q] = pc[q]
    BY <1>2 DEF Refuse, Crash, RemoveTree, TypeOK
  <2>3. \A q \in Commands : pc[q] = "writing" => pc'[q] = "writing"
    BY <1>2, <2>1 DEF Refuse, Crash, RemoveTree, TypeOK
  <2>4. PromotionInv'
    BY <2>1, <2>2 DEF PromotionInv, Kept, InProduction
  <2> QED
    BY <2>1, <2>3, <2>4 DEF PromotionSticks, InProduction
<1>3. ASSUME NEW p \in Commands, OpenIndex(p) PROVE PromotionInv' /\ PromotionSticks'
  <2>1. UNCHANGED <<op, version, copy, promoted, overlapped, halfWritten>>
        /\ pc'[p] = "writing"
    BY <1>3 DEF OpenIndex, TypeOK
  <2>2. \A q \in Commands : pc'[q] \in {"save", "writing"} => pc[q] \in {"save", "writing"}
    BY <1>3 DEF OpenIndex, TypeOK
  <2>3. PromotionInv'
    BY <2>1, <2>2 DEF PromotionInv, Kept, InProduction
  <2> QED
    BY <2>1, <2>3 DEF PromotionSticks
<1>4. ASSUME NEW p \in Commands, WriteIndex(p) PROVE PromotionInv' /\ PromotionSticks'
  <2>1. UNCHANGED <<op, version, copy, overlapped, halfWritten>> /\ pc[p] = "writing"
        /\ promoted' = IF op[p] = "promote" THEN version[p] ELSE promoted
    BY <1>4 DEF WriteIndex
  <2>2. index' = copy[p]
    BY <1>4, <2>1 DEF WriteIndex, Solo
  <2>3. Kept(p)
    BY <2>1 DEF PromotionInv
  <2>4. \A v \in Versions : promoted' = v => InProduction(index', v)
    BY <2>1, <2>2, <2>3 DEF Kept
  <2>5. \A q \in Commands : pc'[q] \notin {"save", "writing"}
    BY <1>4, <2>1 DEF WriteIndex, Solo, TypeOK
  <2> QED
    BY <2>4, <2>5 DEF PromotionInv, PromotionSticks, InProduction
<1>5. CASE UNCHANGED vars
  BY <1>5 DEF vars, PromotionInv, PromotionSticks, Kept, InProduction
<1> QED
  BY <1>1, <1>2, <1>3, <1>4, <1>5 DEF Next, Command

\* A promotion lasts until the next one: no sequence of commands, refused or
\* killed, takes the promoted version out of production unless two of them
\* overlapped or one died while writing.
THEOREM PromotionsStick == Spec => []PromotionSticks
<1>1. ASSUME Init PROVE Solo /\ PromotionInv /\ PromotionSticks
  <2>1. \A p \in Commands : pc[p] \notin Running
    BY <1>1 DEF Init, Running
  <2> QED
    BY <1>1, <2>1 DEF Init, Solo, PromotionInv, PromotionSticks, Running
<1> QED
  BY <1>1, RegistryTypeOK, NextSolo, NextPromotion, PTL DEF Spec
===============================================================================
