-------------------------- MODULE FileBlocksProofs --------------------------
(***************************************************************************)
(* Proofs about FileBlocks, for any number of processes, files, blocks and *)
(* calls and any sizes of the inode and of a block of pointers.            *)
(*                                                                         *)
(* First what hangs at a pointer: by Unique and because the blocks of      *)
(* pointers are at most two deep, the blocks behind one are reached        *)
(* through it alone. Then the one way the tree changes: a pointer is set   *)
(* to NULL (truncate) or to a new block that is clear (_bmap), and what    *)
(* was at it and behind it is referred to no more (Swaps). What others     *)
(* hold is either untouched, as a truncate has its file for itself, or     *)
(* lost. At the end one lemma for each action, and the theorem.            *)
(***************************************************************************)
EXTENDS FileBlocks, FiniteSetTheorems, SequenceTheorems, WellFoundedInduction, NaturalsInduction, TLAPS

(***************************************************************************)
(* The way to a block: no two blocks have the same.                        *)
(***************************************************************************)
LEMMA Divided ==
  ASSUME NEW x \in Nat, NEW P \in Nat, P > 0
  PROVE  /\ x \div P \in Nat /\ x % P \in 0..P - 1
         /\ x = P * (x \div P) + (x % P)
<1>1. x \div P \in Nat
  OBVIOUS
<1>2. x % P \in 0..P - 1
  OBVIOUS
<1>3. x = P * (x \div P) + (x % P)
  OBVIOUS
<1>4. QED
  BY <1>1, <1>2, <1>3

LEMMA Product ==
  ASSUME NEW P \in Nat, NEW d \in Nat, d >= P
  PROVE  P * d \in Nat /\ P * d >= P * P
  OBVIOUS

LEMMA QuotientBelow ==
  ASSUME NEW x \in Nat, NEW P \in Nat, P > 0, x < P * P
  PROVE  x \div P < P
<1>1. PICK d \in Nat : d = x \div P
  BY Divided
<1>2. PICK e \in Nat : e = x % P
  BY Divided
<1>3. x = P * d + e
  BY <1>1, <1>2, Divided
<1>4. SUFFICES ASSUME d >= P PROVE FALSE
  BY <1>1
<1>5. P * d \in Nat /\ P * d >= P * P
  BY <1>4, Product
<1>6. QED
  BY <1>3, <1>5

LEMMA WayFits ==
  ASSUME NEW n \in Number
  PROVE  /\ n \in Nat /\ Len(Way(n)) \in 1..3 /\ Way(n)[1] \in 1..(DIRECT + 2)
         /\ Len(Way(n)) = 1 => Way(n)[1] \in 1..DIRECT
         /\ Len(Way(n)) = 2 => Way(n)[1] = DIRECT + 1
         /\ Len(Way(n)) = 3 => Way(n)[1] = DIRECT + 2
         /\ \A l \in 2..Len(Way(n)) : Way(n)[l] \in 1..PER
<1> DEFINE m == n - DIRECT
           q == m - PER
<1>1. /\ n \in Nat /\ DIRECT \in Nat \ {0} /\ PER \in Nat \ {0} /\ PER * PER \in Nat
      /\ n < DIRECT + PER + PER * PER
  BY FileBlocksAssumption
<1>2. CASE n < DIRECT
  BY <1>1, <1>2 DEF Way
<1>3. CASE ~(n < DIRECT) /\ m < PER
  <2>1. Way(n) = <<DIRECT + 1, m + 1>>
    BY <1>3 DEF Way
  <2>2. m + 1 \in 1..PER
    BY <1>1, <1>3
  <2>3. QED
    BY <1>1, <2>1, <2>2
<1>4. CASE ~(n < DIRECT) /\ ~(m < PER)
  <2>1. Way(n) = <<DIRECT + 2, (q \div PER) + 1, (q % PER) + 1>>
    BY <1>4 DEF Way
  <2>2. q \in Nat /\ q < PER * PER
    BY <1>1, <1>4
  <2>3. q \div PER \in Nat /\ q % PER \in 0..PER - 1 /\ q \div PER < PER
    BY <1>1, <2>2, Divided, QuotientBelow
  <2>4. (q \div PER) + 1 \in 1..PER /\ (q % PER) + 1 \in 1..PER
    BY <1>1, <2>3
  <2> HIDE DEF q
  <2>5. QED
    BY <1>1, <2>1, <2>4
<1>5. QED
  BY <1>2, <1>3, <1>4

(***************************************************************************)
(* Blocks of pointers.                                                     *)
(***************************************************************************)
InInode == 1..(DIRECT + 2)
Leads(c) == \/ \E f \in File : c = zone[f][DIRECT + 1] \/ c = zone[f][DIRECT + 2]
            \/ \E f \in File, k \in 1..PER :
                 zone[f][DIRECT + 2] # NULL /\ c = ptr[zone[f][DIRECT + 2]][k]

LEMMA InnerIs == \A c : c \in Inner <=> c # NULL /\ Leads(c)
<1>1. DIRECT + 1 \in InInode /\ DIRECT + 2 \in InInode /\ DIRECT + 1 # DIRECT + 2
  BY FileBlocksAssumption DEF InInode
<1>2. \A c : c \in Single \ {NULL} <=> c # NULL /\ \E f \in File : c = zone[f][DIRECT + 1]
  <2>1. ASSUME NEW c, c # NULL, NEW f \in File, c = zone[f][DIRECT + 1] PROVE c \in Single
    <3>1. <<f, DIRECT + 1>> \in {r \in Roots : r[2] = DIRECT + 1}
      BY <1>1, <2>1 DEF Roots, InInode
    <3>2. QED  BY <2>1, <3>1 DEF Single
  <2>2. QED  BY <2>1 DEF Single, Roots
<1>3. \A c : c \in Double <=> c # NULL /\ \E f \in File : c = zone[f][DIRECT + 2]
  <2>1. ASSUME NEW c, c # NULL, NEW f \in File, c = zone[f][DIRECT + 2] PROVE c \in Double
    <3>1. <<f, DIRECT + 2>> \in {r \in Roots : r[2] = DIRECT + 2}
      BY <1>1, <2>1 DEF Roots, InInode
    <3>2. QED  BY <2>1, <3>1 DEF Double
  <2>2. QED  BY <2>1 DEF Double, Roots
<1>4. ASSUME NEW c PROVE c \in Inner <=> c # NULL /\ Leads(c)
  <2>1. c \in Inner <=> c # NULL /\ (c \in Single \/ c \in Double \/ \E b \in Double, k \in 1..PER : c = ptr[b][k])
    BY DEF Inner
  <2>2. (\E b \in Double, k \in 1..PER : c = ptr[b][k])
          <=> \E f \in File, k \in 1..PER : zone[f][DIRECT + 2] # NULL /\ c = ptr[zone[f][DIRECT + 2]][k]
    BY <1>3
  <2>3. QED  BY <1>2, <1>3, <2>1, <2>2 DEF Leads
<1>5. QED  BY <1>4

LEMMA InnerIsThen == \A c : c \in Inner' <=> c # NULL /\ Leads(c)'
<1>1. (\A c : c \in Inner <=> c # NULL /\ Leads(c))'
  BY InnerIs, PTL
<1>2. QED  BY <1>1

LEMMA InnerAreBlocks == ASSUME TypeOK PROVE Inner \subseteq Block
<1>1. ASSUME NEW c \in Inner PROVE c \in Block
  <2>1. c # NULL /\ Leads(c)
    BY InnerIs
  <2>2. DIRECT + 1 \in 1..(DIRECT + 2) /\ DIRECT + 2 \in 1..(DIRECT + 2)
    BY FileBlocksAssumption
  <2>3. CASE \E f \in File : c = zone[f][DIRECT + 1] \/ c = zone[f][DIRECT + 2]
    BY <2>1, <2>2, <2>3 DEF TypeOK, Pointed
  <2>4. CASE \E f \in File, k \in 1..PER :
               zone[f][DIRECT + 2] # NULL /\ c = ptr[zone[f][DIRECT + 2]][k]
    <3>1. PICK f \in File, k \in 1..PER :
            zone[f][DIRECT + 2] # NULL /\ c = ptr[zone[f][DIRECT + 2]][k]
      BY <2>4
    <3>2. zone[f][DIRECT + 2] \in Block
      BY <2>2, <3>1 DEF TypeOK, Pointed
    <3>3. ptr[zone[f][DIRECT + 2]] \in [1..PER -> Pointed]
      BY <3>2 DEF TypeOK
    <3>4. QED  BY <2>1, <3>1, <3>3 DEF Pointed
  <2>5. QED  BY <2>1, <2>3, <2>4 DEF Leads
<1>2. QED  BY <1>1

LEMMA Last == DIRECT + 1 \in InInode /\ DIRECT + 2 \in InInode /\ DIRECT + 1 # DIRECT + 2 /\ NULL \notin Block
  BY FileBlocksAssumption DEF InInode, Block, NULL

LEMMA PointersFit ==
  ASSUME TypeOK
  PROVE  /\ \A f \in File, k \in InInode : zone[f][k] \in Pointed
         /\ \A b \in Block, k \in 1..PER : ptr[b][k] \in Pointed
  BY DEF TypeOK, InInode

LEMMA InnerIsReferenced == ASSUME NEW c \in Inner PROVE Referenced(c)
<1>1. c # NULL /\ Leads(c)
  BY InnerIs
<1>2. CASE \E f \in File : c = zone[f][DIRECT + 1] \/ c = zone[f][DIRECT + 2]
  BY <1>2, Last DEF Referenced, InInode
<1>3. ASSUME NEW f \in File, NEW k \in 1..PER, zone[f][DIRECT + 2] # NULL, c = ptr[zone[f][DIRECT + 2]][k]
      PROVE  Referenced(c)
  <2>1. zone[f][DIRECT + 2] \in Inner
    BY <1>3, InnerIs DEF Leads
  <2>2. QED  BY <1>3, <2>1 DEF Referenced
<1>4. QED  BY <1>1, <1>2, <1>3 DEF Leads


(***************************************************************************)
(* What hangs at a pointer.                                                *)
(***************************************************************************)
(* A block of pointers that a block of pointers leads to leads to no other. *)
LEMMA TwoDeep ==
  ASSUME TypeOK, Unique, NEW c \in Inner, NEW d \in Inner, NEW k \in 1..PER, d = ptr[c][k], NEW l \in 1..PER
  PROVE  ptr[d][l] \notin Inner
<1>1. d # NULL /\ Leads(d) /\ d \in Block /\ c # NULL
  BY InnerIs, InnerAreBlocks
<1>2. \A f \in File, i \in InInode, a \in Inner, j \in 1..PER : zone[f][i] # NULL => zone[f][i] # ptr[a][j]
  BY DEF Unique, InInode
<1>3. \A a, b \in Inner, i, j \in 1..PER : ptr[a][i] = ptr[b][j] /\ ptr[a][i] # NULL => a = b /\ i = j
  BY DEF Unique
<1>4. SUFFICES ASSUME ptr[d][l] \in Inner PROVE FALSE
  OBVIOUS
<1>5. PICK x \in Inner : x = ptr[d][l]
  BY <1>4
<1>6. x # NULL /\ Leads(x)
  BY InnerIs
<1>7. PICK f \in File, i \in 1..PER : zone[f][DIRECT + 2] # NULL /\ x = ptr[zone[f][DIRECT + 2]][i]
  BY <1>2, <1>5, <1>6, Last DEF Leads
<1>8. zone[f][DIRECT + 2] \in Inner
  BY <1>7, InnerIs DEF Leads
<1>9. zone[f][DIRECT + 2] = d
  <2>1. PICK z \in Inner : z = zone[f][DIRECT + 2]
    BY <1>8
  <2>2. ptr[z][i] = ptr[d][l] /\ ptr[z][i] # NULL
    BY <1>5, <1>6, <1>7, <2>1
  <2>3. z = d
    BY <1>3, <2>2
  <2>4. QED  BY <2>1, <2>3
<1>10. QED  BY <1>1, <1>2, <1>9, Last

Leaves == \A b \in Block : Referenced(b) /\ b \notin Inner => Children(b) = {}

Gone(o) == IF o = NULL THEN {} ELSE {o} \cup Behind(o)

LEMMA ChildIs == ASSUME NEW b, NEW x PROVE x \in Children(b) <=> x # NULL /\ \E k \in 1..PER : x = ptr[b][k]
  BY DEF Children

LEMMA BehindIs ==
  ASSUME NEW b, NEW x
  PROVE  x \in Behind(b) <=> x \in Children(b) \/ \E c \in Children(b) : x \in Children(c)
  BY DEF Behind

(* A child of a block that is referred to is referred to by it alone. *)
LEMMA ChildFits ==
  ASSUME TypeOK, Unique, Leaves, NEW b \in Block, Referenced(b), NEW x \in Children(b)
  PROVE  /\ b \in Inner /\ x \in Block /\ Referenced(x)
         /\ \A f \in File, k \in InInode : zone[f][k] # x
         /\ \A d \in Inner, k \in 1..PER : ptr[d][k] = x => d = b
<1>1. x # NULL /\ \E k \in 1..PER : x = ptr[b][k]
  BY ChildIs
<1>2. b \in Inner
  BY DEF Leaves
<1>3. PICK k \in 1..PER : x = ptr[b][k]
  BY <1>1
<1>4. x \in Block
  BY <1>1, <1>3, PointersFit DEF Pointed
<1>5. Referenced(x)
  BY <1>2, <1>3 DEF Referenced
<1>6. \A f \in File, i \in InInode : zone[f][i] # x
  BY <1>1, <1>2, <1>3 DEF Unique, InInode
<1>7. \A d \in Inner, i \in 1..PER : ptr[d][i] = x => d = b
  BY <1>1, <1>2, <1>3 DEF Unique
<1>8. QED  BY ONLY <1>2, <1>4, <1>5, <1>6, <1>7

LEMMA GoneFits ==
  ASSUME TypeOK, Unique, Leaves, NEW o \in Block, Referenced(o)
  PROVE  /\ Behind(o) \subseteq Block /\ \A x \in Behind(o) : Referenced(x)
         /\ Children(o) \subseteq Behind(o) /\ \A x \in Behind(o) : Children(x) \subseteq Behind(o)
         /\ \A x \in Behind(o) : \A f \in File, k \in InInode : zone[f][k] # x
         /\ \A x \in Behind(o) : \A d \in Inner, k \in 1..PER : ptr[d][k] = x => d \in Gone(o)
         /\ o \notin Behind(o)
         /\ \A d \in Inner, k \in 1..PER : ptr[d][k] = o => d \notin Gone(o)
<1>1. o # NULL /\ Gone(o) = {o} \cup Behind(o) /\ o \in Gone(o)
  BY Last DEF Gone
<1>2. ASSUME NEW x \in Children(o) PROVE x \in Behind(o) /\ Children(x) \subseteq Behind(o)
  BY BehindIs
<1>3. ASSUME NEW c \in Children(o), NEW x \in Children(c)
      PROVE  /\ o \in Inner /\ c \in Inner /\ c \in Block /\ Referenced(c) /\ x \in Block /\ Referenced(x)
             /\ x \notin Inner /\ Children(x) = {}
             /\ \A f \in File, k \in InInode : zone[f][k] # x
             /\ \A d \in Inner, k \in 1..PER : ptr[d][k] = x => d = c
  <2>1. o \in Inner /\ c \in Block /\ Referenced(c)
    BY ChildFits
  <2>2. /\ c \in Inner /\ x \in Block /\ Referenced(x)
        /\ \A f \in File, k \in InInode : zone[f][k] # x
        /\ \A d \in Inner, k \in 1..PER : ptr[d][k] = x => d = c
    BY <2>1, ChildFits
  <2>3. PICK k \in 1..PER : c = ptr[o][k]
    BY ChildIs
  <2>4. PICK l \in 1..PER : x = ptr[c][l]
    BY ChildIs
  <2>5. x \notin Inner
    BY <2>1, <2>2, <2>3, <2>4, TwoDeep
  <2>6. Children(x) = {}
    BY <2>2, <2>5 DEF Leaves
  <2>7. QED  BY <2>1, <2>2, <2>5, <2>6
<1>4. ASSUME NEW x \in Behind(o)
      PROVE  /\ x \in Block /\ Referenced(x) /\ Children(x) \subseteq Behind(o)
             /\ \A f \in File, k \in InInode : zone[f][k] # x
             /\ \A d \in Inner, k \in 1..PER : ptr[d][k] = x => d \in Gone(o)
  <2>1. CASE x \in Children(o)
    BY <1>1, <1>2, <2>1, ChildFits
  <2>2. ASSUME NEW c \in Children(o), x \in Children(c)
        PROVE  /\ x \in Block /\ Referenced(x) /\ Children(x) \subseteq Behind(o)
               /\ \A f \in File, k \in InInode : zone[f][k] # x
               /\ \A d \in Inner, k \in 1..PER : ptr[d][k] = x => d \in Gone(o)
    <3>1. c \in Gone(o)
      BY <1>1, <1>2
    <3>2. QED  BY <1>3, <2>2, <3>1
  <2>3. QED  BY <2>1, <2>2, BehindIs
<1>5. ASSUME NEW d \in Inner, NEW k \in 1..PER, ptr[d][k] = o PROVE d \notin Gone(o)
  <2>1. d # o
    <3> SUFFICES ASSUME d = o PROVE FALSE
      OBVIOUS
    <3>1. o \in Inner /\ o = ptr[o][k]
      BY <1>5
    <3>2. QED  BY <3>1, TwoDeep
  <2>2. d \notin Children(o)
    <3> SUFFICES ASSUME d \in Children(o) PROVE FALSE
      OBVIOUS
    <3>1. PICK l \in 1..PER : d = ptr[o][l]
      BY ChildIs
    <3>2. o \in Inner
      BY ChildFits
    <3>3. QED  BY <1>5, <3>1, <3>2, TwoDeep
  <2>3. ASSUME NEW c \in Children(o), d \in Children(c) PROVE FALSE
    BY <1>3, <2>3
  <2>4. QED  BY <1>1, <2>1, <2>2, <2>3, BehindIs
<1>6. o \notin Behind(o)
  <2> SUFFICES ASSUME o \in Behind(o) PROVE FALSE
    OBVIOUS
  <2>1. CASE o \in Children(o)
    <3>1. o \in Inner
      BY <2>1, ChildFits
    <3>2. PICK k \in 1..PER : o = ptr[o][k]
      BY <2>1, ChildIs
    <3>3. QED  BY <1>1, <1>5, <3>1, <3>2
  <2>2. ASSUME NEW c \in Children(o), o \in Children(c) PROVE FALSE
    <3>1. c \in Inner /\ c \in Gone(o)
      BY <1>1, <1>2, <1>3, <2>2
    <3>2. PICK k \in 1..PER : o = ptr[c][k]
      BY <2>2, ChildIs
    <3>3. QED  BY <1>5, <3>1, <3>2
  <2>3. QED  BY <2>1, <2>2, BehindIs
<1>7. QED  BY <1>2, <1>4, <1>5, <1>6

(***************************************************************************)
(* The way the tree changes: the blocks in G drop out, and the one pointer *)
(* to them from outside, or a pointer that was NULL, becomes v.            *)
(***************************************************************************)
Swaps(G, v) ==
  /\ v # NULL => v \in Block /\ ~Referenced(v) /\ \A l \in 1..PER : ptr'[v][l] = NULL
  /\ G \subseteq Block
  /\ \A g \in File, l \in InInode :
       \/ zone'[g][l] = zone[g][l] /\ zone[g][l] \notin G
       \/ zone'[g][l] = v /\ zone[g][l] \in G \cup {NULL}
  /\ \A d \in Inner \ G, l \in 1..PER :
       \/ ptr'[d][l] = ptr[d][l] /\ ptr[d][l] \notin G
       \/ ptr'[d][l] = v /\ ptr[d][l] \in G \cup {NULL}
  /\ \A d \in G, l \in 1..PER : ptr[d][l] \in G \cup {NULL}
  /\ v # NULL =>
       /\ \A f, g \in File, k, l \in InInode : zone'[f][k] = v /\ zone'[g][l] = v => f = g /\ k = l
       /\ \A f \in File, k \in InInode, c \in Inner \ G, l \in 1..PER : ~(zone'[f][k] = v /\ ptr'[c][l] = v)
       /\ \A c, d \in Inner \ G, k, l \in 1..PER : ptr'[c][k] = v /\ ptr'[d][l] = v => c = d /\ k = l
       /\ \/ \E f \in File, k \in InInode : zone'[f][k] = v
          \/ \E c \in Inner \ G, k \in 1..PER : ptr'[c][k] = v

LEMMA SwapInner ==
  ASSUME TypeOK, NEW G, NEW v, Swaps(G, v)
  PROVE  Inner \ G \subseteq Inner' /\ Inner' \subseteq (Inner \ G) \cup {v}
<1>0. NULL \notin G /\ \A x \in G : x # NULL
  BY Last DEF Swaps
<1>1. /\ \A g \in File, l \in InInode :
           \/ zone'[g][l] = zone[g][l] /\ zone[g][l] \notin G
           \/ zone'[g][l] = v /\ zone[g][l] \in G \cup {NULL}
      /\ \A d \in Inner \ G, l \in 1..PER :
           \/ ptr'[d][l] = ptr[d][l] /\ ptr[d][l] \notin G
           \/ ptr'[d][l] = v /\ ptr[d][l] \in G \cup {NULL}
      /\ \A d \in G, l \in 1..PER : ptr[d][l] \in G \cup {NULL}
  BY DEF Swaps
<1>2. ASSUME NEW c \in Inner \ G PROVE c \in Inner'
  <2>1. c # NULL /\ Leads(c) /\ c \notin G
    BY InnerIs
  <2>2. CASE \E f \in File : c = zone[f][DIRECT + 1] \/ c = zone[f][DIRECT + 2]
    BY <1>1, <2>1, <2>2, Last, InnerIsThen DEF Leads
  <2>3. ASSUME NEW f \in File, NEW k \in 1..PER, zone[f][DIRECT + 2] # NULL, c = ptr[zone[f][DIRECT + 2]][k]
        PROVE  c \in Inner'
    <3>1. zone[f][DIRECT + 2] \notin G
      BY <1>1, <2>1, <2>3
    <3>2. zone'[f][DIRECT + 2] = zone[f][DIRECT + 2] /\ zone[f][DIRECT + 2] \in Inner \ G
      BY <1>1, <2>3, <3>1, Last, InnerIs DEF Leads
    <3>3. ptr'[zone[f][DIRECT + 2]][k] = c
      BY <1>1, <2>1, <2>3, <3>2
    <3>4. QED  BY <2>1, <2>3, <3>2, <3>3, InnerIsThen DEF Leads
  <2>4. QED  BY <2>1, <2>2, <2>3 DEF Leads
<1>3. ASSUME NEW c \in Inner', c # v PROVE c \in Inner \ G
  <2>1. c # NULL /\ Leads(c)'
    BY InnerIsThen
  <2>2. CASE \E f \in File : c = zone'[f][DIRECT + 1] \/ c = zone'[f][DIRECT + 2]
    <3>1. c \notin G /\ \E f \in File : c = zone[f][DIRECT + 1] \/ c = zone[f][DIRECT + 2]
      BY <1>1, <1>3, <2>2, Last
    <3>2. QED  BY <2>1, <3>1, InnerIs DEF Leads
  <2>3. ASSUME NEW f \in File, NEW k \in 1..PER, zone'[f][DIRECT + 2] # NULL, c = ptr'[zone'[f][DIRECT + 2]][k]
        PROVE  c \in Inner \ G
    <3>1. zone'[f][DIRECT + 2] # v
      BY <2>1, <2>3 DEF Swaps
    <3>2. zone'[f][DIRECT + 2] = zone[f][DIRECT + 2] /\ zone[f][DIRECT + 2] \in Inner \ G
      <4>1. zone'[f][DIRECT + 2] = zone[f][DIRECT + 2] /\ zone[f][DIRECT + 2] \notin G
        BY <1>1, <3>1, Last
      <4>2. QED  BY <2>3, <4>1, InnerIs DEF Leads
    <3>3. ptr'[zone[f][DIRECT + 2]][k] = ptr[zone[f][DIRECT + 2]][k] /\ c \notin G
      BY <1>1, <1>3, <2>3, <3>2
    <3>4. QED  BY <2>1, <2>3, <3>2, <3>3, InnerIs DEF Leads
  <2>4. QED  BY <2>1, <2>2, <2>3 DEF Leads
<1>4. QED  BY <1>2, <1>3

LEMMA SwapFits ==
  ASSUME TypeOK, Unique, NEW G, NEW v, Swaps(G, v)
  PROVE  Unique' /\ \A d \in Block : Referenced(d)' <=> (Referenced(d) /\ d \notin G) \/ d = v
<1>0. NULL \notin G /\ Inner \ G \subseteq Inner' /\ Inner' \subseteq (Inner \ G) \cup {v} /\ Inner \subseteq Block
  BY Last, SwapInner, InnerAreBlocks DEF Swaps
<1>1. /\ \A g \in File, l \in InInode :
           \/ zone'[g][l] = zone[g][l] /\ zone[g][l] \notin G
           \/ zone'[g][l] = v /\ zone[g][l] \in G \cup {NULL}
      /\ \A d \in Inner \ G, l \in 1..PER :
           \/ ptr'[d][l] = ptr[d][l] /\ ptr[d][l] \notin G
           \/ ptr'[d][l] = v /\ ptr[d][l] \in G \cup {NULL}
      /\ \A d \in G, l \in 1..PER : ptr[d][l] \in G \cup {NULL}
  BY DEF Swaps
<1>2. v # NULL => /\ \A g \in File, l \in InInode : zone[g][l] # v
                  /\ \A c \in Inner, l \in 1..PER : ptr[c][l] # v
                  /\ v \notin Inner /\ v \in Block
  BY InnerIsReferenced DEF Swaps, Referenced, InInode
<1>3. ASSUME NEW c \in Inner', NEW l \in 1..PER, ptr'[c][l] # NULL PROVE c \in Inner \ G
  <2>1. v # NULL => ptr'[v][l] = NULL
    BY DEF Swaps
  <2>2. c # NULL
    BY InnerIsThen
  <2>3. QED  BY <1>0, <1>3, <2>1, <2>2
<1>4. \A f, g \in File, k, l \in InInode : zone'[f][k] = zone'[g][l] /\ zone'[f][k] # NULL => f = g /\ k = l
  <2> SUFFICES ASSUME NEW f \in File, NEW g \in File, NEW k \in InInode, NEW l \in InInode,
                      zone'[f][k] = zone'[g][l], zone'[f][k] # NULL
               PROVE  f = g /\ k = l
    OBVIOUS
  <2>1. CASE zone'[f][k] = v
    <3>1. \A x, y \in File, i, j \in InInode : zone'[x][i] = v /\ zone'[y][j] = v => x = y /\ i = j
      BY <2>1 DEF Swaps
    <3>2. QED  BY <2>1, <3>1
  <2>2. CASE zone'[f][k] # v
    BY <1>1, <2>2 DEF Unique, InInode
  <2>3. QED  BY <2>1, <2>2
<1>5. \A f \in File, k \in InInode, c \in Inner', l \in 1..PER : zone'[f][k] # NULL => zone'[f][k] # ptr'[c][l]
  <2> SUFFICES ASSUME NEW f \in File, NEW k \in InInode, NEW c \in Inner', NEW l \in 1..PER,
                      zone'[f][k] # NULL, zone'[f][k] = ptr'[c][l]
               PROVE  FALSE
    OBVIOUS
  <2>0. c \in Inner \ G
    BY <1>3
  <2>1. CASE zone'[f][k] = v
    <3>1. \A g \in File, i \in InInode, d \in Inner \ G, j \in 1..PER : ~(zone'[g][i] = v /\ ptr'[d][j] = v)
      BY <2>1 DEF Swaps
    <3>2. QED  BY <2>0, <2>1, <3>1
  <2>2. CASE zone'[f][k] # v
    BY <1>1, <2>0, <2>2 DEF Unique, InInode
  <2>3. QED  BY <2>1, <2>2
<1>6. \A c, d \in Inner', k, l \in 1..PER : ptr'[c][k] = ptr'[d][l] /\ ptr'[c][k] # NULL => c = d /\ k = l
  <2> SUFFICES ASSUME NEW c \in Inner', NEW d \in Inner', NEW k \in 1..PER, NEW l \in 1..PER,
                      ptr'[c][k] = ptr'[d][l], ptr'[c][k] # NULL
               PROVE  c = d /\ k = l
    OBVIOUS
  <2>0. c \in Inner \ G /\ d \in Inner \ G
    BY <1>3
  <2>1. CASE ptr'[c][k] = v
    <3>1. \A x, y \in Inner \ G, i, j \in 1..PER : ptr'[x][i] = v /\ ptr'[y][j] = v => x = y /\ i = j
      BY <2>1 DEF Swaps
    <3>2. QED  BY <2>0, <2>1, <3>1
  <2>2. CASE ptr'[c][k] # v
    BY <1>1, <2>0, <2>2 DEF Unique
  <2>3. QED  BY <2>1, <2>2
<1>7. ASSUME NEW d \in Block PROVE Referenced(d)' <=> (Referenced(d) /\ d \notin G) \/ d = v
  <2>1. d # NULL
    BY Last
  <2>2. ASSUME Referenced(d)', d # v PROVE Referenced(d) /\ d \notin G
    <3>1. CASE \E f \in File, k \in InInode : zone'[f][k] = d
      BY <1>1, <2>1, <2>2, <3>1 DEF Referenced, InInode
    <3>2. ASSUME NEW c \in Inner', NEW k \in 1..PER, ptr'[c][k] = d PROVE Referenced(d) /\ d \notin G
      <4>1. c \in Inner \ G
        BY <1>3, <2>1, <3>2
      <4>2. ptr[c][k] = d /\ d \notin G
        BY <1>1, <2>2, <3>2, <4>1
      <4>3. QED  BY <4>1, <4>2 DEF Referenced
    <3>3. QED  BY <2>2, <3>1, <3>2 DEF Referenced, InInode
  <2>3. ASSUME Referenced(d), d \notin G PROVE Referenced(d)'
    <3>1. CASE \E f \in File, k \in InInode : zone[f][k] = d
      BY <1>1, <2>1, <2>3, <3>1 DEF Referenced, InInode
    <3>2. ASSUME NEW c \in Inner, NEW k \in 1..PER, ptr[c][k] = d PROVE Referenced(d)'
      <4>1. c \in Inner \ G
        BY <1>1, <2>1, <2>3, <3>2
      <4>2. ptr'[c][k] = d /\ c \in Inner'
        BY <1>0, <1>1, <2>1, <2>3, <3>2, <4>1
      <4>3. QED  BY <4>2 DEF Referenced
    <3>3. QED  BY <2>3, <3>1, <3>2 DEF Referenced, InInode
  <2>4. ASSUME d = v PROVE Referenced(d)'
    <3>1. \/ \E f \in File, k \in InInode : zone'[f][k] = v
          \/ \E c \in Inner \ G, k \in 1..PER : ptr'[c][k] = v
      BY <2>1, <2>4 DEF Swaps
    <3>2. QED  BY <1>0, <2>4, <3>1 DEF Referenced, InInode
  <2>5. QED  BY <2>2, <2>3, <2>4
<1>8. QED  BY <1>4, <1>5, <1>6, <1>7 DEF Unique, InInode

(* Pointer k of the inode of file f (e is NULL) or of block e becomes v, which is clear. *)
SetAt(f, e, k, v) ==
  /\ zone' \in [File -> [InInode -> Pointed]] /\ ptr' \in [Block -> [1..PER -> Pointed]]
  /\ IF e = NULL THEN k \in InInode ELSE e \in Block /\ k \in 1..PER /\ e # v
  /\ \A g \in File : e # NULL \/ g # f => zone'[g] = zone[g]
  /\ e = NULL => zone'[f] = [zone[f] EXCEPT ![k] = v]
  /\ \A d \in Block \ {v} : d # e => ptr'[d] = ptr[d]
  /\ e # NULL => ptr'[e] = [ptr[e] EXCEPT ![k] = v]
  /\ v # NULL => v \in Block /\ ptr'[v] = NoPtr
Slot(f, e, k) == IF e = NULL THEN zone[f][k] ELSE ptr[e][k]

LEMMA SetAtIs ==
  ASSUME TypeOK, NEW f \in File, NEW e, NEW k, NEW v, SetAt(f, e, k, v)
  PROVE  /\ e = NULL => /\ zone'[f][k] = v
                        /\ \A g \in File, l \in InInode : g # f \/ l # k => zone'[g][l] = zone[g][l]
         /\ e # NULL => /\ \A g \in File, l \in InInode : zone'[g][l] = zone[g][l]
                        /\ ptr'[e][k] = v
         /\ \A d \in Block, l \in 1..PER : d # v /\ (d # e \/ l # k) => ptr'[d][l] = ptr[d][l]
         /\ v # NULL => v \in Block /\ \A l \in 1..PER : ptr'[v][l] = NULL
<1>1. zone \in [File -> [InInode -> Pointed]] /\ ptr \in [Block -> [1..PER -> Pointed]]
  BY DEF TypeOK, InInode
<1>2. ASSUME e = NULL
      PROVE  /\ zone'[f][k] = v
             /\ \A g \in File, l \in InInode : g # f \/ l # k => zone'[g][l] = zone[g][l]
  BY <1>1, <1>2 DEF SetAt
<1>3. ASSUME e # NULL
      PROVE  (\A g \in File, l \in InInode : zone'[g][l] = zone[g][l]) /\ ptr'[e][k] = v
  BY <1>1, <1>3 DEF SetAt
<1>4. ASSUME NEW d \in Block, NEW l \in 1..PER, d # v, d # e \/ l # k PROVE ptr'[d][l] = ptr[d][l]
  <2>1. CASE d # e
    BY <1>4, <2>1 DEF SetAt
  <2>2. CASE d = e /\ l # k
    <3>1. e # NULL /\ ptr[e] \in [1..PER -> Pointed]
      BY <1>1, <1>4, <2>2, Last
    <3>2. QED  BY <1>4, <2>2, <3>1 DEF SetAt
  <2>3. QED  BY <1>4, <2>1, <2>2
<1>5. v # NULL => v \in Block /\ \A l \in 1..PER : ptr'[v][l] = NULL
  BY DEF SetAt, NoPtr
<1>6. QED  BY <1>2, <1>3, <1>4, <1>5

LEMMA SlotFits ==
  ASSUME TypeOK, NEW f \in File, NEW e, e = NULL \/ e \in Inner,
         NEW k, IF e = NULL THEN k \in InInode ELSE k \in 1..PER
  PROVE  Slot(f, e, k) \in Pointed /\ (Slot(f, e, k) # NULL => Slot(f, e, k) \in Block /\ Referenced(Slot(f, e, k)))
<1>1. CASE e = NULL
  BY <1>1, PointersFit DEF Slot, Pointed, Referenced, InInode
<1>2. CASE e # NULL
  BY <1>2, PointersFit, InnerAreBlocks DEF Slot, Pointed, Referenced
<1>3. QED  BY <1>1, <1>2

LEMMA SetSwaps ==
  ASSUME TypeOK, Unique, Leaves, NEW f \in File, NEW e, e = NULL \/ e \in Inner, NEW k, NEW v, SetAt(f, e, k, v),
         v # NULL => ~Referenced(v)
  PROVE  Swaps(Gone(Slot(f, e, k)), v)
<1>o. PICK o : o = Slot(f, e, k)
  OBVIOUS
<1>g. PICK G : G = Gone(o)
  OBVIOUS
<1>1. /\ e = NULL => /\ zone'[f][k] = v
                     /\ \A g \in File, l \in InInode : g # f \/ l # k => zone'[g][l] = zone[g][l]
      /\ e # NULL => /\ \A g \in File, l \in InInode : zone'[g][l] = zone[g][l]
                     /\ ptr'[e][k] = v
      /\ \A d \in Block, l \in 1..PER : d # v /\ (d # e \/ l # k) => ptr'[d][l] = ptr[d][l]
      /\ v # NULL => v \in Block /\ \A l \in 1..PER : ptr'[v][l] = NULL
  BY SetAtIs
<1>2. IF e = NULL THEN k \in InInode ELSE e \in Block /\ k \in 1..PER /\ e # v
  BY DEF SetAt
<1>3. o \in Pointed /\ (o # NULL => o \in Block /\ Referenced(o))
  BY <1>2, <1>o, SlotFits
<1>4. /\ e = NULL => o = zone[f][k]
      /\ e # NULL => o = ptr[e][k]
  BY <1>o DEF Slot
<1>5. /\ G \subseteq Block /\ (o # NULL => o \in G)
      /\ \A x \in G : x = o \/ \A g \in File, l \in InInode : zone[g][l] # x
      /\ \A x \in G : x = o \/ \A d \in Inner, l \in 1..PER : ptr[d][l] = x => d \in G
      /\ \A d \in Inner, l \in 1..PER : o # NULL /\ ptr[d][l] = o => d \notin G
      /\ \A d \in G, l \in 1..PER : ptr[d][l] \in G \cup {NULL}
      /\ NULL \notin G
  <2>1. CASE o = NULL
    BY <1>g, <2>1 DEF Gone
  <2>2. CASE o # NULL
    <3>1. /\ Behind(o) \subseteq Block
          /\ Children(o) \subseteq Behind(o) /\ \A x \in Behind(o) : Children(x) \subseteq Behind(o)
          /\ \A x \in Behind(o) : \A g \in File, l \in InInode : zone[g][l] # x
          /\ \A x \in Behind(o) : \A d \in Inner, l \in 1..PER : ptr[d][l] = x => d \in Gone(o)
          /\ \A d \in Inner, l \in 1..PER : ptr[d][l] = o => d \notin Gone(o)
      BY <1>3, <2>2, GoneFits
    <3>2. G = {o} \cup Behind(o) /\ G = Gone(o)
      BY <1>g, <2>2 DEF Gone
    <3>3. \A d \in G, l \in 1..PER : ptr[d][l] \in G \cup {NULL}
      <4>1. \A d \in G : Children(d) \subseteq Behind(o)
        BY <3>1, <3>2
      <4>2. QED  BY <3>2, <4>1, ChildIs
    <3>4. G \subseteq Block /\ o \in G /\ NULL \notin G
      BY <1>3, <2>2, <3>1, <3>2, Last
    <3>5. /\ \A x \in G : x = o \/ \A g \in File, l \in InInode : zone[g][l] # x
          /\ \A x \in G : x = o \/ \A d \in Inner, l \in 1..PER : ptr[d][l] = x => d \in G
      BY <3>1, <3>2
    <3>6. \A d \in Inner, l \in 1..PER : o # NULL /\ ptr[d][l] = o => d \notin G
      BY <3>1, <3>2
    <3>7. QED  BY <3>3, <3>4, <3>5, <3>6
  <2>3. QED  BY <2>1, <2>2
<1>6. /\ \A g, h \in File, i, l \in InInode : zone[g][i] = zone[h][l] /\ zone[g][i] # NULL => g = h /\ i = l
      /\ \A g \in File, i \in InInode, c \in Inner, l \in 1..PER : zone[g][i] # NULL => zone[g][i] # ptr[c][l]
      /\ \A c, d \in Inner, i, l \in 1..PER : ptr[c][i] = ptr[d][l] /\ ptr[c][i] # NULL => c = d /\ i = l
  BY DEF Unique, InInode
<1>7. v # NULL => /\ \A g \in File, l \in InInode : zone[g][l] # v
                  /\ \A c \in Inner, l \in 1..PER : ptr[c][l] # v
                  /\ v \notin Inner
  BY InnerIsReferenced DEF Referenced, InInode
<1>8. Inner \subseteq Block /\ \A c \in Inner : c # v
  BY <1>7, InnerAreBlocks, Last
<1>9. ASSUME NEW g \in File, NEW l \in InInode
      PROVE  \/ zone'[g][l] = zone[g][l] /\ zone[g][l] \notin G
             \/ zone'[g][l] = v /\ zone[g][l] \in G \cup {NULL}
  <2>1. CASE e = NULL /\ g = f /\ l = k
    BY <1>1, <1>4, <1>5, <2>1
  <2>2. CASE ~(e = NULL /\ g = f /\ l = k)
    <3>1. zone'[g][l] = zone[g][l]
      BY <1>1, <2>2
    <3>2. zone[g][l] # o \/ o = NULL
      BY <1>2, <1>4, <1>6, <2>2
    <3>3. QED  BY <1>5, <3>1, <3>2
  <2>3. QED  BY <2>1, <2>2
<1>10. ASSUME NEW d \in Inner \ G, NEW l \in 1..PER
       PROVE  \/ ptr'[d][l] = ptr[d][l] /\ ptr[d][l] \notin G
              \/ ptr'[d][l] = v /\ ptr[d][l] \in G \cup {NULL}
  <2>1. CASE d = e /\ l = k
    BY <1>1, <1>4, <1>5, <1>8, <2>1, Last
  <2>2. CASE ~(d = e /\ l = k)
    <3>1. ptr'[d][l] = ptr[d][l]
      BY <1>1, <1>8, <2>2
    <3>2. ptr[d][l] # o \/ o = NULL
      BY <1>2, <1>4, <1>6, <2>2
    <3>3. QED  BY <1>5, <3>1, <3>2
  <2>3. QED  BY <2>1, <2>2
<1>11. ASSUME v # NULL
       PROVE  /\ \A g, h \in File, i, l \in InInode : zone'[g][i] = v /\ zone'[h][l] = v => g = h /\ i = l
              /\ \A g \in File, i \in InInode, c \in Inner \ G, l \in 1..PER : ~(zone'[g][i] = v /\ ptr'[c][l] = v)
              /\ \A c, d \in Inner \ G, i, l \in 1..PER : ptr'[c][i] = v /\ ptr'[d][l] = v => c = d /\ i = l
              /\ \/ \E g \in File, i \in InInode : zone'[g][i] = v
                 \/ \E c \in Inner \ G, i \in 1..PER : ptr'[c][i] = v
  <2>1. \A g \in File, l \in InInode : zone'[g][l] = v => e = NULL /\ g = f /\ l = k
    BY <1>1, <1>7, <1>11
  <2>2. \A d \in Inner, l \in 1..PER : ptr'[d][l] = v => d = e /\ l = k
    BY <1>1, <1>7, <1>8, <1>11
  <2>3. e # NULL => e \in Inner \ G
    <3>1. CASE o = NULL
      BY <1>g, <3>1 DEF Gone
    <3>2. CASE o # NULL
      BY <1>2, <1>4, <1>5, <3>2
    <3>3. QED  BY <3>1, <3>2
  <2>4. e # NULL => \A d \in Inner : d # NULL
    BY <1>8, Last
  <2>5. QED  BY <1>1, <1>2, <2>1, <2>2, <2>3, <1>8, Last
<1>12. v # NULL => v \in Block /\ ~Referenced(v) /\ \A l \in 1..PER : ptr'[v][l] = NULL
  BY <1>1
<1>13. Swaps(G, v)
  BY <1>5, <1>9, <1>10, <1>11, <1>12 DEF Swaps
<1>14. QED  BY <1>13, <1>g, <1>o

LEMMA SameSwaps == ASSUME zone' = zone, \A c \in Inner : ptr'[c] = ptr[c] PROVE Swaps({}, NULL)
  BY DEF Swaps

(***************************************************************************)
(* The blocks of pointers of a file.                                       *)
(***************************************************************************)
InFile(f, c) == Reaches(f, 1, c) \/ Reaches(f, 2, c)

LEMMA InFileIsInner ==
  ASSUME NEW f \in File, NEW c, InFile(f, c)
  PROVE  /\ c \in Inner /\ c # NULL
         /\ \/ c = zone[f][DIRECT + 1] \/ c = zone[f][DIRECT + 2]
            \/ \E k \in 1..PER : zone[f][DIRECT + 2] \in Inner /\ c = ptr[zone[f][DIRECT + 2]][k]
<1>1. /\ c # NULL
      /\ \/ c = zone[f][DIRECT + 1] \/ c = zone[f][DIRECT + 2]
         \/ zone[f][DIRECT + 2] # NULL /\ \E k \in 1..PER : c = ptr[zone[f][DIRECT + 2]][k]
  BY DEF InFile, Reaches
<1>2. zone[f][DIRECT + 2] # NULL => zone[f][DIRECT + 2] \in Inner
  BY InnerIs DEF Leads
<1>3. c \in Inner
  BY <1>1, InnerIs DEF Leads
<1>4. QED  BY <1>1, <1>2, <1>3

(* What pointers of one file lead to is not a block of pointers of another. *)
LEMMA SlotApart ==
  ASSUME Unique, NEW f \in File, NEW g \in File, f # g, NEW e, e = NULL \/ InFile(f, e),
         NEW k, IF e = NULL THEN k \in InInode ELSE k \in 1..PER, Slot(f, e, k) # NULL
  PROVE  ~InFile(g, Slot(f, e, k))
<1>1. SUFFICES ASSUME InFile(g, Slot(f, e, k)) PROVE FALSE
  OBVIOUS
<1>o. PICK o : o = Slot(f, e, k)
  OBVIOUS
<1>a. PICK a : a = zone[g][DIRECT + 2]
  OBVIOUS
<1>2. /\ o # NULL
      /\ \/ o = zone[g][DIRECT + 1] \/ o = a
         \/ \E l \in 1..PER : a \in Inner /\ o = ptr[a][l]
  BY <1>1, <1>o, <1>a, InFileIsInner
<1>3. /\ \A h, i \in File, x, y \in InInode : zone[h][x] = zone[i][y] /\ zone[h][x] # NULL => h = i /\ x = y
      /\ \A h \in File, x \in InInode, c \in Inner, y \in 1..PER : zone[h][x] # NULL => zone[h][x] # ptr[c][y]
      /\ \A c, d \in Inner, x, y \in 1..PER : ptr[c][x] = ptr[d][y] /\ ptr[c][x] # NULL => c = d /\ x = y
  BY DEF Unique, InInode
<1>4. CASE e = NULL
  BY <1>2, <1>3, <1>4, <1>o, <1>a, Last DEF Slot
<1>5. CASE e # NULL
  <2>1. /\ e \in Inner /\ o = ptr[e][k] /\ k \in 1..PER
        /\ \/ e = zone[f][DIRECT + 1] \/ e = zone[f][DIRECT + 2]
           \/ \E l \in 1..PER : zone[f][DIRECT + 2] \in Inner /\ e = ptr[zone[f][DIRECT + 2]][l]
    BY <1>5, <1>o, InFileIsInner DEF Slot
  <2>2. o # zone[g][DIRECT + 1] /\ o # a
    BY <1>2, <1>3, <1>a, <2>1, Last
  <2>3. PICK l \in 1..PER : a \in Inner /\ o = ptr[a][l]
    BY <1>2, <2>2
  <2>4. e = a /\ e # NULL
    <3>1. \A c, d \in Inner, x, y \in 1..PER : ptr[c][x] = ptr[d][y] /\ ptr[c][x] # NULL => c = d /\ x = y
      BY <1>3
    <3>2. ptr[e][k] = ptr[a][l] /\ ptr[e][k] # NULL /\ e \in Inner /\ a \in Inner /\ k \in 1..PER
      BY <1>2, <2>1, <2>3
    <3>3. QED  BY <1>5, <3>1, <3>2
  <2>5. QED  BY <1>3, <1>a, <2>1, <2>4, Last
<1>6. QED  BY <1>4, <1>5

LEMMA InFileApart ==
  ASSUME Unique, NEW f \in File, NEW g \in File, f # g, NEW c, InFile(f, c) PROVE ~InFile(g, c)
<1>1. /\ c # NULL
      /\ \/ c = zone[f][DIRECT + 1] \/ c = zone[f][DIRECT + 2]
         \/ \E k \in 1..PER : zone[f][DIRECT + 2] \in Inner /\ c = ptr[zone[f][DIRECT + 2]][k]
  BY InFileIsInner
<1>2. CASE c = zone[f][DIRECT + 1] \/ c = zone[f][DIRECT + 2]
  <2>1. PICK k \in InInode : c = Slot(f, NULL, k)
    BY <1>2, Last DEF Slot
  <2>2. QED  BY <1>1, <2>1, SlotApart
<1>3. ASSUME NEW k \in 1..PER, zone[f][DIRECT + 2] \in Inner, c = ptr[zone[f][DIRECT + 2]][k] PROVE ~InFile(g, c)
  <2>1. PICK a : a = zone[f][DIRECT + 2]
    OBVIOUS
  <2>2. a # NULL /\ InFile(f, a)
    BY <1>3, <2>1, InnerIs DEF InFile, Reaches
  <2>3. c = Slot(f, a, k)
    BY <1>3, <2>1, <2>2 DEF Slot
  <2>4. QED  BY <1>1, <2>2, <2>3, SlotApart
<1>4. QED  BY <1>1, <1>2, <1>3

LEMMA SwapReaches ==
  ASSUME TypeOK, NEW G, NEW v, Swaps(G, v), NEW f \in File, NEW d, NEW b, Reaches(f, d, b)
  PROVE  b \in G \/ Reaches(f, d, b)'
<1>1. /\ \A g \in File, l \in InInode :
           \/ zone'[g][l] = zone[g][l] /\ zone[g][l] \notin G
           \/ zone'[g][l] = v /\ zone[g][l] \in G \cup {NULL}
      /\ \A c \in Inner \ G, l \in 1..PER :
           \/ ptr'[c][l] = ptr[c][l] /\ ptr[c][l] \notin G
           \/ ptr'[c][l] = v /\ ptr[c][l] \in G \cup {NULL}
      /\ \A c \in G, l \in 1..PER : ptr[c][l] \in G \cup {NULL}
  BY DEF Swaps
<1>2. SUFFICES ASSUME b \notin G PROVE Reaches(f, d, b)'
  OBVIOUS
<1>3. b # NULL
  BY DEF Reaches
<1>4. CASE (d = 2 /\ b = zone[f][DIRECT + 2]) \/ (d = 1 /\ b = zone[f][DIRECT + 1])
  <2>1. \A l \in InInode : b = zone[f][l] => b = zone'[f][l]
    BY <1>1, <1>2, <1>3
  <2>2. QED  BY <1>3, <1>4, <2>1, Last DEF Reaches
<1>5. CASE d = 1 /\ zone[f][DIRECT + 2] # NULL /\ \E k \in 1..PER : b = ptr[zone[f][DIRECT + 2]][k]
  <2>1. PICK a : a = zone[f][DIRECT + 2]
    OBVIOUS
  <2>2. PICK k \in 1..PER : b = ptr[a][k]
    BY <1>5, <2>1
  <2>3. a \in Inner /\ a \notin G
    BY <1>1, <1>2, <1>3, <1>5, <2>1, <2>2, InnerIs DEF Leads
  <2>4. a = zone'[f][DIRECT + 2] /\ b = ptr'[a][k] /\ a # NULL
    BY <1>1, <1>2, <1>3, <1>5, <2>1, <2>2, <2>3, Last
  <2>5. QED  BY <1>3, <1>5, <2>4 DEF Reaches
<1>6. QED  BY <1>4, <1>5 DEF Reaches

(***************************************************************************)
(* What a step of p leaves as it is for another process q.                 *)
(***************************************************************************)
Sound == TypeOK /\ Fits

LEMMA SoundIs ==
  ASSUME Sound
  PROVE  /\ TypeOK /\ TreeFits /\ LostFits /\ Unique /\ Leaves
         /\ \A b \in Block : Referenced(b) => b \in zmap /\ b \notin lost
         /\ \A b \in zmap : Referenced(b) \/ b \in lost \/ \E q \in Proc : job[q].new = b
         /\ \A q \in Proc : job[q] \in Job /\ JobFits(q)
         /\ \A q, r \in Proc : q # r => Apart(q, r)
  BY DEF Sound, Fits, TreeFits, Leaves, TypeOK

LEMMA AtFits ==
  ASSUME Sound, NEW p \in Proc
  PROVE  /\ job[p] \in Job /\ JobFits(p) /\ WalkFits(job[p]) /\ WriterFits(job[p]) /\ StackFits(p) /\ NewFits(job[p])
         /\ job[p].at # "getblk" => job[p].new = NULL
  BY SoundIs DEF JobFits, NewFits

LEMMA DepthIs ==
  ASSUME NEW m \in 1..3, NEW d \in 1..m
  PROVE  /\ d > 2 => d = 3 /\ 2 \in 2..m /\ m > 2 /\ m > 1
         /\ \A i \in 1..(d - 1) : i \in 1..m /\ d > 1 /\ (i = 1 \/ (i = 2 /\ d > 2 /\ 2 \in 2..m))
  OBVIOUS

LEMMA TwoOrThree == ASSUME NEW m \in 1..3, NEW i \in 2..m PROVE (i = 2 /\ m > 1) \/ (i = 3 /\ m > 2)
  OBVIOUS

(* What a truncate holds. *)
LEMMA StackInFile ==
  ASSUME NEW q \in Proc, StackFits(q), At(q, "free")
  PROVE  /\ job[q].f \in File /\ job[q].op = "truncate" /\ Len(job[q].stack) \in 1..3
         /\ job[q].stack[1].b = NULL
         /\ \A i \in 2..Len(job[q].stack) : InFile(job[q].f, job[q].stack[i].b)
<1>s. PICK s : s = job[q].stack
  OBVIOUS
<1>f. PICK f : f = job[q].f
  OBVIOUS
<1>1. /\ f \in File /\ Len(s) \in 1..3 /\ s[1].b = NULL /\ job[q].op = "truncate"
      /\ Len(s) > 1 => /\ s[1].k \in {DIRECT + 1, DIRECT + 2} /\ s[2].below = s[1].k - DIRECT
                       /\ s[2].b # NULL /\ s[2].b = zone[f][s[1].k]
      /\ Len(s) > 2 => /\ s[2].k \in 1..PER /\ s[2].below = 2
                       /\ s[3].b # NULL /\ s[3].b = ptr[s[2].b][s[2].k]
  BY <1>s, <1>f DEF StackFits
<1>2. ASSUME Len(s) > 1 PROVE InFile(f, s[2].b)
  BY <1>1, <1>2 DEF InFile, Reaches
<1>3. ASSUME Len(s) > 2 PROVE InFile(f, s[3].b)
  <2>1. s[1].k \in {DIRECT + 1, DIRECT + 2} /\ s[2].below = s[1].k - DIRECT /\ s[2].below = 2 /\ Len(s) > 1
    BY <1>1, <1>3
  <2>2. s[1].k = DIRECT + 2
    BY <2>1, FileBlocksAssumption
  <2>3. s[2].b = zone[f][DIRECT + 2] /\ s[2].b # NULL /\ s[3].b # NULL /\ s[2].k \in 1..PER /\ s[3].b = ptr[s[2].b][s[2].k]
    BY <1>1, <1>3, <2>1, <2>2
  <2>4. QED  BY <2>3 DEF InFile, Reaches
<1>4. ASSUME NEW i \in 2..Len(s) PROVE InFile(f, s[i].b)
  <2>1. (i = 2 /\ Len(s) > 1) \/ (i = 3 /\ Len(s) > 2)
    BY <1>1, TwoOrThree
  <2>2. QED  BY <1>2, <1>3, <2>1
<1>5. QED  BY <1>s, <1>f, <1>1, <1>4

LEMMA StackKept ==
  ASSUME NEW q \in Proc, StackFits(q), job'[q] = job[q],
         At(q, "free") => /\ zone'[job[q].f] = zone[job[q].f]
                          /\ \A c : InFile(job[q].f, c) => ptr'[c] = ptr[c]
  PROVE  StackFits(q)'
<1>s. PICK s : s = job[q].stack
  OBVIOUS
<1>f. PICK f : f = job[q].f
  OBVIOUS
<1>1. SUFFICES ASSUME At(q, "free") PROVE StackFits(q)'
  BY DEF StackFits, At
<1>2. /\ job[q].op = "truncate" /\ f \in File /\ job[q].nr = NULL /\ job[q].bh = NULL
      /\ Len(s) \in 1..3 /\ s[1].b = NULL
      /\ Len(s) > 1 => /\ s[1].k \in {DIRECT + 1, DIRECT + 2} /\ s[2].below = s[1].k - DIRECT
                       /\ s[2].b # NULL /\ s[2].b = zone[f][s[1].k]
      /\ Len(s) > 2 => /\ s[2].k \in 1..PER /\ s[2].below = 2 /\ s[3].below = 1
                       /\ s[3].b # NULL /\ s[3].b = ptr[s[2].b][s[2].k]
      /\ \A i \in 1..Len(s) : Passed(q, s[i])
  BY <1>s, <1>f, <1>1 DEF StackFits
<1>3. \A i \in 2..Len(s) : InFile(f, s[i].b)
  BY <1>s, <1>f, <1>1, StackInFile
<1>4. zone'[f] = zone[f] /\ \A i \in 2..Len(s) : ptr'[s[i].b] = ptr[s[i].b]
  BY <1>1, <1>3, <1>f
<1>5. Len(s) > 2 => 2 \in 2..Len(s)
  BY <1>2
<1>6. ASSUME NEW i \in 1..Len(s) PROVE Passed(q, s[i])'
  <2>1. s[i].b # NULL => i \in 2..Len(s)
    BY <1>2
  <2>2. Pointers(q, s[i])' = Pointers(q, s[i])
    BY <1>4, <1>f, <2>1 DEF Pointers
  <2>3. QED  BY <1>2, <2>2 DEF Passed
<1>7. QED  BY <1>s, <1>f, <1>2, <1>4, <1>5, <1>6 DEF StackFits

LEMMA OtherFits ==
  ASSUME Sound, NEW G, NEW v, Swaps(G, v), lost \subseteq lost', NEW q \in Proc, job'[q] = job[q],
         job[q].op = "write" => \A x \in G : x \in lost' \/ ~InFile(job[q].f, x),
         job[q].new # NULL => job[q].new \in zmap' /\ job[q].new \notin lost' /\ job[q].new # v,
         job[q].op = "truncate" => /\ zone'[job[q].f] = zone[job[q].f]
                                   /\ \A c : InFile(job[q].f, c) => ptr'[c] = ptr[c]
  PROVE  JobFits(q)'
<1>i. PICK i : i = job[q]
  OBVIOUS
<1>1. i \in Job /\ WalkFits(i) /\ WriterFits(i) /\ StackFits(q) /\ NewFits(i) /\ JobFits(q) /\ TypeOK /\ Unique
  BY <1>i, AtFits, SoundIs
<1>2. WriterFits(i)'
  <2>1. ASSUME NEW d, NEW b, i.op = "write", i.f \in File, Reaches(i.f, d, b) PROVE b \in lost' \/ Reaches(i.f, d, b)'
    <3>1. InFile(i.f, b)
      BY <2>1 DEF InFile, Reaches
    <3>2. b \in G \/ Reaches(i.f, d, b)'
      BY <1>1, <2>1, SwapReaches
    <3>3. QED  BY <1>i, <2>1, <3>1, <3>2
  <2>2. i.at \in Walking => i.f \in File
    BY <1>1 DEF WalkFits
  <2>3. ASSUME i.op = "write", i.at \in {"bmap", "getblk"}, i.level > 1
        PROVE  i.bh \in lost' \/ Reaches(i.f, Len(Way(i.n)) - i.level + 1, i.bh)'
    <3>1. i.bh \in lost \/ Reaches(i.f, Len(Way(i.n)) - i.level + 1, i.bh)
      BY <1>1, <2>3 DEF WriterFits
    <3>2. i.f \in File
      BY <2>2, <2>3 DEF Walking
    <3>3. QED  BY <2>1, <2>3, <3>1, <3>2
  <2>4. ASSUME i.op = "write", i.at = "bread"
        PROVE  i.nr \in lost' \/ Reaches(i.f, Len(Way(i.n)) - i.level, i.nr)'
    <3>1. i.nr \in lost \/ Reaches(i.f, Len(Way(i.n)) - i.level, i.nr)
      BY <1>1, <2>4 DEF WriterFits
    <3>2. i.f \in File
      BY <2>2, <2>4 DEF Walking
    <3>3. QED  BY <2>1, <2>4, <3>1, <3>2
  <2>5. QED  BY <2>3, <2>4 DEF WriterFits
<1>3. NewFits(i)'
  <2>1. i.new # NULL => i.new \in Block /\ ~Referenced(i.new)
    BY <1>1 DEF NewFits, TypeOK
  <2>2. i.new # NULL => ~Referenced(i.new)'
    BY <1>1, <1>i, <2>1, SwapFits
  <2>3. QED  BY <1>1, <1>i, <2>2 DEF NewFits
<1>4. StackFits(q)'
  <2>1. At(q, "free") => job[q].op = "truncate"
    BY <1>1 DEF StackFits
  <2>2. QED  BY <1>1, <2>1, StackKept
<1>5. QED  BY <1>1, <1>2, <1>3, <1>4, <1>i DEF JobFits, At, WalkFits

LEMMA Exclusive ==
  ASSUME NEW p \in Proc, NEW j, TypeOK, \A q, r \in Proc : q # r => Apart(q, r),
         job' = [job EXCEPT ![p] = j],
         j.new # NULL => \A q \in Proc \ {p} : j.new # job[q].new,
         \A q \in Proc \ {p} :
           /\ j.op = "truncate" => ~Changing(q, "write", j.f) /\ ~Changing(q, "truncate", j.f)
           /\ job[q].op = "truncate" => ~(j.op \in {"write", "truncate"} /\ j.f = job[q].f)
  PROVE  (\A q, r \in Proc : q # r => Apart(q, r))'
<1>1. job'[p] = j /\ \A q \in Proc \ {p} : job'[q] = job[q]
  BY DEF TypeOK
<1>2. SUFFICES ASSUME NEW q \in Proc, NEW r \in Proc, q # r PROVE Apart(q, r)'
  OBVIOUS
<1>3. CASE q # p /\ r # p
  <2>1. job'[q] = job[q] /\ job'[r] = job[r] /\ Apart(q, r)
    BY <1>1, <1>2, <1>3
  <2>2. QED  BY <2>1 DEF Apart, Changing
<1>4. CASE q = p
  <2>1. job'[q] = j /\ job'[r] = job[r] /\ r \in Proc \ {p}
    BY <1>1, <1>2, <1>4
  <2>2. QED  BY <2>1 DEF Apart, Changing
<1>5. CASE r = p
  <2>1. job'[r] = j /\ job'[q] = job[q] /\ q \in Proc \ {p}
    BY <1>1, <1>2, <1>5
  <2>2. job[q].new # NULL => job[q].new # j.new
    BY <2>1
  <2>3. QED  BY <2>1, <2>2 DEF Apart, Changing
<1>6. QED  BY <1>3, <1>4, <1>5

(* A step of p that neither allocates nor changes the tree. *)
LEMMA QuietStep ==
  ASSUME Sound, NEW p \in Proc, NEW j \in Job, job' = [job EXCEPT ![p] = j],
         UNCHANGED <<zmap, zone, ptr, lost>>, data' \subseteq Block, size' \in [File -> Nat], calls' \in Nat,
         panicked' \in BOOLEAN, mixed' \in BOOLEAN,
         job[p].new = NULL, j.new = NULL, j.at # "getblk",
         j.at = "out" => j = Out, WalkFits(j), WriterFits(j), StackFits(p)',
         \A q \in Proc \ {p} :
           /\ j.op = "truncate" => ~Changing(q, "write", j.f) /\ ~Changing(q, "truncate", j.f)
           /\ job[q].op = "truncate" => ~(j.op \in {"write", "truncate"} /\ j.f = job[q].f)
  PROVE  Sound'
<1>1. TypeOK /\ Unique /\ TreeFits /\ LostFits /\ \A q, r \in Proc : q # r => Apart(q, r)
  BY SoundIs
<1>2. job'[p] = j /\ \A q \in Proc \ {p} : job'[q] = job[q]
  BY <1>1 DEF TypeOK
<1>3. TypeOK'
  BY <1>1 DEF TypeOK
<1>4. Inner' = Inner /\ \A b : Children(b)' = Children(b)
  BY DEF Inner, Single, Double, Roots, Children
<1>5. Unique' /\ \A b : Referenced(b)' <=> Referenced(b)
  BY <1>1, <1>4 DEF Unique, Referenced
<1>6. \A f, d, b : Reaches(f, d, b)' <=> Reaches(f, d, b)
  BY DEF Reaches
<1>7. \A q \in Proc : job'[q].new = job[q].new
  BY <1>2
<1>8. TreeFits' /\ LostFits'
  BY <1>1, <1>4, <1>5, <1>7 DEF TreeFits, LostFits
<1>9. ASSUME NEW q \in Proc \ {p} PROVE JobFits(q)'
  <2>1. Swaps({}, NULL)
    BY SameSwaps
  <2>2. job[q].new # NULL => job[q].new \in zmap /\ job[q].new \notin lost
    BY AtFits DEF NewFits
  <2>3. PICK G : G = {}
    OBVIOUS
  <2>4. QED  BY <1>2, <2>1, <2>2, <2>3, OtherFits
<1>10. JobFits(p)'
  <2>1. WriterFits(j)'
    BY <1>6 DEF WriterFits
  <2>2. QED  BY <1>2, <2>1 DEF JobFits, At, NewFits, WalkFits
<1>11. (\A q, r \in Proc : q # r => Apart(q, r))'
  BY <1>1, Exclusive
<1>12. QED  BY <1>2, <1>3, <1>8, <1>9, <1>10, <1>11 DEF Sound, Fits

LEMMA MaxOfTwo == ASSUME NEW x \in Nat, NEW y \in Nat PROVE Max({x, y}) \in Nat
<1> DEFINE z == IF x >= y THEN x ELSE y
<1>1. z \in {x, y} /\ \A u \in {x, y} : z >= u
  OBVIOUS
<1>2. Max({x, y}) \in {x, y}
  BY <1>1 DEF Max
<1>3. QED  BY <1>2

LEMMA OutFits == Out \in Job /\ Out.at = "out" /\ Out.op = "out" /\ Out.new = NULL
<1>1. <<>> \in Seq(Frames)
  OBVIOUS
<1>2. QED  BY <1>1 DEF Out, Job, Pointed, NULL

LEMMA Returned ==
  ASSUME Sound, NEW p \in Proc, Return(p), UNCHANGED <<zmap, zone, ptr, lost>>, data' \subseteq Block,
         size' \in [File -> Nat], calls' \in Nat, panicked' \in BOOLEAN, mixed' \in BOOLEAN, job[p].new = NULL
  PROVE  Sound'
<1>1. job' = [job EXCEPT ![p] = Out] /\ job'[p] = Out
  BY SoundIs DEF Return, TypeOK
<1>2. StackFits(p)' /\ WalkFits(Out) /\ WriterFits(Out)
  BY <1>1, OutFits DEF StackFits, At, WalkFits, WriterFits, Walking
<1>3. QED  BY <1>1, <1>2, OutFits, QuietStep

(* The same call goes on. *)
LEMMA GoesOn ==
  ASSUME Sound, NEW p \in Proc, NEW j \in Job, j.op = job[p].op, j.f = job[p].f, NEW q \in Proc \ {p}
  PROVE  /\ j.op = "truncate" => ~Changing(q, "write", j.f) /\ ~Changing(q, "truncate", j.f)
         /\ job[q].op = "truncate" => ~(j.op \in {"write", "truncate"} /\ j.f = job[q].f)
<1>1. Apart(p, q) /\ Apart(q, p)
  BY SoundIs
<1>2. QED  BY <1>1 DEF Apart, Changing

LEMMA Levels ==
  ASSUME NEW m \in 1..3, NEW l \in 1..m, l # 1
  PROVE  l \in 2..3 /\ l \in 2..m /\ l > 1
  OBVIOUS

LEMMA LevelUp ==
  ASSUME NEW m \in 1..3, NEW l \in 1..m, l < m
  PROVE  l + 1 \in 0..3 /\ l + 1 \in 1..m /\ l + 1 # 1 /\ m - (l + 1) + 1 = m - l
         /\ (l = 1 => (m = 2 /\ m - l = 1) \/ (m = 3 /\ m - l = 2))
         /\ (l # 1 => l = 2 /\ m = 3 /\ m - l = 1 /\ m - l + 1 = 2)
  OBVIOUS

LEMMA PointerFits ==
  ASSUME TypeOK, NEW j \in Job, WalkFits(j), j.at \in {"bmap", "getblk"}
  PROVE  /\ j.f \in File /\ j.n \in Number /\ j.level \in 1..Len(Way(j.n)) /\ Len(Way(j.n)) \in 1..3
         /\ Pointer(j) \in Pointed
         /\ j.level = 1 => Index(j) = Way(j.n)[1] /\ Index(j) \in InInode /\ j.bh = NULL
         /\ j.level # 1 => Index(j) \in 1..PER /\ j.bh \in Block /\ j.level > 1
<1>1. /\ j.f \in File /\ j.n \in Number /\ j.level \in 1..Len(Way(j.n)) /\ Len(Way(j.n)) \in 1..3
      /\ IF j.level = 1 THEN j.bh = NULL ELSE j.bh \in Block
  BY WayFits DEF WalkFits, Walking
<1>2. CASE j.level = 1
  <2>1. Index(j) = Way(j.n)[1] /\ Index(j) \in InInode
    BY <1>1, <1>2, WayFits DEF Index, InInode
  <2>2. QED  BY <1>1, <1>2, <2>1, PointersFit DEF Pointer
<1>3. CASE j.level # 1
  <2>1. j.level \in 2..Len(Way(j.n)) /\ j.level > 1
    BY <1>1, <1>3, Levels
  <2>2. Index(j) \in 1..PER
    BY <1>1, <2>1, WayFits DEF Index
  <2>3. QED  BY <1>1, <1>3, <2>1, <2>2, PointersFit DEF Pointer
<1>4. QED  BY <1>2, <1>3

LEMMA FollowedFits ==
  ASSUME NEW j \in Job, WalkFits(j), j.at \in {"bmap", "getblk"}, NEW b \in Block
  PROVE  /\ Followed(j, b) \in Job /\ Followed(j, b).at \in {"bread", "data"}
         /\ Followed(j, b).new = NULL /\ Followed(j, b).op = j.op /\ Followed(j, b).f = j.f
         /\ Followed(j, b).n = j.n /\ Followed(j, b).level = j.level /\ Followed(j, b).nr = b
         /\ Followed(j, b).at = "bread" => j.level < Len(Way(j.n))
         /\ WalkFits(Followed(j, b))
<1> DEFINE i == Followed(j, b)
<1>1. /\ i \in Job /\ i.at = IF j.level = Len(Way(j.n)) THEN "data" ELSE "bread"
      /\ i.new = NULL /\ i.op = j.op /\ i.f = j.f /\ i.n = j.n /\ i.level = j.level /\ i.bh = NULL
      /\ i.nr = b /\ i.stack = j.stack
  BY DEF Followed, Job, Pointed
<1>2. /\ j.op \in {"read", "write"} /\ j.f \in File /\ j.n \in Number /\ j.stack = <<>>
      /\ j.level \in 1..Len(Way(j.n)) /\ Len(Way(j.n)) \in 1..3
  BY WayFits DEF WalkFits, Walking
<1> HIDE DEF i
<1>3. i.at = "bread" => i.level < Len(Way(i.n))
  BY <1>1, <1>2
<1>4. WalkFits(i)
  BY <1>1, <1>2, <1>3 DEF WalkFits
<1>6. QED  BY <1>1, <1>3, <1>4 DEF i

(* The pointer leads on in the file, or from a lost block to a lost block. *)
LEMMA PointerReaches ==
  ASSUME TypeOK, LostFits, NEW j \in Job, WalkFits(j), WriterFits(j), j.op = "write", j.at \in {"bmap", "getblk"},
         Pointer(j) # NULL, j.level < Len(Way(j.n))
  PROVE  Pointer(j) \in lost \/ Reaches(j.f, Len(Way(j.n)) - j.level, Pointer(j))
<1>1. /\ j.f \in File /\ j.n \in Number /\ j.level \in 1..Len(Way(j.n)) /\ Len(Way(j.n)) \in 1..3
      /\ j.level = 1 => Index(j) = Way(j.n)[1]
      /\ j.level # 1 => Index(j) \in 1..PER /\ j.bh \in Block /\ j.level > 1
  BY PointerFits
<1>2. /\ (j.level = 1 => \/ Len(Way(j.n)) = 2 /\ Len(Way(j.n)) - j.level = 1
                         \/ Len(Way(j.n)) = 3 /\ Len(Way(j.n)) - j.level = 2)
      /\ (j.level # 1 => j.level = 2 /\ Len(Way(j.n)) = 3 /\ Len(Way(j.n)) - j.level = 1 /\ Len(Way(j.n)) - j.level + 1 = 2)
  BY <1>1, LevelUp
<1>3. CASE j.level = 1
  <2>1. Pointer(j) = zone[j.f][Way(j.n)[1]]
    BY <1>1, <1>3 DEF Pointer
  <2>2. /\ Len(Way(j.n)) = 2 => Way(j.n)[1] = DIRECT + 1
        /\ Len(Way(j.n)) = 3 => Way(j.n)[1] = DIRECT + 2
    BY <1>1, WayFits
  <2>3. QED  BY <1>2, <1>3, <2>1, <2>2 DEF Reaches
<1>4. CASE j.level # 1
  <2>1. Pointer(j) = ptr[j.bh][Index(j)] /\ Index(j) \in 1..PER
    BY <1>1, <1>4 DEF Pointer
  <2>2. j.bh \in lost \/ Reaches(j.f, 2, j.bh)
    BY <1>1, <1>2, <1>4 DEF WriterFits
  <2>3. CASE j.bh \in lost
    <3>1. Pointer(j) \in Children(j.bh)
      BY <2>1, ChildIs
    <3>2. QED  BY <2>3, <3>1 DEF LostFits
  <2>4. CASE Reaches(j.f, 2, j.bh)
    <3>1. j.bh = zone[j.f][DIRECT + 2] /\ j.bh # NULL
      BY <2>4 DEF Reaches
    <3>2. Reaches(j.f, 1, Pointer(j))
      BY <2>1, <3>1 DEF Reaches
    <3>3. QED  BY <1>2, <1>4, <3>2
  <2>5. QED  BY <2>2, <2>3, <2>4
<1>5. QED  BY <1>3, <1>4

(***************************************************************************)
(* Reading and writing.                                                    *)
(***************************************************************************)
LEMMA NotedFit == ASSUME TypeOK, UNCHANGED noted PROVE panicked' \in BOOLEAN /\ mixed' \in BOOLEAN
  BY Zenon DEF TypeOK, noted

LEMMA BmapReadStep == ASSUME Sound, NEW p \in Proc, BmapRead(p) PROVE Sound'
<1>1. /\ job[p] \in Job /\ WalkFits(job[p]) /\ WriterFits(job[p]) /\ job[p].at = "bread" /\ job[p].new = NULL /\ TypeOK
      /\ UNCHANGED <<tree, size, calls, noted>>
  BY AtFits, SoundIs DEF BmapRead, At
<1>2. /\ UNCHANGED <<zmap, zone, ptr, lost>> /\ data' \subseteq Block /\ size' \in [File -> Nat] /\ calls' \in Nat
      /\ panicked' \in BOOLEAN /\ mixed' \in BOOLEAN
  BY <1>1, NotedFit DEF tree, TypeOK
<1>3. CASE Return(p)
  BY <1>1, <1>2, <1>3, Returned
<1> DEFINE j == [job[p] EXCEPT !.at = "bmap", !.bh = job[p].nr, !.nr = NULL, !.level = @ + 1]
<1>4. CASE job' = [job EXCEPT ![p] = j]
  <2>1. /\ job[p].op \in {"read", "write"} /\ job[p].f \in File /\ job[p].n \in Number /\ job[p].stack = <<>>
        /\ job[p].level \in 1..Len(Way(job[p].n)) /\ Len(Way(job[p].n)) \in 1..3
        /\ job[p].level < Len(Way(job[p].n)) /\ job[p].nr \in Block
    BY <1>1, WayFits DEF WalkFits, Walking
  <2>2. job[p].level + 1 \in 0..3 /\ job[p].level + 1 \in 1..Len(Way(job[p].n)) /\ job[p].level + 1 # 1
        /\ Len(Way(job[p].n)) - (job[p].level + 1) + 1 = Len(Way(job[p].n)) - job[p].level
    BY <2>1, LevelUp
  <2>3. /\ j \in Job /\ j.at = "bmap" /\ j.new = NULL /\ j.op = job[p].op /\ j.f = job[p].f /\ j.n = job[p].n
        /\ j.level = job[p].level + 1 /\ j.bh = job[p].nr /\ j.nr = NULL /\ j.stack = job[p].stack
    BY <1>1, <2>2 DEF Job, Pointed
  <2>4. job'[p] = j
    BY <1>1, <1>4 DEF TypeOK
  <2> HIDE DEF j
  <2>5. WalkFits(j)
    BY <2>1, <2>2, <2>3 DEF WalkFits
  <2>6. StackFits(p)'
    BY <2>3, <2>4 DEF StackFits, At
  <2>7. WriterFits(j)
    BY <1>1, <2>2, <2>3 DEF WriterFits
  <2>8. QED  BY <1>1, <1>2, <1>4, <2>3, <2>5, <2>6, <2>7, GoesOn, QuietStep
<1>5. QED  BY <1>3, <1>4 DEF BmapRead

LEMMA ReadWriteStep == ASSUME Sound, NEW p \in Proc, ReadWrite(p) PROVE Sound'
<1>1. /\ job[p] \in Job /\ WalkFits(job[p]) /\ job[p].at = "data" /\ job[p].new = NULL /\ TypeOK
      /\ UNCHANGED <<tree, calls, noted>>
  BY AtFits, SoundIs DEF ReadWrite, At
<1>2. /\ UNCHANGED <<zmap, zone, ptr, lost>> /\ data' \subseteq Block /\ calls' \in Nat
      /\ panicked' \in BOOLEAN /\ mixed' \in BOOLEAN
  BY <1>1, NotedFit DEF tree, TypeOK
<1>3. CASE Return(p) /\ UNCHANGED size
  BY <1>1, <1>2, <1>3, Returned DEF TypeOK
<1> DEFINE j == [job[p] EXCEPT !.at = "copy", !.bh = job[p].nr, !.nr = NULL]
<1>4. CASE /\ job' = [job EXCEPT ![p] = j]
           /\ size' = IF job[p].op = "write" THEN [size EXCEPT ![job[p].f] = Max({@, job[p].n + 1})] ELSE size
  <2>1. /\ job[p].op \in {"read", "write"} /\ job[p].f \in File /\ job[p].n \in Number /\ job[p].stack = <<>>
        /\ job[p].level \in 1..Len(Way(job[p].n)) /\ job[p].nr \in Block
    BY <1>1 DEF WalkFits, Walking
  <2>2. size' \in [File -> Nat]
    <3>1. job[p].n + 1 \in Nat /\ size \in [File -> Nat] /\ size[job[p].f] \in Nat
      BY <1>1, <2>1, WayFits DEF TypeOK
    <3>2. Max({size[job[p].f], job[p].n + 1}) \in Nat
      BY <3>1, MaxOfTwo
    <3>3. QED  BY <1>4, <3>1, <3>2
  <2>3. /\ j \in Job /\ j.at = "copy" /\ j.new = NULL /\ j.op = job[p].op /\ j.f = job[p].f /\ j.n = job[p].n
        /\ j.level = job[p].level /\ j.bh = job[p].nr /\ j.nr = NULL /\ j.stack = job[p].stack
    BY <1>1 DEF Job, Pointed
  <2>4. job'[p] = j
    BY <1>1, <1>4 DEF TypeOK
  <2> HIDE DEF j
  <2>5. WalkFits(j) /\ WriterFits(j)
    BY <2>1, <2>3 DEF WalkFits, WriterFits
  <2>6. StackFits(p)'
    BY <2>3, <2>4 DEF StackFits, At
  <2>7. QED  BY <1>1, <1>2, <1>4, <2>2, <2>3, <2>5, <2>6, GoesOn, QuietStep
<1>5. QED  BY <1>3, <1>4 DEF ReadWrite

LEMMA CopiedStep == ASSUME Sound, NEW p \in Proc, Copied(p) PROVE Sound'
<1>1. /\ job[p] \in Job /\ WalkFits(job[p]) /\ job[p].at = "copy" /\ job[p].new = NULL /\ TypeOK /\ Return(p)
      /\ UNCHANGED <<zmap, zone, ptr, size, calls, lost, noted>>
      /\ data' = IF job[p].op = "write" THEN data \cup {job[p].bh} ELSE data
  BY AtFits, SoundIs DEF Copied, At
<1>2. job[p].bh \in Block
  BY <1>1 DEF WalkFits, Walking
<1>3. /\ data' \subseteq Block /\ size' \in [File -> Nat] /\ calls' \in Nat
      /\ panicked' \in BOOLEAN /\ mixed' \in BOOLEAN
  BY <1>1, <1>2, NotedFit DEF TypeOK
<1>4. QED  BY <1>1, <1>3, Returned

(* The call may come while the file is truncated: mixed. *)
LEMMA StartStep ==
  ASSUME Sound, NEW p \in Proc, NEW op \in {"read", "write"}, NEW f \in File, NEW n \in Number, Start(p, op, f, n)
  PROVE  TypeOK' /\ (~mixed' => Sound')
<1>1. /\ job[p] \in Job /\ job[p].at = "out" /\ job[p].new = NULL /\ TypeOK /\ calls' = calls + 1
      /\ UNCHANGED <<tree, size, panicked>>
  BY AtFits, SoundIs DEF Start, At
<1>2. /\ UNCHANGED <<zmap, zone, ptr, lost>> /\ data' \subseteq Block /\ size' \in [File -> Nat] /\ calls' \in Nat
  BY <1>1 DEF tree, TypeOK
<1>3. panicked' \in BOOLEAN /\ mixed' \in BOOLEAN
  BY <1>1, Zenon DEF Start, TypeOK
<1> DEFINE j == [Out EXCEPT !.op = op, !.at = "bmap", !.f = f, !.n = n, !.level = 1]
<1>4. job' = [job EXCEPT ![p] = j] /\ job'[p] = j
  BY <1>1 DEF Start, TypeOK
<1>5. /\ j \in Job /\ j.at = "bmap" /\ j.new = NULL /\ j.op = op /\ j.f = f /\ j.n = n /\ j.level = 1
      /\ j.bh = NULL /\ j.nr = NULL /\ j.stack = <<>>
  <2>1. [Out EXCEPT !.op = op, !.at = "bmap", !.f = f, !.n = n] \in Job
    BY OutFits DEF Job
  <2>2. ASSUME NEW i \in Job, NEW l \in 0..3 PROVE [i EXCEPT !.level = l] \in Job
    BY <2>2 DEF Job
  <2>3. j \in Job
    BY <2>1, <2>2, 1 \in 0..3
  <2>4. QED  BY <2>3 DEF Out
<1> HIDE DEF j
<1>6. 1 \in 1..Len(Way(n)) /\ ~(1 > 1)
  BY WayFits
<1>7. WalkFits(j) /\ WriterFits(j)
  BY <1>5, <1>6 DEF WalkFits, WriterFits
<1>8. StackFits(p)'
  BY <1>4, <1>5 DEF StackFits, At
<1>9. TypeOK'
  BY <1>1, <1>2, <1>3, <1>4, <1>5 DEF TypeOK
<1>10. ASSUME ~mixed' PROVE Sound'
  <2>1. op = "read" \/ \A q \in Proc : ~Changing(q, "truncate", f)
    BY <1>10 DEF Start
  <2>2. \A q \in Proc \ {p} :
          /\ j.op = "truncate" => ~Changing(q, "write", j.f) /\ ~Changing(q, "truncate", j.f)
          /\ job[q].op = "truncate" => ~(j.op \in {"write", "truncate"} /\ j.f = job[q].f)
    BY <1>5, <2>1 DEF Changing
  <2>3. QED  BY <1>1, <1>2, <1>3, <1>4, <1>5, <1>7, <1>8, <2>2, QuietStep
<1>11. QED  BY <1>9, <1>10

LEMMA BlocksAreNumbers == Block \subseteq Nat
  BY FileBlocksAssumption DEF Block

LEMMA MinLeast ==
  ASSUME NEW S \in SUBSET Nat, S # {} PROVE Min(S) \in S /\ \A x \in S : Min(S) <= x
<1> DEFINE R == {ij \in Nat \X Nat : ij[1] < ij[2]}
<1>1. IsWellFoundedOn(R, Nat)
  BY NatLessThanWellFounded DEF OpToRel
<1>2. PICK m \in S : \A j \in S : <<j, m>> \notin R
  <2> HIDE DEF R
  <2> QED BY <1>1, WFMin
<1>3. ASSUME NEW j \in S PROVE m <= j
  <2>1. m \in Nat /\ j \in Nat /\ <<j, m>> \in Nat \X Nat
    OBVIOUS
  <2>2. ~(j < m)
    BY <1>2, <2>1
  <2>3. QED  BY <2>1, <2>2
<1>4. QED  BY <1>3 DEF Min

(* What _bmap finds is what is there, unless it is a reader. *)
LEMMA BmapStep == ASSUME Sound, NEW p \in Proc, Bmap(p) PROVE Sound'
<1> DEFINE j == job[p]
<1>1. /\ j \in Job /\ WalkFits(j) /\ WriterFits(j) /\ j.at = "bmap" /\ j.new = NULL /\ TypeOK /\ LostFits
      /\ Pointer(j) \in Pointed
  BY AtFits, PointerFits, SoundIs DEF Bmap, At
<1>2. j.op \in {"read", "write"} /\ j.f \in File /\ j.n \in Number /\ j.stack = <<>>
  BY <1>1 DEF WalkFits, Walking
<1>3. /\ UNCHANGED <<zone, ptr, lost, data>> /\ data' \subseteq Block /\ size' \in [File -> Nat] /\ calls' \in Nat
      /\ panicked' \in BOOLEAN /\ mixed' \in BOOLEAN /\ UNCHANGED <<size, calls>>
  BY <1>1, NotedFit DEF Bmap, TypeOK
<1>4. CASE Return(p) /\ UNCHANGED zmap
  BY <1>1, <1>3, <1>4, Returned
<1>5. ASSUME NEW b \in Found(j), b # NULL, job' = [job EXCEPT ![p] = Followed(j, b)], UNCHANGED zmap PROVE Sound'
  <2> DEFINE i == Followed(j, b)
  <2>1. b \in Block /\ (j.op = "write" => b = Pointer(j))
    BY <1>1, <1>5 DEF Found, Pointed
  <2>2. /\ i \in Job /\ i.at \in {"bread", "data"} /\ i.new = NULL /\ i.op = j.op /\ i.f = j.f
        /\ i.n = j.n /\ i.level = j.level /\ i.nr = b
        /\ i.at = "bread" => j.level < Len(Way(j.n))
        /\ WalkFits(i)
    BY <1>1, <2>1, FollowedFits
  <2>3. job' = [job EXCEPT ![p] = i] /\ job'[p] = i
    BY <1>1, <1>5 DEF TypeOK
  <2> HIDE DEF i
  <2>4. StackFits(p)'
    BY <2>2, <2>3 DEF StackFits, At
  <2>5. WriterFits(i)
    <3>1. ASSUME i.op = "write", i.at = "bread" PROVE b \in lost \/ Reaches(j.f, Len(Way(j.n)) - j.level, b)
      BY <1>1, <1>5, <2>1, <2>2, <3>1, PointerReaches
    <3>2. QED  BY <2>2, <3>1 DEF WriterFits
  <2>6. \A q \in Proc \ {p} :
          /\ i.op = "truncate" => ~Changing(q, "write", i.f) /\ ~Changing(q, "truncate", i.f)
          /\ job[q].op = "truncate" => ~(i.op \in {"write", "truncate"} /\ i.f = job[q].f)
    BY <2>2, GoesOn
  <2>7. i.at # "out" /\ i.at # "getblk"
    BY <2>2
  <2>8. QED  BY <1>1, <1>3, <1>5, <2>2, <2>3, <2>4, <2>5, <2>6, <2>7, QuietStep
<1>6. ASSUME j.op = "write", zmap # Block, NEW b \in {Min(Block \ zmap)},
             zmap' = zmap \cup {b}, job' = [job EXCEPT ![p] = [j EXCEPT !.at = "getblk", !.new = b]]
      PROVE  Sound'
  <2>0. PICK i : i = [j EXCEPT !.at = "getblk", !.new = b]
    OBVIOUS
  <2>1. b \in Block /\ b \notin zmap /\ b # NULL
    <3>1. Block \ zmap \in SUBSET Nat /\ Block \ zmap # {}
      BY <1>1, <1>6, BlocksAreNumbers DEF TypeOK
    <3>2. b \in Block \ zmap
      BY <1>6, <3>1, MinLeast
    <3>3. QED  BY <3>2, Last
  <2>2. /\ i \in Job /\ i.at = "getblk" /\ i.new = b /\ i.op = j.op /\ i.f = j.f /\ i.n = j.n /\ i.level = j.level
        /\ i.bh = j.bh /\ i.nr = j.nr /\ i.stack = j.stack
    BY <1>1, <2>0, <2>1 DEF Job, Pointed
  <2>3. job' = [job EXCEPT ![p] = i] /\ job'[p] = i /\ \A q \in Proc \ {p} : job'[q] = job[q]
    BY <1>1, <1>6, <2>0 DEF TypeOK
  <2>4. TypeOK'
    <3>1. zmap' \subseteq Block /\ job' \in [Proc -> Job]
      BY <1>1, <1>6, <2>1, <2>2, <2>3 DEF TypeOK
    <3>2. QED  BY <1>1, <1>3, <3>1 DEF TypeOK
  <2>5. /\ Unique /\ TreeFits
        /\ \A d \in Block : Referenced(d) => d \in zmap /\ d \notin lost
        /\ \A d \in zmap : Referenced(d) \/ d \in lost \/ \E q \in Proc : job[q].new = d
        /\ \A q, r \in Proc : q # r => Apart(q, r)
    BY SoundIs
  <2>6. Inner' = Inner /\ (\A d : Children(d)' = Children(d)) /\ \A d : Referenced(d)' <=> Referenced(d)
    <3>1. Inner' = Inner
      BY <1>3 DEF Inner, Single, Double, Roots
    <3>2. \A d : Children(d)' = Children(d)
      BY <1>3 DEF Children
    <3>3. \A d : Referenced(d)' <=> Referenced(d)
      BY <1>3, <3>1 DEF Referenced
    <3>4. QED  BY <3>1, <3>2, <3>3
  <2>7. Unique'
    BY <1>3, <2>5, <2>6 DEF Unique
  <2>8. TreeFits'
    <3>1. ASSUME NEW d \in zmap', ~Referenced(d), d \notin lost PROVE \E q \in Proc : job'[q].new = d
      <4>1. CASE d = b
        BY <2>2, <2>3, <4>1
      <4>2. CASE d # b
        <5>1. d \in zmap /\ d # NULL
          BY <1>1, <1>6, <4>2, Last DEF TypeOK
        <5>2. PICK q \in Proc : job[q].new = d
          BY <2>5, <3>1, <5>1
        <5>3. q # p
          BY <1>1, <5>1, <5>2
        <5>4. QED  BY <2>3, <5>2, <5>3
      <4>3. QED  BY <4>1, <4>2
    <3>2. \A d \in Block : Referenced(d)' => d \in zmap' /\ d \notin lost'
      BY <1>3, <1>6, <2>5, <2>6
    <3>3. \A d \in Block : Referenced(d)' /\ d \notin Inner' => Children(d)' = {}
      BY <2>5, <2>6 DEF TreeFits
    <3>4. \A d \in zmap' : Referenced(d)' \/ d \in lost' \/ \E q \in Proc : job'[q].new = d
      BY <1>3, <2>6, <3>1
    <3>5. QED  BY <2>7, <3>2, <3>3, <3>4 DEF TreeFits
  <2>9. LostFits'
    BY <1>1, <1>3, <1>6, <2>6 DEF LostFits
  <2>10. b \notin lost
    BY <1>1, <2>1 DEF LostFits
  <2>11. ASSUME NEW q \in Proc \ {p} PROVE JobFits(q)'
    <3>1. PICK G : G = {}
      OBVIOUS
    <3>2. Swaps(G, NULL)
      BY <1>3, <3>1, SameSwaps
    <3>3. job[q].new # NULL => job[q].new \in zmap' /\ job[q].new \notin lost'
      BY <1>3, <1>6, AtFits DEF NewFits
    <3>4. job'[q] = job[q]
      BY <2>3
    <3>5. QED  BY <1>3, <3>1, <3>2, <3>3, <3>4, OtherFits
  <2>12. JobFits(p)'
    <3>1. WalkFits(i)
      BY <1>1, <1>6, <2>2 DEF WalkFits, Walking
    <3>2. \A f, d, x : Reaches(f, d, x)' <=> Reaches(f, d, x)
      BY <1>3 DEF Reaches
    <3>3. WriterFits(i)'
      BY <1>1, <1>3, <2>2, <3>2 DEF WriterFits
    <3>4. NewFits(i)'
      BY <1>3, <1>6, <2>1, <2>2, <2>5, <2>6, <2>10 DEF NewFits
    <3>5. QED  BY <2>2, <2>3, <3>1, <3>3, <3>4 DEF JobFits, At, StackFits, WalkFits
  <2>13. (\A q, r \in Proc : q # r => Apart(q, r))'
    <3>1. \A q \in Proc \ {p} : i.new # job[q].new
      BY <2>1, <2>2, AtFits DEF NewFits
    <3>2. \A q \in Proc \ {p} :
            /\ i.op = "truncate" => ~Changing(q, "write", i.f) /\ ~Changing(q, "truncate", i.f)
            /\ job[q].op = "truncate" => ~(i.op \in {"write", "truncate"} /\ i.f = job[q].f)
      BY <2>2, GoesOn
    <3>3. TypeOK /\ job' = [job EXCEPT ![p] = i]
      BY <1>1, <2>3
    <3>4. (\A q, r \in Proc : q # r => Apart(q, r)) /\ (i.new # NULL => \A q \in Proc \ {p} : i.new # job[q].new)
      BY <3>1, SoundIs
    <3>5. QED  BY <3>2, <3>3, <3>4, Exclusive
  <2>14. QED  BY <2>3, <2>4, <2>8, <2>9, <2>11, <2>12, <2>13 DEF Sound, Fits
<1>7. QED  BY <1>4, <1>5, <1>6 DEF Bmap

(***************************************************************************)
(* A new block: the end of minix_new_block.                                *)
(***************************************************************************)
LEMMA NewSets ==
  ASSUME Sound, NEW p \in Proc, NewBlock(p), ~panicked', NEW j, j = job[p],
         NEW e, e = IF j.level = 1 THEN NULL ELSE j.bh
  PROVE  /\ j \in Job /\ WalkFits(j) /\ WriterFits(j) /\ j.at = "getblk" /\ j.op = "write" /\ j.f \in File
         /\ j.new \in Block /\ j.new \in zmap /\ j.new \notin lost /\ ~Referenced(j.new) /\ j.new # NULL
         /\ SetAt(j.f, e, Index(j), j.new) /\ Pointer(j) = Slot(j.f, e, Index(j))
         /\ lost' = lost \cup Drop(j) /\ job' = [job EXCEPT ![p] = Followed(j, j.new)]
         /\ data' \subseteq Block
         /\ UNCHANGED <<zmap, panicked, size, calls, mixed>>
<1>v. PICK v : v = j.new
  OBVIOUS
<1>k. PICK k : k = Index(j)
  OBVIOUS
<1>1. /\ j \in Job /\ WalkFits(j) /\ WriterFits(j) /\ j.at = "getblk" /\ NewFits(j) /\ TypeOK /\ LostFits
      /\ \A b \in Block : Referenced(b) => b \in zmap /\ b \notin lost
  BY AtFits, SoundIs DEF NewBlock, At
<1>2. j.op = "write" /\ v \in Block /\ v \in zmap /\ v \notin lost /\ ~Referenced(v) /\ v # NULL
  BY <1>1, <1>v, Last DEF WalkFits, Walking, NewFits, TypeOK
<1>3. /\ j.f \in File /\ j.level \in 1..Len(Way(j.n)) /\ Len(Way(j.n)) \in 1..3
      /\ j.level = 1 => k \in InInode
      /\ j.level # 1 => k \in 1..PER /\ j.bh \in Block /\ j.level > 1
  BY <1>1, <1>k, PointerFits
<1>4. /\ IF j.level = 1
         THEN zone' = [zone EXCEPT ![j.f][k] = v] /\ ptr' = [ptr EXCEPT ![v] = NoPtr]
         ELSE ptr' = [[ptr EXCEPT ![v] = NoPtr] EXCEPT ![j.bh][k] = v] /\ UNCHANGED zone
      /\ data' = data \ {v} /\ lost' = lost \cup Drop(j) /\ job' = [job EXCEPT ![p] = Followed(j, v)]
      /\ UNCHANGED <<zmap, panicked, size, calls, mixed>>
  BY <1>v, <1>k DEF NewBlock
<1>5. j.level # 1 => j.bh # v
  <2>1. ASSUME j.level # 1, j.bh \notin lost PROVE InFile(j.f, j.bh)
    BY <1>1, <1>2, <1>3, <2>1 DEF WriterFits, InFile, Reaches
  <2>2. ASSUME j.level # 1, j.bh \notin lost PROVE Referenced(j.bh)
    BY <1>3, <2>1, <2>2, InFileIsInner, InnerIsReferenced
  <2>3. QED  BY <1>2, <2>2
<1>6. zone \in [File -> [InInode -> Pointed]] /\ ptr \in [Block -> [1..PER -> Pointed]] /\ v \in Pointed
  BY <1>1, <1>2 DEF TypeOK, InInode, Pointed
<1>7. NoPtr \in [1..PER -> Pointed]
  BY DEF NoPtr, Pointed
<1>8. CASE j.level = 1
  <2>1. zone' = [zone EXCEPT ![j.f][k] = v] /\ ptr' = [ptr EXCEPT ![v] = NoPtr] /\ k \in InInode /\ e = NULL
    BY <1>3, <1>4, <1>8
  <2>2. /\ zone' \in [File -> [InInode -> Pointed]] /\ \A g \in File : g # j.f => zone'[g] = zone[g]
        /\ zone'[j.f] = [zone[j.f] EXCEPT ![k] = v]
    BY <1>3, <1>6, <2>1
  <2>3. ptr' \in [Block -> [1..PER -> Pointed]] /\ ptr'[v] = NoPtr /\ \A d \in Block \ {v} : ptr'[d] = ptr[d]
    BY <1>2, <1>6, <1>7, <2>1
  <2>4. SetAt(j.f, e, k, v)
    BY <1>2, <2>1, <2>2, <2>3 DEF SetAt
  <2>5. Pointer(j) = Slot(j.f, e, k)
    BY <1>8, <1>k, <2>1 DEF Pointer, Slot
  <2>6. data' \subseteq Block
    BY <1>1, <1>4 DEF TypeOK
  <2>7. QED  BY <1>1, <1>2, <1>3, <1>4, <1>v, <1>k, <2>4, <2>5, <2>6
<1>9. CASE j.level # 1
  <2>1. zone' = zone /\ ptr' = [[ptr EXCEPT ![v] = NoPtr] EXCEPT ![j.bh][k] = v] /\ k \in 1..PER /\ e = j.bh /\ e \in Block
    BY <1>3, <1>4, <1>9
  <2>2. PICK new : new = [ptr EXCEPT ![v] = NoPtr]
    OBVIOUS
  <2>3. new \in [Block -> [1..PER -> Pointed]] /\ new[v] = NoPtr /\ \A d \in Block \ {v} : new[d] = ptr[d]
    BY <1>2, <1>6, <1>7, <2>2
  <2>4. ptr' = [new EXCEPT ![e][k] = v] /\ e # v /\ e # NULL
    BY <1>5, <1>9, <2>1, <2>2, Last
  <2>5. ptr' \in [Block -> [1..PER -> Pointed]]
    BY <1>6, <2>1, <2>3, <2>4
  <2>6. ptr'[v] = NoPtr /\ (\A d \in Block \ {v} : d # e => ptr'[d] = ptr[d]) /\ ptr'[e] = [ptr[e] EXCEPT ![k] = v]
    BY <1>2, <2>1, <2>3, <2>4
  <2>7. SetAt(j.f, e, k, v)
    BY <1>2, <1>6, <2>1, <2>4, <2>5, <2>6 DEF SetAt
  <2>8. Pointer(j) = Slot(j.f, e, k)
    BY <1>9, <1>k, <2>1, <2>4 DEF Pointer, Slot
  <2>9. data' \subseteq Block
    BY <1>1, <1>4 DEF TypeOK
  <2>10. QED  BY <1>1, <1>2, <1>3, <1>4, <1>v, <1>k, <2>7, <2>8, <2>9
<1>10. QED  BY <1>8, <1>9

(* The writer goes on with the new block, which is in the file or lost. *)
LEMMA NewFollowed ==
  ASSUME Sound, NEW p \in Proc, NEW j, j = job[p], j \in Job, WalkFits(j), WriterFits(j), j.at = "getblk", j.op = "write",
         NEW b \in Block, job' = [job EXCEPT ![p] = Followed(j, b)],
         j.level < Len(Way(j.n)) => b \in lost' \/ Reaches(j.f, Len(Way(j.n)) - j.level, b)'
  PROVE  /\ job' \in [Proc -> Job] /\ JobFits(p)' /\ job'[p].new = NULL
         /\ (\A q, r \in Proc : q # r => Apart(q, r))'
<1>i. PICK i : i = Followed(j, b)
  OBVIOUS
<1>1. /\ i \in Job /\ i.at \in {"bread", "data"} /\ i.new = NULL /\ i.op = j.op /\ i.f = j.f
      /\ i.n = j.n /\ i.level = j.level /\ i.nr = b
      /\ i.at = "bread" => j.level < Len(Way(j.n))
      /\ WalkFits(i)
  BY <1>i, FollowedFits
<1>2. TypeOK /\ \A q, r \in Proc : q # r => Apart(q, r)
  BY SoundIs
<1>3. job' = [job EXCEPT ![p] = i] /\ job'[p] = i /\ job' \in [Proc -> Job]
  BY <1>1, <1>2, <1>i DEF TypeOK
<1>4. WriterFits(i)'
  BY <1>1 DEF WriterFits
<1>5. JobFits(p)'
  BY <1>1, <1>3, <1>4 DEF JobFits, At, NewFits, StackFits, WalkFits
<1>6. \A q \in Proc \ {p} :
        /\ i.op = "truncate" => ~Changing(q, "write", i.f) /\ ~Changing(q, "truncate", i.f)
        /\ job[q].op = "truncate" => ~(i.op \in {"write", "truncate"} /\ i.f = job[q].f)
  BY <1>1, GoesOn
<1>7. (\A q, r \in Proc : q # r => Apart(q, r))'
  <2>1. i.new # NULL => \A q \in Proc \ {p} : i.new # job[q].new
    BY <1>1
  <2>2. /\ p \in Proc /\ TypeOK /\ (\A q, r \in Proc : q # r => Apart(q, r)) /\ job' = [job EXCEPT ![p] = i]
        /\ \A q \in Proc \ {p} :
             /\ i.op = "truncate" => ~Changing(q, "write", i.f) /\ ~Changing(q, "truncate", i.f)
             /\ job[q].op = "truncate" => ~(i.op \in {"write", "truncate"} /\ i.f = job[q].f)
    BY <1>2, <1>3, <1>6
  <2>3. QED  BY ONLY <2>1, <2>2, Exclusive
<1>8. QED  BY <1>1, <1>3, <1>5, <1>7

(* The block is put where the file still refers to: what was there is lost. *)
LEMMA NewInFile ==
  ASSUME Sound, NEW p \in Proc, NewBlock(p), ~panicked', job[p].bh \notin lost
  PROVE  Sound'
<1>j. PICK j : j = job[p]
  OBVIOUS
<1>v. PICK v : v = j.new
  OBVIOUS
<1>k. PICK k : k = Index(j)
  OBVIOUS
<1>e. PICK e : e = IF j.level = 1 THEN NULL ELSE j.bh
  OBVIOUS
<1>g. PICK G : G = Gone(Slot(j.f, e, k))
  OBVIOUS
<1>1. /\ j \in Job /\ WalkFits(j) /\ WriterFits(j) /\ j.at = "getblk" /\ j.op = "write" /\ j.f \in File
      /\ v \in Block /\ v \in zmap /\ v \notin lost /\ ~Referenced(v) /\ v # NULL
      /\ SetAt(j.f, e, k, v) /\ Pointer(j) = Slot(j.f, e, k)
      /\ lost' = lost \cup Drop(j) /\ job' = [job EXCEPT ![p] = Followed(j, v)]
      /\ data' \subseteq Block
      /\ UNCHANGED <<zmap, panicked, size, calls, mixed>>
  BY <1>j, <1>v, <1>k, <1>e, NewSets
<1>2. /\ TypeOK /\ TreeFits /\ LostFits /\ Unique /\ Leaves
      /\ \A b \in Block : Referenced(b) => b \in zmap /\ b \notin lost
      /\ \A b \in zmap : Referenced(b) \/ b \in lost \/ \E q \in Proc : job[q].new = b
  BY SoundIs
<1>3. /\ j.n \in Number /\ j.level \in 1..Len(Way(j.n)) /\ Len(Way(j.n)) \in 1..3
      /\ j.level = 1 => k = Way(j.n)[1] /\ k \in InInode
      /\ j.level # 1 => k \in 1..PER /\ j.bh \in Block /\ j.level > 1
  BY <1>1, <1>2, <1>k, PointerFits
<1>4. e = NULL \/ InFile(j.f, e)
  <2>1. CASE j.level # 1
    <3>1. Reaches(j.f, Len(Way(j.n)) - j.level + 1, j.bh)
      BY <1>1, <1>3, <1>j, <2>1 DEF WriterFits
    <3>2. QED  BY <1>e, <2>1, <3>1 DEF InFile, Reaches
  <2>2. QED  BY <1>e, <2>1
<1>5. e = NULL \/ (e \in Inner /\ e \in Block /\ Referenced(e) /\ e \notin lost /\ e # NULL)
  BY <1>1, <1>2, <1>4, InFileIsInner, InnerAreBlocks, InnerIsReferenced
<1>6. Swaps(G, v)
  BY <1>1, <1>2, <1>5, <1>g, SetSwaps
<1>7. lost' = lost \cup G
  BY <1>1, <1>g, <1>j DEF Drop, Gone
<1>8. /\ G \subseteq Block /\ \A x \in G : Referenced(x) /\ Children(x) \subseteq G
      /\ e \notin G
  <2>1. IF e = NULL THEN k \in InInode ELSE k \in 1..PER
    BY <1>1 DEF SetAt
  <2>2. PICK o : o = Slot(j.f, e, k)
    OBVIOUS
  <2>3. o \in Pointed /\ (o # NULL => o \in Block /\ Referenced(o))
    BY <1>1, <1>2, <1>5, <2>1, <2>2, SlotFits
  <2>4. CASE o = NULL
    BY <1>g, <2>2, <2>4 DEF Gone
  <2>5. CASE o # NULL
    <3>1. /\ Behind(o) \subseteq Block /\ \A x \in Behind(o) : Referenced(x)
          /\ Children(o) \subseteq Behind(o) /\ \A x \in Behind(o) : Children(x) \subseteq Behind(o)
          /\ \A d \in Inner, l \in 1..PER : ptr[d][l] = o => d \notin Gone(o)
      BY <1>2, <2>3, <2>5, GoneFits
    <3>2. G = {o} \cup Behind(o) /\ G = Gone(o)
      BY <1>g, <2>2, <2>5 DEF Gone
    <3>3. e # NULL => ptr[e][k] = o /\ k \in 1..PER
      BY <2>1, <2>2 DEF Slot
    <3>4. e # NULL => e \notin G
      BY <1>5, <3>1, <3>2, <3>3
    <3>5. NULL \notin G
      BY <2>3, <2>5, <3>1, <3>2, Last
    <3>6. QED  BY <2>3, <2>5, <3>1, <3>2, <3>4, <3>5
  <2>6. QED  BY <2>4, <2>5
<1>9. Unique' /\ \A d \in Block : Referenced(d)' <=> (Referenced(d) /\ d \notin G) \/ d = v
  BY <1>2, <1>6, SwapFits
<1>10. Inner \ G \subseteq Inner' /\ v \notin G /\ v \notin Inner /\ Inner \subseteq Block
  BY <1>1, <1>2, <1>6, <1>8, SwapInner, InnerIsReferenced, InnerAreBlocks
<1>11. \A d \in Block : d # v /\ d # e => Children(d)' = Children(d)
  BY <1>1 DEF SetAt, Children
<1>12. Children(v)' = {}
  BY <1>1 DEF SetAt, Children, NoPtr
<1>13. /\ \A q \in Proc \ {p} : job'[q] = job[q]
       /\ \A q \in Proc \ {p} : job[q].new # NULL => job[q].new \in Block /\ job[q].new \in zmap /\ job[q].new # v
                                                    /\ job[q].new \notin lost /\ ~Referenced(job[q].new)
  <2>1. \A q \in Proc \ {p} : job'[q] = job[q]
    BY <1>1, <1>2 DEF TypeOK
  <2>2. ASSUME NEW q \in Proc \ {p}, job[q].new # NULL
        PROVE  job[q].new \in Block /\ job[q].new \in zmap /\ job[q].new # v
               /\ job[q].new \notin lost /\ ~Referenced(job[q].new)
    <3>1. NewFits(job[q]) /\ Apart(q, p)
      BY SoundIs DEF JobFits
    <3>2. QED  BY <1>2, <1>j, <1>v, <2>2, <3>1 DEF NewFits, Apart, TypeOK
  <2>3. QED  BY <2>1, <2>2
<1>14. /\ job' \in [Proc -> Job] /\ JobFits(p)' /\ job'[p].new = NULL
       /\ (\A q, r \in Proc : q # r => Apart(q, r))'
  <2>1. ASSUME j.level < Len(Way(j.n)) PROVE Reaches(j.f, Len(Way(j.n)) - j.level, v)'
    <3>1. /\ (j.level = 1 => \/ Len(Way(j.n)) = 2 /\ Len(Way(j.n)) - j.level = 1
                             \/ Len(Way(j.n)) = 3 /\ Len(Way(j.n)) - j.level = 2)
          /\ (j.level # 1 => j.level = 2 /\ Len(Way(j.n)) = 3 /\ Len(Way(j.n)) - j.level = 1 /\ Len(Way(j.n)) - j.level + 1 = 2)
      BY <1>3, <2>1, LevelUp
    <3>2. CASE j.level = 1
      <4>1. zone'[j.f][k] = v
        BY <1>1, <1>2, <1>e, <3>2, SetAtIs
      <4>2. /\ Len(Way(j.n)) = 2 => k = DIRECT + 1
            /\ Len(Way(j.n)) = 3 => k = DIRECT + 2
        BY <1>3, <3>2, WayFits
      <4>3. QED  BY <1>1, <3>1, <3>2, <4>1, <4>2 DEF Reaches
    <3>3. CASE j.level # 1
      <4>1. Reaches(j.f, 2, e) /\ e # NULL
        BY <1>1, <1>3, <1>4, <1>5, <1>e, <1>j, <3>1, <3>3, Last DEF WriterFits
      <4>2. e = zone[j.f][DIRECT + 2]
        BY <4>1 DEF Reaches
      <4>3. e = zone'[j.f][DIRECT + 2] /\ ptr'[e][k] = v /\ k \in 1..PER
        BY <1>1, <1>2, <1>3, <3>3, <4>1, <4>2, SetAtIs, Last
      <4>4. QED  BY <1>1, <3>1, <3>3, <4>1, <4>3 DEF Reaches
    <3>4. QED  BY <3>2, <3>3
  <2>2. QED  BY <1>1, <1>j, <2>1, NewFollowed
<1>15. TypeOK'
  <2>1. lost' \subseteq Block /\ zmap' \subseteq Block
    BY <1>1, <1>2, <1>7, <1>8 DEF TypeOK
  <2>2. panicked' \in BOOLEAN /\ mixed' \in BOOLEAN
    BY <1>1, <1>2, Zenon DEF TypeOK
  <2>3. zone' \in [File -> [InInode -> Pointed]] /\ ptr' \in [Block -> [1..PER -> Pointed]]
    BY <1>1 DEF SetAt
  <2>4. QED  BY <1>1, <1>2, <1>14, <2>1, <2>2, <2>3 DEF TypeOK, InInode
<1>16. TreeFits'
  <2>1. ASSUME NEW d \in Block, Referenced(d)' PROVE d \in zmap' /\ d \notin lost'
    BY <1>1, <1>2, <1>7, <1>9, <1>10, <2>1
  <2>2. ASSUME NEW d \in Block, Referenced(d)', d \notin Inner' PROVE Children(d)' = {}
    <3>1. CASE d = v
      BY <1>12, <3>1
    <3>2. CASE d # v
      <4>1. Referenced(d) /\ d \notin G /\ d \notin Inner
        BY <1>9, <1>10, <2>2, <3>2
      <4>2. d # e
        BY <1>5, <4>1, Last
      <4>3. QED  BY <1>2, <1>11, <3>2, <4>1, <4>2 DEF Leaves
    <3>3. QED  BY <3>1, <3>2
  <2>3. ASSUME NEW d \in zmap', ~Referenced(d)', d \notin lost' PROVE \E q \in Proc : job'[q].new = d
    <3>1. d \in zmap /\ d \in Block /\ d # NULL
      BY <1>1, <1>2, Last DEF TypeOK
    <3>2. d \notin lost /\ d \notin G /\ d # v /\ ~Referenced(d)
      BY <1>7, <1>9, <2>3, <3>1
    <3>3. PICK q \in Proc : job[q].new = d
      BY <1>2, <3>1, <3>2
    <3>4. q # p
      BY <1>j, <1>v, <3>2, <3>3
    <3>5. QED  BY <1>13, <3>3, <3>4
  <2>4. QED  BY <1>9, <2>1, <2>2, <2>3 DEF TreeFits
<1>17. LostFits'
  <2>1. lost' \subseteq zmap'
    BY <1>1, <1>2, <1>7, <1>8 DEF LostFits
  <2>2. ASSUME NEW d \in lost' PROVE Children(d)' \subseteq lost'
    <3>1. d \in Block /\ d # v /\ d # e
      BY <1>1, <1>2, <1>5, <1>7, <1>8, <1>10, Last DEF TypeOK
    <3>2. Children(d) \subseteq lost'
      BY <1>2, <1>7, <1>8 DEF LostFits
    <3>3. QED  BY <1>11, <3>1, <3>2
  <2>3. QED  BY <2>1, <2>2 DEF LostFits
<1>18. ASSUME NEW q \in Proc \ {p} PROVE JobFits(q)'
  <2>1. job'[q] = job[q] /\ (job[q].new # NULL => job[q].new \in zmap' /\ job[q].new # v /\ job[q].new \notin lost')
    BY <1>1, <1>7, <1>8, <1>13
  <2>2. \A x \in G : x \in lost'
    BY <1>7
  <2>3. ASSUME job[q].op = "truncate"
        PROVE  zone'[job[q].f] = zone[job[q].f] /\ \A c : InFile(job[q].f, c) => ptr'[c] = ptr[c]
    <3>1. job[q].f # j.f /\ job[q].f \in File
      <4>1. Apart(q, p) /\ JobFits(q)
        BY SoundIs
      <4>2. job[q].at = "free" \/ job[q].at = "out" \/ job[q].at \in Walking
        BY <1>2 DEF TypeOK, Job, Walking
      <4>3. job[q].f \in File
        BY <2>3, <4>1, <4>2, OutFits DEF JobFits, StackFits, WalkFits, At
      <4>4. QED  BY <1>1, <1>j, <2>3, <4>1, <4>3 DEF Apart, Changing
    <3>2. zone'[job[q].f] = zone[job[q].f]
      BY <1>1, <3>1 DEF SetAt
    <3>3. ASSUME NEW c, InFile(job[q].f, c) PROVE ptr'[c] = ptr[c]
      <4>1. c \in Inner /\ c # NULL
        BY <3>1, <3>3, InFileIsInner
      <4>2. c # v /\ c \in Block
        BY <1>10, <4>1
      <4>3. c # e
        BY <1>1, <1>2, <1>4, <3>1, <3>3, <4>1, InFileApart
      <4>4. QED  BY <1>1, <4>2, <4>3 DEF SetAt
    <3>4. QED  BY <3>2, <3>3
  <2>4. lost \subseteq lost'
    BY <1>7
  <2>5. QED  BY <1>6, <2>1, <2>2, <2>3, <2>4, OtherFits
<1>19. QED  BY <1>14, <1>15, <1>16, <1>17, <1>18 DEF Sound, Fits

(* A writer that is in a lost block goes on there: its new block is lost with it. *)
LEMMA NewInLost ==
  ASSUME Sound, NEW p \in Proc, NewBlock(p), ~panicked', job[p].bh \in lost
  PROVE  Sound'
<1>j. PICK j : j = job[p]
  OBVIOUS
<1>v. PICK v : v = j.new
  OBVIOUS
<1>k. PICK k : k = Index(j)
  OBVIOUS
<1>e. PICK e : e = IF j.level = 1 THEN NULL ELSE j.bh
  OBVIOUS
<1>1. /\ j \in Job /\ WalkFits(j) /\ WriterFits(j) /\ j.at = "getblk" /\ j.op = "write" /\ j.f \in File
      /\ v \in Block /\ v \in zmap /\ v \notin lost /\ ~Referenced(v) /\ v # NULL
      /\ SetAt(j.f, e, k, v)
      /\ lost' = lost \cup Drop(j) /\ job' = [job EXCEPT ![p] = Followed(j, v)]
      /\ data' \subseteq Block
      /\ UNCHANGED <<zmap, panicked, size, calls, mixed>>
  BY <1>j, <1>v, <1>k, <1>e, NewSets
<1>2. /\ TypeOK /\ TreeFits /\ LostFits /\ Unique /\ Leaves
      /\ \A b \in Block : Referenced(b) => b \in zmap /\ b \notin lost
      /\ \A b \in zmap : Referenced(b) \/ b \in lost \/ \E q \in Proc : job[q].new = b
  BY SoundIs
<1>3. e = j.bh /\ e \in lost /\ e \in Block /\ e # NULL
  <2>1. j.bh \in lost /\ lost \subseteq Block
    BY <1>2, <1>j DEF TypeOK
  <2>2. j.level = 1 => j.bh = NULL
    BY <1>1 DEF WalkFits, Walking
  <2>3. QED  BY <1>e, <2>1, <2>2, Last
<1>4. lost' = lost \cup {v}
  BY <1>1, <1>3, <1>v DEF Drop
<1>5. Inner \subseteq Block /\ \A c \in Inner : c # v /\ c # e
  BY <1>1, <1>2, <1>3, InnerAreBlocks, InnerIsReferenced
<1>6. zone' = zone /\ \A c \in Inner : ptr'[c] = ptr[c]
  BY <1>1, <1>2, <1>3, <1>5 DEF SetAt, TypeOK
<1>7. Swaps({}, NULL)
  BY <1>6, SameSwaps
<1>8. Unique' /\ (\A d \in Block : Referenced(d)' <=> Referenced(d)) /\ Inner \subseteq Inner'
  <2>1. PICK G : G = {}
    OBVIOUS
  <2>2. Unique' /\ \A d \in Block : Referenced(d)' <=> (Referenced(d) /\ d \notin G) \/ d = NULL
    BY <1>2, <1>7, <2>1, SwapFits
  <2>3. Inner \ G \subseteq Inner'
    BY <1>2, <1>7, <2>1, SwapInner
  <2>4. QED  BY <2>1, <2>2, <2>3, Last
<1>9. \A d \in Block : d # v /\ d # e => Children(d)' = Children(d)
  BY <1>1 DEF SetAt, Children
<1>10. Children(v)' = {} /\ Children(e)' \subseteq Children(e) \cup {v}
  <2>1. Children(v)' = {}
    BY <1>1 DEF SetAt, Children, NoPtr
  <2>2. ptr'[e] = [ptr[e] EXCEPT ![k] = v] /\ ptr[e] \in [1..PER -> Pointed]
    BY <1>1, <1>2, <1>3 DEF SetAt, TypeOK
  <2>3. \A l \in 1..PER : ptr'[e][l] = ptr[e][l] \/ ptr'[e][l] = v
    BY <2>2
  <2>4. QED  BY <2>1, <2>3 DEF Children
<1>11. /\ \A q \in Proc \ {p} : job'[q] = job[q]
       /\ \A q \in Proc \ {p} : job[q].new # NULL => job[q].new \in zmap /\ job[q].new # v /\ job[q].new \notin lost
  <2>1. \A q \in Proc \ {p} : job'[q] = job[q]
    BY <1>1, <1>2 DEF TypeOK
  <2>2. ASSUME NEW q \in Proc \ {p}, job[q].new # NULL
        PROVE  job[q].new \in zmap /\ job[q].new # v /\ job[q].new \notin lost
    <3>1. NewFits(job[q]) /\ Apart(q, p)
      BY SoundIs DEF JobFits
    <3>2. QED  BY <1>j, <1>v, <2>2, <3>1 DEF NewFits, Apart
  <2>3. QED  BY <2>1, <2>2
<1>12. /\ job' \in [Proc -> Job] /\ JobFits(p)' /\ job'[p].new = NULL
       /\ (\A q, r \in Proc : q # r => Apart(q, r))'
  BY <1>1, <1>4, <1>j, NewFollowed
<1>13. TypeOK'
  <2>1. lost' \subseteq Block /\ zmap' \subseteq Block
    BY <1>1, <1>2, <1>4 DEF TypeOK
  <2>2. panicked' \in BOOLEAN /\ mixed' \in BOOLEAN
    BY <1>1, <1>2, Zenon DEF TypeOK
  <2>3. zone' \in [File -> [InInode -> Pointed]] /\ ptr' \in [Block -> [1..PER -> Pointed]]
    BY <1>1 DEF SetAt
  <2>4. QED  BY <1>1, <1>2, <1>12, <2>1, <2>2, <2>3 DEF TypeOK, InInode
<1>14. TreeFits'
  <2>1. ASSUME NEW d \in Block, Referenced(d)' PROVE d \in zmap' /\ d \notin lost'
    BY <1>1, <1>2, <1>4, <1>8, <2>1
  <2>2. ASSUME NEW d \in Block, Referenced(d)', d \notin Inner' PROVE Children(d)' = {}
    <3>1. Referenced(d) /\ d # v /\ d # e /\ d \notin Inner
      BY <1>1, <1>2, <1>3, <1>8, <2>2
    <3>2. QED  BY <1>2, <1>9, <3>1 DEF Leaves
  <2>3. ASSUME NEW d \in zmap', ~Referenced(d)', d \notin lost' PROVE \E q \in Proc : job'[q].new = d
    <3>1. d \in zmap /\ d \in Block /\ d # v /\ d \notin lost /\ ~Referenced(d)
      BY <1>1, <1>2, <1>4, <1>8, <2>3 DEF TypeOK
    <3>2. PICK q \in Proc : job[q].new = d
      BY <1>2, <3>1
    <3>3. q # p
      BY <1>j, <1>v, <3>1, <3>2
    <3>4. QED  BY <1>11, <3>2, <3>3
  <2>4. QED  BY <1>8, <2>1, <2>2, <2>3 DEF TreeFits
<1>15. LostFits'
  <2>1. lost' \subseteq zmap'
    BY <1>1, <1>2, <1>4 DEF LostFits
  <2>2. ASSUME NEW d \in lost' PROVE Children(d)' \subseteq lost'
    <3>1. CASE d = v
      BY <1>10, <3>1
    <3>2. CASE d = e
      BY <1>2, <1>3, <1>4, <1>10, <3>2 DEF LostFits
    <3>3. CASE d # v /\ d # e
      <4>1. d \in lost /\ d \in Block
        BY <1>2, <1>4, <2>2, <3>3 DEF TypeOK
      <4>2. Children(d) \subseteq lost
        BY <1>2, <4>1 DEF LostFits
      <4>3. QED  BY <1>4, <1>9, <3>3, <4>1, <4>2
    <3>4. QED  BY <3>1, <3>2, <3>3
  <2>3. QED  BY <2>1, <2>2 DEF LostFits
<1>16. ASSUME NEW q \in Proc \ {p} PROVE JobFits(q)'
  <2>1. PICK G : G = {}
    OBVIOUS
  <2>2. job'[q] = job[q] /\ (job[q].new # NULL => job[q].new \in zmap' /\ job[q].new \notin lost')
    BY <1>1, <1>4, <1>11
  <2>3. ASSUME job[q].op = "truncate"
        PROVE  zone'[job[q].f] = zone[job[q].f] /\ \A c : InFile(job[q].f, c) => ptr'[c] = ptr[c]
    <3>1. JobFits(q) /\ job[q] \in Job
      BY SoundIs
    <3>2. job[q].at = "free" \/ job[q].at = "out" \/ job[q].at \in Walking
      BY <3>1 DEF Job, Walking
    <3>3. job[q].f \in File
      BY <2>3, <3>1, <3>2, OutFits DEF JobFits, StackFits, WalkFits, At
    <3>4. QED  BY <1>6, <3>3, InFileIsInner
  <2>4. lost \subseteq lost'
    BY <1>4
  <2>5. QED  BY <1>7, <2>1, <2>2, <2>3, <2>4, OtherFits
<1>17. QED  BY <1>12, <1>13, <1>14, <1>15, <1>16 DEF Sound, Fits

LEMMA NewBlockStep == ASSUME Sound, ~panicked, NEW p \in Proc, NewBlock(p) PROVE Sound'
<1>1. CASE panicked' = TRUE /\ UNCHANGED <<tree, job>>
  <2>1. /\ TypeOK' /\ UNCHANGED <<zmap, zone, ptr, lost, data, job>>
    <3>1. UNCHANGED <<zmap, zone, ptr, data, lost, job, size, calls, mixed>> /\ panicked' \in BOOLEAN
      BY <1>1 DEF NewBlock, tree
    <3>2. QED  BY <3>1, SoundIs DEF TypeOK
  <2>2. Fits'
    <3>1. Fits
      BY DEF Sound
    <3>2. Inner' = Inner /\ (\A b : Children(b)' = Children(b)) /\ \A f, d, b : Reaches(f, d, b)' <=> Reaches(f, d, b)
      BY <2>1 DEF Inner, Single, Double, Roots, Children, Reaches
    <3>3. Unique' /\ \A b : Referenced(b)' <=> Referenced(b)
      BY <2>1, <3>2, SoundIs DEF Unique, Referenced
    <3>4. TreeFits' /\ LostFits'
      BY <2>1, <3>2, <3>3, SoundIs DEF TreeFits, LostFits
    <3>5. ASSUME NEW q \in Proc PROVE JobFits(q)'
      <4>1. Swaps({}, NULL)
        BY <2>1, SameSwaps
      <4>2. job[q].new # NULL => job[q].new \in zmap /\ job[q].new \notin lost
        BY AtFits DEF NewFits
      <4>3. PICK G : G = {}
        OBVIOUS
      <4>4. QED  BY <2>1, <4>1, <4>2, <4>3, OtherFits
    <3>6. (\A q, r \in Proc : q # r => Apart(q, r))'
      BY <2>1, SoundIs DEF Apart, Changing
    <3>7. QED  BY <3>4, <3>5, <3>6 DEF Fits
  <2>3. QED  BY <2>1, <2>2 DEF Sound
<1>2. CASE ~(panicked' = TRUE /\ UNCHANGED <<tree, job>>)
  <2>1. ~panicked'
    BY <1>2 DEF NewBlock
  <2>2. QED  BY <2>1, NewInFile, NewInLost
<1>3. QED  BY <1>1, <1>2

(***************************************************************************)
(* Truncating: the blocks held.                                            *)
(***************************************************************************)
LEMMA StackReplaced ==
  ASSUME NEW j \in Job, NEW t \in Seq(Frames) PROVE [j EXCEPT !.stack = t] \in Job
  BY DEF Job

LEMMA FreshStack ==
  ASSUME NEW p \in Proc, TypeOK, zone' = zone, job'[p].op = "truncate", job'[p].f \in File,
         job'[p].nr = NULL, job'[p].bh = NULL, job'[p].stack = <<Frame(NULL, 3)>>
  PROVE  StackFits(p)'
<1>1. PICK s : s = job'[p].stack
  OBVIOUS
<1>2. Len(s) = 1 /\ s[1].b = NULL /\ s[1].k = 1 /\ Len(s) \in 1..3
  BY <1>1 DEF Frame
<1>3. DOMAIN zone[job'[p].f] = InInode
  BY DEF TypeOK, InInode
<1>4. Passed(p, s[1])'
  <2>1. Pointers(p, s[1])' = zone[job'[p].f]
    BY <1>2 DEF Pointers
  <2>2. \A k \in InInode : ~(k < 1)
    BY FileBlocksAssumption DEF InInode
  <2>3. QED  BY <1>2, <1>3, <2>1, <2>2 DEF Passed
<1>5. \A i \in 1..Len(s) : Passed(p, s[i])'
  BY <1>2, <1>4
<1>6. QED  BY <1>1, <1>2, <1>5 DEF StackFits

LEMMA StackSet ==
  ASSUME NEW s \in Seq(Frames), NEW d \in 1..Len(s), NEW fr \in Frames,
         NEW t, t = [SubSeq(s, 1, d) EXCEPT ![d] = fr]
  PROVE  t \in Seq(Frames) /\ Len(t) = d /\ t[d] = fr /\ \A i \in 1..(d - 1) : t[i] = s[i]
<1>1. PICK u : u = SubSeq(s, 1, d)
  OBVIOUS
<1>2. u \in Seq(Frames) /\ Len(u) = d /\ \A i \in 1..d : u[i] = s[i]
  BY <1>1, SubSeqProperties
<1>3. t = [u EXCEPT ![d] = fr] /\ d \in 1..Len(u)
  BY <1>1, <1>2
<1>4. t \in Seq(Frames) /\ Len(t) = Len(u) /\ \A i \in 1..Len(u) : t[i] = IF i = d THEN fr ELSE u[i]
  BY <1>2, <1>3
<1>5. QED  BY <1>2, <1>4

(* The top of the stack becomes frame fr at depth d. *)
LEMMA SetTopFits ==
  ASSUME TypeOK, NEW p \in Proc, StackFits(p), At(p, "free"), NEW s, s = job[p].stack, NEW d \in 1..Len(s),
         NEW fr \in Frames, fr.b = s[d].b, fr.below = s[d].below,
         job'[p] = [job[p] EXCEPT !.stack = [SubSeq(s, 1, d) EXCEPT ![d] = fr]],
         d > 1 => zone'[job[p].f][s[1].k] = zone[job[p].f][s[1].k],
         d > 2 => ptr'[s[2].b][s[2].k] = ptr[s[2].b][s[2].k],
         \A i \in 1..(d - 1) : Passed(p, s[i])', Passed(p, fr)'
  PROVE  job'[p] \in Job /\ StackFits(p)'
<1>f. PICK f : f = job[p].f
  OBVIOUS
<1>t. PICK t : t = [SubSeq(s, 1, d) EXCEPT ![d] = fr]
  OBVIOUS
<1>0. /\ d \in 1..Len(s) /\ fr.b = s[d].b /\ fr.below = s[d].below /\ job'[p] = [job[p] EXCEPT !.stack = t]
      /\ d > 1 => zone'[f][s[1].k] = zone[f][s[1].k]
      /\ d > 2 => ptr'[s[2].b][s[2].k] = ptr[s[2].b][s[2].k]
      /\ \A i \in 1..(d - 1) : Passed(p, s[i])'
  <2>1. d \in 1..Len(s) /\ fr.b = s[d].b /\ fr.below = s[d].below /\ job'[p] = [job[p] EXCEPT !.stack = t]
    BY <1>t
  <2>2. d > 1 => zone'[f][s[1].k] = zone[f][s[1].k]
    BY <1>f
  <2>3. d > 2 => ptr'[s[2].b][s[2].k] = ptr[s[2].b][s[2].k]
    OBVIOUS
  <2>4. \A i \in 1..(d - 1) : Passed(p, s[i])'
    OBVIOUS
  <2>5. QED  BY <2>1, <2>2, <2>3, <2>4
<1>1. /\ job[p].op = "truncate" /\ f \in File /\ job[p].nr = NULL /\ job[p].bh = NULL
      /\ Len(s) \in 1..3 /\ s[1].b = NULL
      /\ Len(s) > 1 => /\ s[1].k \in {DIRECT + 1, DIRECT + 2} /\ s[2].below = s[1].k - DIRECT
                       /\ s[2].b # NULL /\ s[2].b = zone[f][s[1].k]
      /\ Len(s) > 2 => /\ s[2].k \in 1..PER /\ s[2].below = 2 /\ s[3].below = 1
                       /\ s[3].b # NULL /\ s[3].b = ptr[s[2].b][s[2].k]
  BY <1>f DEF StackFits
<1>2. job[p] \in Job /\ s \in Seq(Frames)
  BY DEF TypeOK, Job
<1>3. t \in Seq(Frames) /\ Len(t) = d /\ t[d] = fr /\ \A i \in 1..(d - 1) : t[i] = s[i]
  <2>1. s \in Seq(Frames) /\ d \in 1..Len(s) /\ fr \in Frames /\ t = [SubSeq(s, 1, d) EXCEPT ![d] = fr]
    BY <1>0, <1>2, <1>t
  <2>2. QED  BY ONLY <2>1, StackSet
<1>4. /\ job'[p] \in Job /\ job'[p].at = "free" /\ job'[p].op = "truncate" /\ job'[p].f = f /\ job'[p].nr = NULL
      /\ job'[p].bh = NULL /\ job'[p].stack = t
  BY <1>0, <1>1, <1>2, <1>3, <1>f DEF Job, At
<1>5. d = 1 \/ d = 2 \/ d = 3
  BY <1>0, <1>1
<1>6. d <= Len(s)
  BY <1>0, <1>1
<1>7. t[1].b = NULL /\ Len(t) \in 1..3
  <2>1. CASE d = 1
    BY <1>0, <1>1, <1>3, <2>1
  <2>2. CASE d = 2 \/ d = 3
    <3>1. 1 \in 1..(d - 1)
      BY <2>2
    <3>2. t[1] = s[1] /\ Len(t) = d
      BY <1>3, <3>1
    <3>3. QED  BY <1>1, <2>2, <3>2
  <2>3. QED  BY <1>5, <2>1, <2>2
<1>8. Len(t) > 1 => /\ t[1].k \in {DIRECT + 1, DIRECT + 2} /\ t[2].below = t[1].k - DIRECT
                    /\ t[2].b # NULL /\ t[2].b = zone'[f][t[1].k]
  <2>1. CASE d = 1
    BY <1>0, <1>3, <2>1
  <2>2. CASE d = 2
    BY <1>0, <1>1, <1>3, <1>6, <2>2
  <2>3. CASE d = 3
    BY <1>0, <1>1, <1>3, <1>6, <2>3
  <2>4. QED  BY <1>5, <2>1, <2>2, <2>3
<1>9. Len(t) > 2 => /\ t[2].k \in 1..PER /\ t[2].below = 2 /\ t[3].below = 1
                    /\ t[3].b # NULL /\ t[3].b = ptr'[t[2].b][t[2].k]
  <2>1. CASE d < 3
    BY <1>0, <1>3, <2>1
  <2>2. CASE d = 3
    BY <1>0, <1>1, <1>3, <1>6, <2>2
  <2>3. QED  BY <1>5, <2>1, <2>2
<1>10. ASSUME NEW i \in 1..Len(t) PROVE Passed(p, t[i])'
  <2>1. i = d \/ i \in 1..(d - 1)
    BY <1>0, <1>3
  <2>2. QED  BY <1>0, <1>3, <2>1
<1>11. QED  BY ONLY <1>1, <1>4, <1>7, <1>8, <1>9, <1>10 DEF StackFits, At

LEMMA FrameStep ==
  ASSUME Sound, NEW p \in Proc, At(p, "free"), job'[p] \in Job, job' = [job EXCEPT ![p] = job'[p]],
         job'[p].at = "free", job'[p].op = job[p].op, job'[p].f = job[p].f, job'[p].new = NULL,
         StackFits(p)', UNCHANGED <<tree, size, calls, noted>>
  PROVE  Sound'
<1>1. PICK j \in Job : j = job'[p]
  OBVIOUS
<1>2. /\ job[p].new = NULL /\ size' \in [File -> Nat] /\ calls' \in Nat /\ data' \subseteq Block
      /\ UNCHANGED <<zmap, zone, ptr, lost>>
  BY AtFits, SoundIs DEF At, TypeOK, tree
<1>3. panicked' \in BOOLEAN /\ mixed' \in BOOLEAN
  BY SoundIs, NotedFit
<1>4. /\ WalkFits(j) /\ WriterFits(j) /\ job' = [job EXCEPT ![p] = j] /\ j.new = NULL /\ j.at = "free"
      /\ j.op = job[p].op /\ j.f = job[p].f
  BY <1>1 DEF WalkFits, WriterFits, Walking
<1>5. j.at # "getblk" /\ (j.at = "out" => j = Out)
  BY <1>4
<1>6. \A q \in Proc \ {p} :
        /\ j.op = "truncate" => ~Changing(q, "write", j.f) /\ ~Changing(q, "truncate", j.f)
        /\ job[q].op = "truncate" => ~(j.op \in {"write", "truncate"} /\ j.f = job[q].f)
  BY <1>4, GoesOn
<1>7. QED  BY <1>2, <1>3, <1>4, <1>5, <1>6, QuietStep

LEMMA TruncateStep ==
  ASSUME Sound, ~mixed, NEW p \in Proc, NEW f \in File, Truncate(p, f)
  PROVE  TypeOK' /\ (~mixed' => Sound')
<1>1. /\ job[p] \in Job /\ job[p].at = "out" /\ job[p].new = NULL /\ calls' = calls + 1 /\ TypeOK
      /\ UNCHANGED <<zmap, zone, ptr, data, lost, size, panicked>> /\ size' \in [File -> Nat] /\ calls' \in Nat
      /\ data' \subseteq Block
  BY AtFits, SoundIs DEF Truncate, At, TypeOK, tree
<1>2. PICK j : j = [Out EXCEPT !.op = "truncate", !.at = "free", !.f = f, !.stack = <<Frame(NULL, 3)>>]
  OBVIOUS
<1>3. job' = [job EXCEPT ![p] = j] /\ job'[p] = j
  BY <1>1, <1>2 DEF Truncate, TypeOK
<1>4. Frame(NULL, 3) \in Frames
  BY DEF Frame, Frames, Pointed
<1>5. <<Frame(NULL, 3)>> \in Seq(Frames)
  BY <1>4
<1>6. /\ j \in Job /\ j.at = "free" /\ j.new = NULL /\ j.op = "truncate" /\ j.f = f
      /\ j.bh = NULL /\ j.nr = NULL /\ j.stack = <<Frame(NULL, 3)>>
  BY <1>2, <1>5, OutFits DEF Job, Out
<1>7. StackFits(p)'
  BY <1>1, <1>3, <1>6, FreshStack
<1>8. WalkFits(j) /\ WriterFits(j)
  BY <1>6 DEF WalkFits, WriterFits, Walking
<1>9. panicked' \in BOOLEAN /\ mixed' \in BOOLEAN
  <2>1. panicked' \in BOOLEAN
    BY <1>1, Zenon DEF TypeOK
  <2>2. mixed' \in BOOLEAN
    BY Zenon DEF Truncate
  <2>3. QED  BY <2>1, <2>2
<1>10. TypeOK'
  <2>1. job' \in [Proc -> Job]
    BY <1>1, <1>3, <1>6 DEF TypeOK
  <2>2. QED  BY <1>1, <1>9, <2>1 DEF TypeOK
<1>11. ASSUME ~mixed' PROVE Sound'
  <2>1. \A q \in Proc, op \in {"write", "truncate"} : ~Changing(q, op, f)
    BY <1>11 DEF Truncate
  <2>2. \A q \in Proc \ {p} :
          /\ j.op = "truncate" => ~Changing(q, "write", j.f) /\ ~Changing(q, "truncate", j.f)
          /\ job[q].op = "truncate" => ~(j.op \in {"write", "truncate"} /\ j.f = job[q].f)
    BY <1>6, <2>1 DEF Changing
  <2>3. j.at # "getblk" /\ (j.at = "out" => j = Out)
    BY <1>6
  <2>4. QED  BY <1>1, <1>3, <1>6, <1>7, <1>8, <1>9, <2>2, <2>3, QuietStep
<1>12. QED  BY <1>10, <1>11

LEMMA TruncateEndStep == ASSUME Sound, NEW p \in Proc, TruncateEnd(p) PROVE Sound'
<1>1. /\ job[p] \in Job /\ job[p].at = "free" /\ job[p].new = NULL /\ At(p, "free") /\ TypeOK /\ StackFits(p)
      /\ UNCHANGED <<zmap, zone, ptr, lost, tree, calls, noted>> /\ calls' \in Nat /\ data' \subseteq Block
      /\ panicked' \in BOOLEAN /\ mixed' \in BOOLEAN
  <2>1. /\ job[p] \in Job /\ job[p].at = "free" /\ job[p].new = NULL /\ At(p, "free") /\ TypeOK /\ StackFits(p)
        /\ UNCHANGED <<zmap, zone, ptr, lost, tree, calls, noted>> /\ calls' \in Nat /\ data' \subseteq Block
    BY AtFits, SoundIs DEF TruncateEnd, At, TypeOK, tree
  <2>2. QED  BY <2>1, NotedFit
<1>2. CASE size' = [size EXCEPT ![job[p].f] = 0] /\ Return(p)
  <2>1. size' \in [File -> Nat]
    BY <1>1, <1>2 DEF TypeOK
  <2>2. QED  BY <1>1, <1>2, <2>1, Returned
<1>3. CASE job' = [job EXCEPT ![p].stack = <<Frame(NULL, 3)>>] /\ UNCHANGED size
  <2>1. Frame(NULL, 3) \in Frames
    BY DEF Frame, Frames, Pointed
  <2>2. <<Frame(NULL, 3)>> \in Seq(Frames)
    BY <2>1
  <2>3. job'[p] = [job[p] EXCEPT !.stack = <<Frame(NULL, 3)>>] /\ job' = [job EXCEPT ![p] = job'[p]]
    BY <1>1, <1>3 DEF TypeOK
  <2>4. /\ job'[p] \in Job /\ job'[p].at = "free" /\ job'[p].op = job[p].op /\ job'[p].f = job[p].f
        /\ job'[p].new = NULL /\ job'[p].nr = job[p].nr /\ job'[p].bh = job[p].bh
        /\ job'[p].stack = <<Frame(NULL, 3)>>
    BY <1>1, <2>2, <2>3 DEF Job
  <2>5. job[p].op = "truncate" /\ job[p].f \in File /\ job[p].nr = NULL /\ job[p].bh = NULL
    BY <1>1 DEF StackFits
  <2>6. StackFits(p)'
    BY <1>1, <2>4, <2>5, FreshStack
  <2>7. QED  BY <1>1, <1>3, <2>3, <2>4, <2>6, FrameStep
<1>4. QED  BY <1>2, <1>3 DEF TruncateEnd

(* The frame at depth d, and the next of its pointers. *)
LEMMA FrameFits ==
  ASSUME Sound, NEW p \in Proc, At(p, "free"), NEW s, s = job[p].stack, NEW d \in 1..Len(s), NEW fr, fr = s[d]
  PROVE  /\ s \in Seq(Frames) /\ Len(s) \in 1..3 /\ job[p].f \in File
         /\ fr \in Frames /\ Passed(p, fr) /\ (fr.b = NULL <=> d = 1)
         /\ fr.b = NULL => DOMAIN Pointers(p, fr) = InInode
         /\ fr.b # NULL => fr.b \in Inner /\ DOMAIN Pointers(p, fr) = 1..PER
         /\ \A k \in DOMAIN Pointers(p, fr) : k \in Nat \ {0} /\ Pointers(p, fr)[k] \in Pointed
         /\ Left(p, fr) # {} => /\ Min(Left(p, fr)) \in Left(p, fr)
                                /\ \A k \in Left(p, fr) : Min(Left(p, fr)) <= k
<1>1. /\ TypeOK /\ StackFits(p) /\ s \in Seq(Frames)
  BY AtFits, SoundIs DEF TypeOK, Job
<1>2. /\ job[p].f \in File /\ Len(s) \in 1..3 /\ s[1].b = NULL
      /\ \A i \in 2..Len(s) : s[i].b \in Inner /\ s[i].b \in Block
      /\ \A i \in 1..Len(s) : Passed(p, s[i])
  <2>1. job[p].f \in File /\ Len(s) \in 1..3 /\ s[1].b = NULL /\ \A i \in 1..Len(s) : Passed(p, s[i])
    BY <1>1 DEF StackFits
  <2>2. \A i \in 2..Len(s) : InFile(job[p].f, s[i].b)
    BY <1>1, StackInFile
  <2>3. \A i \in 2..Len(s) : s[i].b \in Inner
    BY <2>1, <2>2, InFileIsInner
  <2>4. QED  BY <1>1, <2>1, <2>3, InnerAreBlocks
<1>3. fr \in Frames /\ Passed(p, fr)
  BY <1>1, <1>2
<1>4. d = 1 \/ d \in 2..Len(s)
  BY <1>2
<1>5. fr.b = NULL <=> d = 1
  BY <1>2, <1>4, Last
<1>6. ASSUME fr.b = NULL PROVE Pointers(p, fr) \in [InInode -> Pointed]
  BY <1>1, <1>2, <1>6 DEF Pointers, TypeOK, InInode
<1>7. ASSUME fr.b # NULL PROVE fr.b \in Inner /\ Pointers(p, fr) \in [1..PER -> Pointed]
  BY <1>1, <1>2, <1>4, <1>5, <1>7 DEF Pointers, TypeOK
<1>8. \A k \in DOMAIN Pointers(p, fr) : k \in Nat \ {0} /\ Pointers(p, fr)[k] \in Pointed
  BY <1>6, <1>7, FileBlocksAssumption DEF InInode
<1>9. Left(p, fr) \in SUBSET Nat
  BY <1>8 DEF Left
<1>10. Left(p, fr) # {} => /\ Min(Left(p, fr)) \in Left(p, fr)
                           /\ \A k \in Left(p, fr) : Min(Left(p, fr)) <= k
  BY <1>9, MinLeast
<1>11. QED  BY <1>1, <1>2, <1>3, <1>5, <1>6, <1>7, <1>8, <1>10

(* A block was busy: the truncate goes on behind it. *)
LEMMA BusyStep ==
  ASSUME Sound, NEW p \in Proc, At(p, "free"), NEW s, s = job[p].stack, NEW d \in 1..Len(s),
         NEW fr \in Frames, fr.b = s[d].b, fr.below = s[d].below, fr.busy,
         SetTop(p, fr, d), UNCHANGED <<tree, size, calls, noted>>
  PROVE  Sound'
<1>2. /\ s \in Seq(Frames) /\ s[d] \in Frames /\ job[p].f \in File /\ Len(s) \in 1..3
  BY FrameFits
<1>4. PICK t : t = [SubSeq(s, 1, d) EXCEPT ![d] = fr]
  OBVIOUS
<1>5. TypeOK /\ StackFits(p) /\ job[p] \in Job /\ UNCHANGED <<zone, ptr>>
  BY AtFits, SoundIs DEF tree
<1>6. job'[p] = [job[p] EXCEPT !.stack = t] /\ job' = [job EXCEPT ![p] = job'[p]]
  BY <1>4, <1>5 DEF SetTop, TypeOK
<1>7. Passed(p, fr)'
  BY DEF Passed
<1>8. \A i \in 1..(d - 1) : Passed(p, s[i])'
  <2>1. job'[p].f = job[p].f
    BY <1>5, <1>6 DEF Job
  <2>2. ASSUME NEW x PROVE Pointers(p, x)' = Pointers(p, x)
    BY <1>5, <2>1 DEF Pointers
  <2>3. \A i \in 1..(d - 1) : Passed(p, s[i])
    BY <1>5 DEF StackFits
  <2>4. QED  BY <2>2, <2>3 DEF Passed
<1>9. job'[p] \in Job /\ StackFits(p)'
  BY <1>4, <1>5, <1>6, <1>7, <1>8, SetTopFits
<1>10. /\ job'[p].at = "free" /\ job'[p].op = job[p].op /\ job'[p].f = job[p].f /\ job'[p].new = NULL
  BY <1>5, <1>6, AtFits DEF At, Job
<1>11. QED  BY <1>6, <1>9, <1>10, FrameStep

(* A block of pointers is read and taken up. *)
LEMMA PushStep ==
  ASSUME Sound, NEW p \in Proc, At(p, "free"), Left(p, Top(p)) # {},
         NEW k, k = Min(Left(p, Top(p))), NEW b, b = Pointers(p, Top(p))[k], Below(Top(p), k) > 0,
         job' = [job EXCEPT ![p].stack = Append([@ EXCEPT ![Len(@)].k = k], Frame(b, Below(Top(p), k)))],
         UNCHANGED <<tree, size, calls, noted>>
  PROVE  Sound'
<1>s. PICK s : s = job[p].stack
  OBVIOUS
<1>f. PICK f : f = job[p].f
  OBVIOUS
<1>0. TypeOK /\ StackFits(p) /\ job[p] \in Job /\ UNCHANGED <<zone, ptr>> /\ At(p, "free")
  BY AtFits, SoundIs DEF tree
<1>1. /\ f \in File /\ Len(s) \in 1..3 /\ s[1].b = NULL
      /\ job[p].op = "truncate" /\ job[p].nr = NULL /\ job[p].bh = NULL
      /\ Len(s) > 1 => /\ s[1].k \in {DIRECT + 1, DIRECT + 2} /\ s[2].below = s[1].k - DIRECT
                       /\ s[2].b # NULL /\ s[2].b = zone[f][s[1].k]
      /\ Len(s) > 2 => /\ s[2].k \in 1..PER /\ s[2].below = 2 /\ s[3].below = 1
                       /\ s[3].b # NULL /\ s[3].b = ptr[s[2].b][s[2].k]
      /\ \A i \in 1..Len(s) : Passed(p, s[i])
  BY <1>s, <1>f, <1>0 DEF StackFits
<1>r. PICK fr : fr = Top(p)
  OBVIOUS
<1>2. fr = s[Len(s)] /\ Len(s) \in 1..Len(s)
  BY <1>1, <1>s, <1>r DEF Top
<1>3. /\ s \in Seq(Frames) /\ fr \in Frames /\ Passed(p, fr) /\ (fr.b = NULL <=> Len(s) = 1)
      /\ fr.b = NULL => DOMAIN Pointers(p, fr) = InInode
      /\ fr.b # NULL => fr.b \in Inner /\ DOMAIN Pointers(p, fr) = 1..PER
      /\ \A l \in DOMAIN Pointers(p, fr) : l \in Nat \ {0} /\ Pointers(p, fr)[l] \in Pointed
      /\ Left(p, fr) # {} => /\ Min(Left(p, fr)) \in Left(p, fr)
                             /\ \A l \in Left(p, fr) : Min(Left(p, fr)) <= l
  <2>1. PICK d : d = Len(s)
    OBVIOUS
  <2>2. Sound /\ p \in Proc /\ At(p, "free") /\ s = job[p].stack /\ d \in 1..Len(s) /\ fr = s[d]
    BY <1>0, <1>2, <1>s, <2>1
  <2>3. /\ s \in Seq(Frames) /\ fr \in Frames /\ Passed(p, fr) /\ (fr.b = NULL <=> d = 1)
        /\ fr.b = NULL => DOMAIN Pointers(p, fr) = InInode
        /\ fr.b # NULL => fr.b \in Inner /\ DOMAIN Pointers(p, fr) = 1..PER
        /\ \A l \in DOMAIN Pointers(p, fr) : l \in Nat \ {0} /\ Pointers(p, fr)[l] \in Pointed
        /\ Left(p, fr) # {} => /\ Min(Left(p, fr)) \in Left(p, fr)
                               /\ \A l \in Left(p, fr) : Min(Left(p, fr)) <= l
    <3>1. s \in Seq(Frames) /\ fr \in Frames /\ Passed(p, fr) /\ (fr.b = NULL <=> d = 1)
      BY <2>2, FrameFits
    <3>2. /\ fr.b = NULL => DOMAIN Pointers(p, fr) = InInode
          /\ fr.b # NULL => fr.b \in Inner /\ DOMAIN Pointers(p, fr) = 1..PER
      BY <2>2, FrameFits
    <3>3. \A l \in DOMAIN Pointers(p, fr) : l \in Nat \ {0} /\ Pointers(p, fr)[l] \in Pointed
      BY <2>2, FrameFits
    <3>4. Left(p, fr) # {} => Min(Left(p, fr)) \in Left(p, fr)
      BY <2>2, FrameFits
    <3>5. Left(p, fr) # {} => \A l \in Left(p, fr) : Min(Left(p, fr)) <= l
      BY <2>2, FrameFits
    <3>6. QED  BY <3>1, <3>2, <3>3, <3>4, <3>5
  <2>4. QED  BY <2>1, <2>3
<1>4. k \in Left(p, fr) /\ \A l \in Left(p, fr) : k <= l
  BY <1>3, <1>r
<1>5. k \in DOMAIN Pointers(p, fr) /\ k \in Nat \ {0} /\ b = Pointers(p, fr)[k] /\ b # NULL /\ b \in Block
  BY <1>3, <1>4, <1>r DEF Left, Pointed
<1>6. PICK w : w = Below(fr, k)
  OBVIOUS
<1>7. w > 0
  BY <1>6, <1>r
<1>8. ASSUME Len(s) = 1 PROVE /\ k \in {DIRECT + 1, DIRECT + 2} /\ w = k - DIRECT /\ w \in 0..3
                              /\ b = zone[f][k]
  <2>1. k \in 1..(DIRECT + 2) /\ fr.b = NULL
    BY <1>3, <1>5, <1>8 DEF InInode
  <2>2. w = IF k <= DIRECT THEN 0 ELSE k - DIRECT
    BY <1>6, <2>1 DEF Below
  <2>3. b = zone[f][k]
    BY <1>5, <2>1, <1>f DEF Pointers
  <2>4. k > DIRECT /\ w = k - DIRECT
    BY <1>7, <2>1, <2>2, FileBlocksAssumption
  <2>5. k \in {DIRECT + 1, DIRECT + 2} /\ w \in 0..3
    BY <2>1, <2>4, FileBlocksAssumption
  <2>6. QED  BY <2>3, <2>4, <2>5
<1>9. ASSUME Len(s) = 2 PROVE fr.below = 2 /\ w = 1 /\ k \in 1..PER /\ b = ptr[fr.b][k]
  <2>1. w = fr.below - 1 /\ fr.b # NULL
    BY <1>3, <1>6, <1>9 DEF Below
  <2>2. fr.below = 1 \/ fr.below = 2
    BY <1>1, <1>2, <1>9, FileBlocksAssumption
  <2>3. fr.below = 2 /\ w = 1
    BY <1>7, <2>1, <2>2
  <2>4. Pointers(p, fr) = ptr[fr.b] /\ k \in 1..PER
    BY <1>3, <1>5, <2>1 DEF Pointers
  <2>5. QED  BY <1>5, <2>3, <2>4
<1>10. Len(s) # 3
  <2>1. ASSUME Len(s) = 3 PROVE FALSE
    <3>1. fr.below = 1 /\ fr.b # NULL
      BY <1>1, <1>2, <1>3, <2>1
    <3>2. QED  BY <1>6, <1>7, <3>1 DEF Below
  <2>2. QED  BY <2>1
<1>11. Len(s) = 1 \/ Len(s) = 2
  BY <1>1, <1>10
<1>u. PICK u : u = [s EXCEPT ![Len(s)].k = k]
  OBVIOUS
<1>v. PICK v : v = [fr EXCEPT !.k = k]
  OBVIOUS
<1>12. v \in Frames /\ v.b = fr.b /\ v.k = k /\ v.below = fr.below /\ v.busy = fr.busy
  BY <1>3, <1>5, <1>v DEF Frames
<1>13. u \in Seq(Frames) /\ Len(u) = Len(s) /\ u[Len(s)] = v /\ \A i \in 1..(Len(s) - 1) : u[i] = s[i]
  <2>1. u = [s EXCEPT ![Len(s)] = v]
    BY <1>2, <1>3, <1>u, <1>v
  <2>2. QED  BY <1>2, <1>3, <1>12, <2>1
<1>g. PICK g : g = Frame(b, w)
  OBVIOUS
<1>14. g \in Frames /\ g.b = b /\ g.k = 1 /\ g.below = w
  <2>1. w \in 0..3
    BY <1>8, <1>9, <1>11
  <2>2. QED  BY <1>5, <1>g, <2>1 DEF Frame, Frames, Pointed
<1>t. PICK t : t = Append(u, g)
  OBVIOUS
<1>15. t \in Seq(Frames) /\ Len(t) = Len(s) + 1 /\ t[Len(s) + 1] = g /\ t[Len(s)] = v
       /\ \A i \in 1..(Len(s) - 1) : t[i] = s[i]
  BY <1>1, <1>13, <1>14, <1>t
<1>16. job'[p] = [job[p] EXCEPT !.stack = t] /\ job' = [job EXCEPT ![p] = job'[p]]
  BY <1>0, <1>s, <1>r, <1>6, <1>u, <1>g, <1>t DEF TypeOK
<1>17. /\ job'[p] \in Job /\ job'[p].at = "free" /\ job'[p].op = job[p].op /\ job'[p].f = f
       /\ job'[p].new = job[p].new /\ job'[p].nr = job[p].nr /\ job'[p].bh = job[p].bh /\ job'[p].stack = t
  <2>1. job[p].at = "free" /\ f = job[p].f /\ t \in Seq(Frames)
    BY <1>0, <1>15, <1>f DEF At
  <2>2. job'[p] \in Job
    BY <1>0, <1>16, <2>1, StackReplaced
  <2>3. PICK r \in Job : r = job[p]
    BY <1>0
  <2>4. job'[p] = [r EXCEPT !.stack = t]
    BY <1>16, <2>3
  <2>5. DOMAIN r = {"op", "at", "f", "n", "level", "nr", "bh", "new", "stack"}
    BY <2>3 DEF Job
  <2>6. /\ job'[p].at = r.at /\ job'[p].op = r.op /\ job'[p].f = r.f /\ job'[p].new = r.new
        /\ job'[p].nr = r.nr /\ job'[p].bh = r.bh
    BY <2>4, <2>5
  <2>7. job'[p].stack = t
    BY <2>4, <2>5
  <2>8. QED  BY <2>1, <2>2, <2>3, <2>6, <2>7
<1>18. \A x : Pointers(p, x)' = Pointers(p, x)
  BY <1>0, <1>17, <1>f DEF Pointers
<1>19. Passed(p, v)'
  <2>1. Pointers(p, v)' = Pointers(p, fr)
    BY <1>12, <1>18 DEF Pointers
  <2>2. ASSUME NEW l \in DOMAIN Pointers(p, fr), l < k, Pointers(p, fr)[l] # NULL PROVE fr.busy
    <3>1. l \in Nat /\ fr.k \in Nat /\ k \in Nat
      BY <1>3, <1>5 DEF Frames
    <3>2. l < fr.k
      <4>1. l >= fr.k => l \in Left(p, fr)
        BY <2>2 DEF Left
      <4>2. QED  BY <1>4, <2>2, <3>1, <4>1
    <3>3. QED  BY <1>3, <2>2, <3>2 DEF Passed
  <2>3. QED  BY <1>12, <2>1, <2>2 DEF Passed
<1>20. Passed(p, g)'
  <2>1. Pointers(p, g)' = ptr[b] /\ ptr[b] \in [1..PER -> Pointed]
    BY <1>0, <1>5, <1>14, <1>18 DEF Pointers, TypeOK
  <2>2. \A l \in 1..PER : ~(l < 1)
    BY FileBlocksAssumption
  <2>3. QED  BY <1>14, <2>1, <2>2 DEF Passed
<1>21. \A i \in 1..(Len(s) - 1) : Passed(p, t[i])'
  BY <1>1, <1>15, <1>18 DEF Passed
<1>22. \A i \in 1..Len(t) : Passed(p, t[i])'
  <2>1. \A i \in 1..Len(t) : i = Len(s) + 1 \/ i = Len(s) \/ i \in 1..(Len(s) - 1)
    BY <1>1, <1>15
  <2>2. QED  BY <1>15, <1>19, <1>20, <1>21, <2>1
<1>23. StackFits(p)'
  <2>1. CASE Len(s) = 1
    <3>1. /\ Len(t) = 2 /\ t[1] = v /\ t[2] = g /\ v.b = NULL /\ v.k \in {DIRECT + 1, DIRECT + 2}
          /\ g.below = v.k - DIRECT /\ g.b = zone[f][v.k] /\ g.b # NULL
      BY <1>1, <1>2, <1>5, <1>8, <1>12, <1>14, <1>15, <2>1
    <3>2. g.b = zone'[f][v.k] /\ Len(t) \in 1..3 /\ ~(Len(t) > 2)
      BY <1>0, <3>1
    <3>3. QED  BY <1>1, <1>17, <1>22, <3>1, <3>2 DEF StackFits
  <2>2. CASE Len(s) = 2
    <3>1. /\ Len(t) = 3 /\ t[1] = s[1] /\ t[2] = v /\ t[3] = g /\ v.k \in 1..PER /\ v.below = 2
          /\ g.below = 1 /\ g.b = ptr[v.b][v.k] /\ g.b # NULL
      BY <1>5, <1>9, <1>12, <1>14, <1>15, <2>2
    <3>2. /\ s[1].b = NULL /\ s[1].k \in {DIRECT + 1, DIRECT + 2} /\ v.below = s[1].k - DIRECT
          /\ v.b # NULL /\ v.b = zone[f][s[1].k]
      BY <1>1, <1>2, <1>12, <2>2
    <3>3. g.b = ptr'[v.b][v.k] /\ v.b = zone'[f][s[1].k] /\ Len(t) \in 1..3
      BY <1>0, <3>1, <3>2
    <3>4. QED  BY <1>1, <1>17, <1>22, <3>1, <3>2, <3>3 DEF StackFits
  <2>3. QED  BY <1>11, <2>1, <2>2
<1>24. job[p].new = NULL
  BY <1>0, AtFits DEF At
<1>25. QED  BY <1>0, <1>16, <1>17, <1>23, <1>24, <1>f, FrameStep

(***************************************************************************)
(* Truncating: a block is freed, and what is behind it lost.               *)
(***************************************************************************)
LEMMA ForgetSets ==
  ASSUME TypeOK, NEW p \in Proc, NEW f \in File, f = job[p].f, NEW up, up.b = NULL \/ up.b \in Block,
         NEW k \in DOMAIN Pointers(p, up), Forget(p, up, k)
  PROVE  SetAt(f, up.b, k, NULL) /\ Pointers(p, up)[k] = Slot(f, up.b, k)
<1>1. zone \in [File -> [InInode -> Pointed]] /\ ptr \in [Block -> [1..PER -> Pointed]] /\ NULL \in Pointed
  BY DEF TypeOK, InInode, Pointed
<1>2. CASE up.b = NULL
  <2>1. zone' = [zone EXCEPT ![f][k] = NULL] /\ ptr' = ptr /\ Pointers(p, up) = zone[f]
    BY <1>2 DEF Forget, Pointers
  <2>2. k \in InInode
    BY <1>1, <2>1
  <2>3. /\ zone' \in [File -> [InInode -> Pointed]] /\ (\A g \in File : g # f => zone'[g] = zone[g])
        /\ zone'[f] = [zone[f] EXCEPT ![k] = NULL]
    BY <1>1, <2>1, <2>2
  <2>4. QED  BY <1>1, <1>2, <2>1, <2>2, <2>3 DEF SetAt, Slot
<1>3. CASE up.b # NULL
  <2>1. ptr' = [ptr EXCEPT ![up.b][k] = NULL] /\ zone' = zone /\ Pointers(p, up) = ptr[up.b] /\ up.b \in Block
    BY <1>3 DEF Forget, Pointers
  <2>2. k \in 1..PER
    BY <1>1, <2>1
  <2>3. /\ ptr' \in [Block -> [1..PER -> Pointed]] /\ (\A d \in Block : d # up.b => ptr'[d] = ptr[d])
        /\ ptr'[up.b] = [ptr[up.b] EXCEPT ![k] = NULL]
    BY <1>1, <2>1, <2>2
  <2>4. QED  BY <1>1, <1>3, <2>1, <2>2, <2>3 DEF SetAt, Slot
<1>4. QED  BY <1>2, <1>3

(* The truncate itself goes on with frame up at depth d. *)
LEMMA OwnCut ==
  ASSUME Sound, NEW p \in Proc, At(p, "free"), NEW s, s = job[p].stack, NEW d \in 1..Len(s), NEW up, up = s[d],
         NEW k \in DOMAIN Pointers(p, up), SetAt(job[p].f, up.b, k, NULL),
         NEW v \in Frames, v.b = up.b, v.below = up.below, v.k = k + 1, v.busy = up.busy,
         SetTop(p, v, d),
         \A l \in DOMAIN Pointers(p, up) : l < k /\ Pointers(p, up)[l] # NULL => up.busy
  PROVE  job'[p] \in Job /\ StackFits(p)'
<1>0. TypeOK /\ Unique /\ StackFits(p) /\ job[p] \in Job
  BY AtFits, SoundIs
<1>f. PICK f \in File : f = job[p].f
  BY <1>0 DEF StackFits
<1>e. PICK e : e = up.b
  OBVIOUS
<1>1. /\ Len(s) \in 1..3 /\ s[1].b = NULL
      /\ Len(s) > 1 => /\ s[1].k \in {DIRECT + 1, DIRECT + 2} /\ s[2].b # NULL /\ s[2].b = zone[f][s[1].k]
      /\ Len(s) > 2 => /\ s[2].k \in 1..PER /\ s[3].b # NULL /\ s[3].b = ptr[s[2].b][s[2].k]
      /\ \A i \in 1..Len(s) : Passed(p, s[i])
  BY <1>0, <1>f DEF StackFits
<1>2. \A i \in 2..Len(s) : s[i].b \in Inner /\ s[i].b \in Block /\ s[i].b # NULL
  <2>1. \A i \in 2..Len(s) : InFile(f, s[i].b)
    BY <1>0, <1>f, StackInFile
  <2>2. QED  BY <1>0, <2>1, InFileIsInner, InnerAreBlocks
<1>3. /\ e = NULL => zone'[f] = [zone[f] EXCEPT ![k] = NULL] /\ k \in InInode
      /\ e # NULL => /\ \A g \in File : zone'[g] = zone[g]
                     /\ ptr'[e] = [ptr[e] EXCEPT ![k] = NULL] /\ k \in 1..PER /\ e \in Block
      /\ \A c \in Block : c # e => ptr'[c] = ptr[c]
  BY <1>e, <1>f, Last DEF SetAt
<1>4. d > 1 => e # NULL /\ zone'[f] = zone[f]
  <2>1. d > 1 => d \in 2..Len(s)
    BY <1>1
  <2>2. QED  BY <1>2, <1>3, <1>e, <2>1
<1>5. d > 2 => ptr'[s[2].b] = ptr[s[2].b]
  <2> SUFFICES ASSUME d > 2 PROVE ptr'[s[2].b] = ptr[s[2].b]
    OBVIOUS
  <2>1. d = 3 /\ 2 \in 2..Len(s) /\ Len(s) > 2 /\ Len(s) > 1
    BY <1>1, DepthIs
  <2>2. s[1].k \in InInode /\ s[2].k \in 1..PER /\ s[2].b \in Inner /\ s[2].b \in Block
    BY <1>1, <1>2, <2>1, Last
  <2>3. zone[f][s[1].k] # NULL /\ zone[f][s[1].k] # ptr[s[2].b][s[2].k]
    <3>1. \A g \in File, i \in InInode, c \in Inner, l \in 1..PER : zone[g][i] # NULL => zone[g][i] # ptr[c][l]
      BY <1>0 DEF Unique, InInode
    <3>2. QED  BY <1>1, <2>1, <2>2, <3>1
  <2>4. e # s[2].b
    BY <1>1, <1>e, <2>1, <2>3
  <2>5. QED  BY <1>3, <2>2, <2>4
<1>t. PICK t : t = [SubSeq(s, 1, d) EXCEPT ![d] = v]
  OBVIOUS
<1>6. job'[p] = [job[p] EXCEPT !.stack = t] /\ job' = [job EXCEPT ![p] = job'[p]]
  BY <1>0, <1>t DEF SetTop, TypeOK
<1>7. job'[p].f = f
  BY <1>0, <1>6, <1>f DEF Job
<1>8. \A i \in 1..(d - 1) : Passed(p, s[i])'
  <2> SUFFICES ASSUME NEW i \in 1..(d - 1) PROVE Passed(p, s[i])'
    OBVIOUS
  <2>1. i \in 1..Len(s) /\ d > 1 /\ (i = 1 \/ (i = 2 /\ d > 2 /\ 2 \in 2..Len(s)))
    BY <1>1, DepthIs
  <2>2. Pointers(p, s[i])' = Pointers(p, s[i])
    BY <1>1, <1>2, <1>4, <1>5, <1>7, <1>f, <2>1 DEF Pointers
  <2>3. QED  BY <1>1, <2>1, <2>2 DEF Passed
<1>9. Passed(p, v)'
  <2>1. Pointers(p, v)' = [Pointers(p, up) EXCEPT ![k] = NULL]
    BY <1>3, <1>7, <1>e, <1>f DEF Pointers
  <2>2. \A l \in DOMAIN Pointers(p, up) : l \in Nat
    <3>1. DOMAIN Pointers(p, up) = InInode \/ DOMAIN Pointers(p, up) = 1..PER
      BY <1>0, <1>3, <1>e, <1>f DEF Pointers, TypeOK, InInode
    <3>2. QED  BY <3>1, FileBlocksAssumption DEF InInode
  <2>3. ASSUME NEW l \in DOMAIN Pointers(p, up), l < k + 1, Pointers(p, v)'[l] # NULL PROVE up.busy
    <3>1. l # k /\ Pointers(p, up)[l] # NULL
      BY <2>1, <2>3
    <3>2. l \in Nat /\ k \in Nat
      BY <2>2
    <3>3. l < k
      BY <2>3, <3>1, <3>2
    <3>4. QED  BY <3>1, <3>3
  <2>4. QED  BY <2>1, <2>3 DEF Passed
<1>10. /\ TypeOK /\ p \in Proc /\ StackFits(p) /\ At(p, "free") /\ s = job[p].stack
       /\ d \in 1..Len(s) /\ v \in Frames /\ v.b = s[d].b /\ v.below = s[d].below
       /\ job'[p] = [job[p] EXCEPT !.stack = [SubSeq(s, 1, d) EXCEPT ![d] = v]]
  BY <1>0, <1>6, <1>t
<1>11. /\ d > 1 => zone'[job[p].f][s[1].k] = zone[job[p].f][s[1].k]
       /\ d > 2 => ptr'[s[2].b][s[2].k] = ptr[s[2].b][s[2].k]
       /\ \A i \in 1..(d - 1) : Passed(p, s[i])'
       /\ Passed(p, v)'
  BY <1>4, <1>5, <1>8, <1>9, <1>f
<1>12. QED  BY ONLY <1>10, <1>11, SetTopFits

(* minix_free_block, and the pointer to the block. *)
LEMMA CutStep ==
  ASSUME Sound, NEW p \in Proc, At(p, "free"), NEW s, s = job[p].stack, NEW d \in 1..Len(s), NEW up, up = s[d],
         NEW k \in DOMAIN Pointers(p, up), NEW b \in Block, b = Pointers(p, up)[k],
         zmap' = zmap \ {b}, Forget(p, up, k), lost' = lost \cup Behind(b),
         NEW v \in Frames, v.b = up.b, v.below = up.below, v.k = k + 1, v.busy = up.busy,
         SetTop(p, v, d), UNCHANGED <<data, size, calls, noted>>,
         \A l \in DOMAIN Pointers(p, up) : l < k /\ Pointers(p, up)[l] # NULL => up.busy
  PROVE  Sound'
<1>0. /\ TypeOK /\ Unique /\ Leaves /\ LostFits /\ StackFits(p) /\ job[p] \in Job
      /\ job[p].new = NULL /\ job[p].at = "free"
      /\ \A c \in Block : Referenced(c) => c \in zmap /\ c \notin lost
      /\ \A c \in zmap : Referenced(c) \/ c \in lost \/ \E q \in Proc : job[q].new = c
  BY AtFits, SoundIs DEF At
<1>f. PICK f \in File : f = job[p].f
  BY <1>0 DEF StackFits
<1>e. PICK e : e = up.b
  OBVIOUS
<1>g. PICK G : G = Gone(b)
  OBVIOUS
<1>1. job[p].op = "truncate" /\ (e = NULL \/ InFile(f, e))
  <2>1. /\ job[p].op = "truncate" /\ Len(s) \in 1..3 /\ s[1].b = NULL
        /\ \A i \in 2..Len(s) : InFile(f, s[i].b)
    BY <1>0, <1>f, StackInFile
  <2>2. d = 1 \/ d \in 2..Len(s)
    BY <2>1
  <2>3. QED  BY <1>e, <2>1, <2>2
<1>2. e = NULL \/ (e \in Inner /\ e \in Block /\ Referenced(e) /\ e \notin lost /\ e # NULL)
  BY <1>0, <1>1, InFileIsInner, InnerAreBlocks, InnerIsReferenced
<1>3. SetAt(f, e, k, NULL) /\ b = Slot(f, e, k) /\ b # NULL
  BY <1>0, <1>2, <1>e, <1>f, ForgetSets, Last
<1>4. IF e = NULL THEN k \in InInode ELSE e \in Block /\ k \in 1..PER
  BY <1>3 DEF SetAt
<1>5. Referenced(b)
  <2>1. IF e = NULL THEN k \in InInode ELSE k \in 1..PER
    BY <1>4
  <2>2. Slot(f, e, k) # NULL => Referenced(Slot(f, e, k))
    BY <1>0, <1>2, <2>1, SlotFits
  <2>3. QED  BY <1>3, <2>2
<1>6. /\ G = {b} \cup Behind(b) /\ G \subseteq Block /\ b \notin Behind(b) /\ e \notin G
      /\ (\A x \in G : Referenced(x)) /\ \A x \in Behind(b) : Children(x) \subseteq Behind(b)
  <2>1. /\ Behind(b) \subseteq Block /\ \A x \in Behind(b) : Referenced(x)
        /\ \A x \in Behind(b) : Children(x) \subseteq Behind(b)
        /\ \A x \in Behind(b) : \A g \in File, l \in InInode : zone[g][l] # x
        /\ \A x \in Behind(b) : \A c \in Inner, l \in 1..PER : ptr[c][l] = x => c \in Gone(b)
        /\ \A c \in Inner, l \in 1..PER : ptr[c][l] = b => c \notin Gone(b)
    BY <1>0, <1>5, GoneFits
  <2>2. G = {b} \cup Behind(b) /\ G = Gone(b)
    BY <1>3, <1>g DEF Gone
  <2>3. e # NULL => ptr[e][k] = b /\ k \in 1..PER /\ e \in Inner
    BY <1>2, <1>3, <1>4 DEF Slot
  <2>4. e = NULL => zone[f][k] = b /\ k \in InInode
    BY <1>3, <1>4 DEF Slot
  <2>5. e # NULL => e \notin G
    BY <2>1, <2>2, <2>3
  <2>6. b \notin Behind(b)
    BY <2>1, <2>2, <2>3, <2>4, <2>5
  <2>7. QED  BY <1>5, <2>1, <2>2, <2>5, <2>6, Last
<1>7. Swaps(G, NULL)
  <2>1. PICK n : n = NULL
    OBVIOUS
  <2>2. SetAt(f, e, k, n) /\ (n # NULL => ~Referenced(n)) /\ (e = NULL \/ e \in Inner)
    BY <1>2, <1>3, <2>1
  <2>3. Swaps(Gone(Slot(f, e, k)), n)
    BY <1>0, <2>2, SetSwaps
  <2>4. QED  BY <1>3, <1>g, <2>1, <2>3
<1>8. Unique' /\ \A c \in Block : Referenced(c)' <=> Referenced(c) /\ c \notin G
  BY <1>0, <1>7, SwapFits, Last
<1>9. Inner \ G \subseteq Inner'
  BY <1>0, <1>7, SwapInner
<1>10. \A c \in Block : c # e => ptr'[c] = ptr[c] /\ Children(c)' = Children(c)
  BY <1>3, Last DEF SetAt, Children
<1>11. /\ job' = [job EXCEPT ![p] = job'[p]] /\ job'[p] \in Job /\ StackFits(p)'
       /\ job'[p].at = "free" /\ job'[p].op = job[p].op /\ job'[p].f = job[p].f /\ job'[p].new = NULL
  <2>1. job'[p] \in Job /\ StackFits(p)'
    <3>1. SetAt(job[p].f, up.b, k, NULL)
      BY <1>3, <1>e, <1>f
    <3>2. QED  BY <3>1, OwnCut
  <2>2. PICK t : job' = [job EXCEPT ![p].stack = t]
    BY DEF SetTop
  <2>3. job' = [job EXCEPT ![p] = job'[p]] /\ job'[p] = [job[p] EXCEPT !.stack = t]
    BY <1>0, <2>2 DEF TypeOK
  <2>4. /\ job'[p].at = "free" /\ job'[p].op = job[p].op /\ job'[p].f = job[p].f /\ job'[p].new = NULL
    BY <1>0, <2>3 DEF Job
  <2>5. QED  BY <2>1, <2>3, <2>4
<1>12. \A q \in Proc \ {p} : job'[q] = job[q]
  BY <1>0, <1>11 DEF TypeOK
<1>13. TypeOK'
  <2>1. job' \in [Proc -> Job]
    BY <1>0, <1>11 DEF TypeOK
  <2>2. zmap' \subseteq Block /\ data' = data /\ size' = size /\ calls' = calls /\ lost' \subseteq Block
    BY <1>0, <1>6 DEF TypeOK
  <2>3. panicked' \in BOOLEAN /\ mixed' \in BOOLEAN
    BY <1>0, NotedFit
  <2>4. zone' \in [File -> [InInode -> Pointed]] /\ ptr' \in [Block -> [1..PER -> Pointed]]
    BY <1>3 DEF SetAt
  <2>5. QED  BY <1>0, <2>1, <2>2, <2>3, <2>4 DEF TypeOK, InInode
<1>14. TreeFits'
  <2>1. ASSUME NEW c \in Block, Referenced(c)' PROVE c \in zmap' /\ c \notin lost'
    BY <1>0, <1>6, <1>8, <2>1
  <2>2. ASSUME NEW c \in Block, Referenced(c)', c \notin Inner' PROVE Children(c)' = {}
    <3>1. Referenced(c) /\ c \notin G /\ c \notin Inner
      BY <1>8, <1>9, <2>2
    <3>2. c # e
      BY <1>2, <3>1, Last
    <3>3. QED  BY <1>0, <1>10, <3>1, <3>2 DEF Leaves
  <2>3. ASSUME NEW c \in zmap', ~Referenced(c)', c \notin lost' PROVE \E q \in Proc : job'[q].new = c
    <3>1. c \in zmap /\ c \in Block /\ c # NULL
      BY <1>0, <2>3, Last DEF TypeOK
    <3>2. c \notin lost /\ c \notin G /\ ~Referenced(c)
      BY <1>6, <1>8, <2>3, <3>1
    <3>3. PICK q \in Proc : job[q].new = c
      BY <1>0, <3>1, <3>2
    <3>4. q # p
      BY <1>0, <3>1, <3>3
    <3>5. QED  BY <1>12, <3>3, <3>4
  <2>4. QED  BY <1>8, <2>1, <2>2, <2>3 DEF TreeFits
<1>15. LostFits'
  <2>1. lost' \subseteq zmap'
    BY <1>0, <1>5, <1>6 DEF LostFits, TypeOK
  <2>2. ASSUME NEW c \in lost' PROVE Children(c)' \subseteq lost'
    <3>1. c \in Block /\ c # e
      BY <1>0, <1>2, <1>6, <2>2, Last DEF TypeOK
    <3>2. Children(c) \subseteq lost'
      BY <1>0, <1>6, <2>2 DEF LostFits
    <3>3. QED  BY <1>10, <3>1, <3>2
  <2>3. QED  BY <2>1, <2>2 DEF LostFits
<1>16. ASSUME NEW q \in Proc \ {p} PROVE JobFits(q)'
  <2>1. /\ job'[q] = job[q] /\ JobFits(q) /\ job[q] \in Job /\ NewFits(job[q])
        /\ ~Changing(q, "write", f) /\ ~Changing(q, "truncate", f)
    BY <1>1, <1>12, <1>f, AtFits, SoundIs DEF Apart
  <2>2. job[q].op \in {"write", "truncate"} => job[q].f \in File /\ job[q].f # f
    <3>1. job[q].at = "free" \/ job[q].at = "out" \/ job[q].at \in Walking
      BY <2>1 DEF Job, Walking
    <3>2. QED  BY <2>1, <3>1, OutFits DEF JobFits, StackFits, WalkFits, At, Changing
  <2>3. job[q].op = "write" => \A x \in G : x \in lost' \/ ~InFile(job[q].f, x)
    <3>1. job[q].op = "write" => ~InFile(job[q].f, b)
      <4>1. PICK h : h = job[q].f
        OBVIOUS
      <4>2. (IF e = NULL THEN k \in InInode ELSE k \in 1..PER) /\ Slot(f, e, k) # NULL
        BY <1>3, <1>4
      <4>3. ASSUME h \in File, h # f PROVE ~InFile(h, Slot(f, e, k))
        BY <1>0, <1>1, <4>2, <4>3, SlotApart
      <4>4. QED  BY <1>3, <2>2, <4>1, <4>3
    <3>2. QED  BY <1>6, <3>1
  <2>4. job[q].new # NULL => job[q].new \in zmap' /\ job[q].new \notin lost'
    <3>1. job[q].new # NULL => job[q].new \in zmap /\ job[q].new \notin lost /\ ~Referenced(job[q].new)
      BY <2>1 DEF NewFits
    <3>2. QED  BY <1>6, <3>1
  <2>5. ASSUME job[q].op = "truncate"
        PROVE  zone'[job[q].f] = zone[job[q].f] /\ \A c : InFile(job[q].f, c) => ptr'[c] = ptr[c]
    <3>1. zone'[job[q].f] = zone[job[q].f]
      BY <1>3, <2>2, <2>5 DEF SetAt
    <3>2. ASSUME NEW c, InFile(job[q].f, c) PROVE ptr'[c] = ptr[c]
      <4>1. c \in Block /\ c # NULL
        BY <1>0, <2>2, <2>5, <3>2, InFileIsInner, InnerAreBlocks
      <4>2. c # e
        BY <1>0, <1>1, <2>2, <2>5, <3>2, <4>1, InFileApart
      <4>3. QED  BY <1>10, <4>1, <4>2
    <3>3. QED  BY <3>1, <3>2
  <2>6. lost \subseteq lost'
    OBVIOUS
  <2>7. QED  BY <1>7, <2>1, <2>3, <2>4, <2>5, <2>6, OtherFits
<1>17. JobFits(p)'
  <2>1. WalkFits(job[p])' /\ NewFits(job[p])' /\ WriterFits(job[p])'
    BY <1>11 DEF WalkFits, WriterFits, Walking, NewFits
  <2>2. QED  BY <1>11, <2>1 DEF JobFits, At
<1>18. (\A q, r \in Proc : q # r => Apart(q, r))'
  <2>1. PICK j \in Job : j = job'[p]
    BY <1>11
  <2>2. job' = [job EXCEPT ![p] = j] /\ j.at = "free" /\ j.new = NULL /\ j.op = job[p].op /\ j.f = job[p].f
    BY <1>11, <2>1
  <2>3. \A q \in Proc \ {p} :
          /\ j.op = "truncate" => ~Changing(q, "write", j.f) /\ ~Changing(q, "truncate", j.f)
          /\ job[q].op = "truncate" => ~(j.op \in {"write", "truncate"} /\ j.f = job[q].f)
    BY <2>2, GoesOn
  <2>4. TypeOK /\ \A q, r \in Proc : q # r => Apart(q, r)
    BY SoundIs
  <2>5. QED  BY <2>2, <2>3, <2>4, Exclusive
<1>19. QED  BY <1>13, <1>14, <1>15, <1>16, <1>17, <1>18 DEF Sound, Fits

LEMMA FreeNextStep == ASSUME Sound, NEW p \in Proc, FreeNext(p) PROVE Sound'
<1>0. /\ At(p, "free") /\ TypeOK /\ Unique /\ StackFits(p) /\ Left(p, Top(p)) # {}
      /\ UNCHANGED <<data, size, calls, noted>>
  BY AtFits, SoundIs DEF FreeNext
<1>s. PICK s : s = job[p].stack
  OBVIOUS
<1>r. PICK fr : fr = Top(p)
  OBVIOUS
<1>k. PICK k : k = Min(Left(p, fr))
  OBVIOUS
<1>b. PICK b : b = Pointers(p, fr)[k]
  OBVIOUS
<1>d. PICK d : d = Len(s)
  OBVIOUS
<1>1. d \in 1..Len(s) /\ fr = s[d] /\ fr = s[Len(s)] /\ d \in 1..3
  BY <1>0, <1>s, <1>r, <1>d, StackInFile DEF Top
<1>2. /\ fr \in Frames /\ Passed(p, fr)
      /\ \A l \in DOMAIN Pointers(p, fr) : l \in Nat \ {0} /\ Pointers(p, fr)[l] \in Pointed
      /\ Left(p, fr) # {} => /\ Min(Left(p, fr)) \in Left(p, fr)
                             /\ \A l \in Left(p, fr) : Min(Left(p, fr)) <= l
  <2>1. Sound /\ p \in Proc /\ At(p, "free") /\ s = job[p].stack /\ d \in 1..Len(s) /\ fr = s[d]
    BY <1>0, <1>1, <1>s
  <2>2. fr \in Frames /\ Passed(p, fr)
    BY <2>1, FrameFits
  <2>3. \A l \in DOMAIN Pointers(p, fr) : l \in Nat \ {0} /\ Pointers(p, fr)[l] \in Pointed
    BY <2>1, FrameFits
  <2>4. Left(p, fr) # {} => Min(Left(p, fr)) \in Left(p, fr)
    BY <2>1, FrameFits
  <2>5. Left(p, fr) # {} => \A l \in Left(p, fr) : Min(Left(p, fr)) <= l
    BY <2>1, FrameFits
  <2>6. QED  BY <2>2, <2>3, <2>4, <2>5
<1>3. /\ k \in DOMAIN Pointers(p, fr) /\ k \in Nat \ {0} /\ b \in Block /\ b # NULL
      /\ \A l \in Left(p, fr) : k <= l
  BY <1>0, <1>2, <1>r, <1>k, <1>b DEF Left, Pointed
<1>4. ASSUME NEW l \in DOMAIN Pointers(p, fr), l < k, Pointers(p, fr)[l] # NULL PROVE fr.busy
  <2>1. l \in Nat /\ fr.k \in Nat /\ k \in Nat
    BY <1>2, <1>3 DEF Frames
  <2>2. l >= fr.k => l \in Left(p, fr)
    BY <1>4 DEF Left
  <2>3. l < fr.k
    BY <1>3, <1>4, <2>1, <2>2
  <2>4. QED  BY <1>2, <1>4, <2>3 DEF Passed
<1>5. CASE Below(fr, k) > 0 /\ job' = [job EXCEPT ![p].stack = Append([@ EXCEPT ![Len(@)].k = k], Frame(b, Below(fr, k)))]
           /\ UNCHANGED <<zmap, zone, ptr, lost>>
  BY <1>0, <1>5, <1>r, <1>k, <1>b, PushStep DEF tree
<1>6. CASE FreeBlock(p, b, fr, k, d, Behind(b))
  <2>1. PICK v : v = [fr EXCEPT !.k = k + 1]
    OBVIOUS
  <2>2. PICK w : w = [fr EXCEPT !.k = k + 1, !.busy = TRUE]
    OBVIOUS
  <2>3. k + 1 \in Nat \ {0}
    BY <1>3
  <2>4. v \in Frames /\ v.b = fr.b /\ v.below = fr.below /\ v.k = k + 1 /\ v.busy = fr.busy
    BY <1>2, <2>1, <2>3 DEF Frames
  <2>5. w \in Frames /\ w.b = fr.b /\ w.below = fr.below /\ w.busy
    BY <1>2, <2>2, <2>3 DEF Frames
  <2>6. CASE zmap' = zmap \ {b} /\ Forget(p, fr, k) /\ SetTop(p, v, d) /\ lost' = lost \cup Behind(b)
    <3>1. /\ Sound /\ p \in Proc /\ At(p, "free") /\ s = job[p].stack /\ d \in 1..Len(s) /\ fr = s[d]
          /\ k \in DOMAIN Pointers(p, fr) /\ b \in Block /\ b = Pointers(p, fr)[k]
          /\ zmap' = zmap \ {b} /\ Forget(p, fr, k) /\ SetTop(p, v, d) /\ UNCHANGED <<data, size, calls, noted>>
          /\ lost' = lost \cup Behind(b)
          /\ \A l \in DOMAIN Pointers(p, fr) : l < k /\ Pointers(p, fr)[l] # NULL => fr.busy
      BY <1>0, <1>1, <1>3, <1>4, <1>b, <1>s, <2>6
    <3>2. QED  BY ONLY <2>4, <3>1, CutStep
  <2>7. CASE SetTop(p, w, d) /\ UNCHANGED <<zmap, zone, ptr, lost>>
    <3>1. /\ Sound /\ p \in Proc /\ At(p, "free") /\ s = job[p].stack /\ d \in 1..Len(s)
          /\ w \in Frames /\ w.b = s[d].b /\ w.below = s[d].below /\ w.busy
          /\ SetTop(p, w, d) /\ UNCHANGED <<tree, size, calls, noted>>
      BY <1>0, <1>1, <1>s, <2>5, <2>7 DEF tree
    <3>2. QED  BY ONLY <3>1, BusyStep
  <2>8. QED  BY <1>6, <2>1, <2>2, <2>6, <2>7 DEF FreeBlock
<1>7. QED  BY <1>0, <1>5, <1>6, <1>r, <1>k, <1>b, <1>s, <1>d DEF FreeNext

LEMMA FreeSelfStep == ASSUME Sound, NEW p \in Proc, FreeSelf(p) PROVE Sound'
<1>0. /\ At(p, "free") /\ TypeOK /\ Unique /\ StackFits(p) /\ Left(p, Top(p)) = {}
      /\ Len(job[p].stack) > 1 /\ UNCHANGED <<data, size, calls, noted>>
  BY AtFits, SoundIs DEF FreeSelf
<1>s. PICK s : s = job[p].stack
  OBVIOUS
<1>f. PICK f : f = job[p].f
  OBVIOUS
<1>d. PICK d : d = Len(s)
  OBVIOUS
<1>e. PICK e : e = d - 1
  OBVIOUS
<1>r. PICK fr : fr = s[d]
  OBVIOUS
<1>u. PICK up : up = s[e]
  OBVIOUS
<1>b. PICK b : b = fr.b
  OBVIOUS
<1>1. /\ f \in File /\ d \in 1..3 /\ d > 1 /\ s[1].b = NULL
      /\ s[1].k \in {DIRECT + 1, DIRECT + 2} /\ s[2].b # NULL /\ s[2].b = zone[f][s[1].k]
      /\ d > 2 => /\ s[2].k \in 1..PER /\ s[3].b # NULL /\ s[3].b = ptr[s[2].b][s[2].k]
      /\ \A i \in 1..d : Passed(p, s[i])
      /\ \A i \in 2..d : s[i].b \in Inner /\ s[i].b \in Block
  <2>1. /\ f \in File /\ d \in 1..3 /\ d > 1 /\ s[1].b = NULL
        /\ s[1].k \in {DIRECT + 1, DIRECT + 2} /\ s[2].b # NULL /\ s[2].b = zone[f][s[1].k]
        /\ d > 2 => /\ s[2].k \in 1..PER /\ s[3].b # NULL /\ s[3].b = ptr[s[2].b][s[2].k]
        /\ \A i \in 1..d : Passed(p, s[i])
    BY <1>0, <1>s, <1>f, <1>d DEF StackFits
  <2>2. \A i \in 2..d : InFile(f, s[i].b)
    BY <1>0, <1>s, <1>f, <1>d, StackInFile
  <2>3. \A i \in 2..d : s[i].b \in Inner
    BY <2>1, <2>2, InFileIsInner
  <2>4. QED  BY <1>0, <2>1, <2>3, InnerAreBlocks
<1>2. e \in 1..d /\ d \in 1..d /\ d \in 2..d /\ ((d = 2 /\ e = 1) \/ (d = 3 /\ e = 2))
  <2>1. d = 2 \/ d = 3
    BY <1>1
  <2>2. QED  BY <1>e, <2>1
<1>3. fr = Top(p)
  BY <1>s, <1>d, <1>r DEF Top
<1>4. up \in Frames /\ up.k \in Nat \ {0}
  <2>1. Sound /\ p \in Proc /\ At(p, "free") /\ s = job[p].stack /\ e \in 1..Len(s) /\ up = s[e]
    BY <1>0, <1>2, <1>s, <1>d, <1>u
  <2>2. up \in Frames
    BY <2>1, FrameFits
  <2>3. QED  BY <2>2 DEF Frames
<1>5. b \in Inner /\ b \in Block /\ b # NULL
  BY <1>1, <1>2, <1>r, <1>b, Last
<1>6. up.k \in DOMAIN Pointers(p, up) /\ b = Pointers(p, up)[up.k]
  <2>1. CASE d = 2 /\ e = 1
    <3>1. up.b = NULL /\ up.k \in InInode /\ b = zone[f][up.k]
      BY <1>1, <1>b, <1>r, <1>u, <2>1, Last
    <3>2. Pointers(p, up) = zone[f] /\ DOMAIN zone[f] = InInode
      BY <1>0, <1>1, <1>f, <3>1 DEF Pointers, TypeOK, InInode
    <3>3. QED  BY <3>1, <3>2
  <2>2. CASE d = 3 /\ e = 2
    <3>1. up.b \in Block /\ up.k \in 1..PER /\ b = ptr[up.b][up.k] /\ up.b # NULL
      BY <1>1, <1>b, <1>r, <1>u, <2>2, Last
    <3>2. Pointers(p, up) = ptr[up.b] /\ DOMAIN ptr[up.b] = 1..PER
      BY <1>0, <3>1 DEF Pointers, TypeOK
    <3>3. QED  BY <3>1, <3>2
  <2>3. QED  BY <1>2, <2>1, <2>2
<1>7. \A l \in DOMAIN Pointers(p, up) : l < up.k /\ Pointers(p, up)[l] # NULL => up.busy
  <2>1. Passed(p, up)
    BY <1>1, <1>2, <1>u
  <2>2. QED  BY <2>1 DEF Passed
<1>8. ASSUME ~fr.busy PROVE Behind(b) = {}
  <2>1. Pointers(p, fr) = ptr[b] /\ DOMAIN ptr[b] = 1..PER
    BY <1>0, <1>5, <1>b DEF Pointers, TypeOK
  <2>2. Passed(p, fr) /\ fr \in Frames
    <3>1. Sound /\ p \in Proc /\ At(p, "free") /\ s = job[p].stack /\ d \in 1..Len(s) /\ fr = s[d]
      BY <1>0, <1>2, <1>s, <1>d, <1>r
    <3>2. QED  BY <3>1, FrameFits
  <2>3. ASSUME NEW l \in 1..PER, ptr[b][l] # NULL PROVE FALSE
    <3>1. ~(l < fr.k)
      BY <1>8, <2>1, <2>2, <2>3 DEF Passed
    <3>2. ~(l >= fr.k)
      BY <1>0, <1>3, <2>1, <2>3 DEF Left
    <3>3. l \in Nat /\ fr.k \in Nat
      BY <2>2 DEF Frames
    <3>4. QED  BY <3>1, <3>2, <3>3
  <2>4. QED  BY <2>3 DEF Behind, Children
<1>v. PICK v : v = [up EXCEPT !.k = up.k + 1]
  OBVIOUS
<1>w. PICK w : w = [up EXCEPT !.k = up.k + 1, !.busy = TRUE]
  OBVIOUS
<1>9. up.k + 1 \in Nat \ {0}
  BY <1>4
<1>10. v \in Frames /\ v.b = up.b /\ v.below = up.below /\ v.k = up.k + 1 /\ v.busy = up.busy
  BY <1>4, <1>9, <1>v DEF Frames
<1>11. w \in Frames /\ w.b = up.b /\ w.below = up.below /\ w.busy
  BY <1>4, <1>9, <1>w DEF Frames
<1>12. CASE /\ ~fr.busy /\ zmap' = zmap \ {b} /\ Forget(p, up, up.k) /\ SetTop(p, v, e)
            /\ lost' = lost \cup {}
  <2>1. PICK k : k = up.k
    OBVIOUS
  <2>2. lost' = lost \cup Behind(b)
    BY <1>8, <1>12
  <2>3. /\ Sound /\ p \in Proc /\ At(p, "free") /\ s = job[p].stack /\ e \in 1..Len(s) /\ up = s[e]
        /\ k \in DOMAIN Pointers(p, up) /\ b \in Block /\ b = Pointers(p, up)[k]
        /\ v \in Frames /\ v.b = up.b /\ v.below = up.below /\ v.k = k + 1 /\ v.busy = up.busy
        /\ zmap' = zmap \ {b} /\ Forget(p, up, k) /\ SetTop(p, v, e) /\ UNCHANGED <<data, size, calls, noted>>
        /\ lost' = lost \cup Behind(b)
        /\ \A l \in DOMAIN Pointers(p, up) : l < k /\ Pointers(p, up)[l] # NULL => up.busy
    BY <1>0, <1>2, <1>5, <1>6, <1>7, <1>10, <1>12, <1>s, <1>d, <1>u, <2>1, <2>2
  <2>4. QED  BY ONLY <2>3, CutStep
<1>13. CASE SetTop(p, w, e) /\ UNCHANGED <<zmap, zone, ptr, lost>>
  <2>1. /\ Sound /\ p \in Proc /\ At(p, "free") /\ s = job[p].stack /\ e \in 1..Len(s)
        /\ w \in Frames /\ w.b = s[e].b /\ w.below = s[e].below /\ w.busy
        /\ SetTop(p, w, e) /\ UNCHANGED <<tree, size, calls, noted>>
    BY <1>0, <1>2, <1>11, <1>13, <1>s, <1>d, <1>u DEF tree
  <2>2. QED  BY ONLY <2>1, BusyStep
<1>14. \/ ~Keep(fr) /\ FreeBlock(p, b, up, up.k, e, {})
       \/ SetTop(p, w, e) /\ UNCHANGED <<zmap, zone, ptr, lost>>
  BY <1>3, <1>s, <1>d, <1>e, <1>u, <1>b, <1>w DEF FreeSelf
<1>15. QED  BY <1>12, <1>13, <1>14, <1>v, <1>w DEF FreeBlock, Keep

(***************************************************************************)
(* The invariant.                                                          *)
(***************************************************************************)
LEMMA InitFits == Init => IInv
<1> SUFFICES ASSUME Init PROVE IInv
  OBVIOUS
<1>1. zone = [f \in File |-> [k \in InInode |-> NULL]] /\ ptr = [b \in Block |-> [k \in 1..PER |-> NULL]]
  BY DEF Init, InInode, NoPtr
<1>2. \A f \in File, k \in InInode : zone[f][k] = NULL
  BY <1>1
<1>3. Inner = {}
  BY <1>2, InnerIs, Last DEF Leads
<1>4. TypeOK
  <2>1. Out \in Job
    BY OutFits
  <2>2. NULL \in Pointed /\ 0 \in Nat
    BY DEF Pointed
  <2>3. QED  BY <1>1, <2>1, <2>2 DEF Init, TypeOK, InInode
<1>5. TreeFits
  <2>1. Unique
    BY <1>2, <1>3 DEF Unique, InInode
  <2>2. \A b \in Block : ~Referenced(b)
    BY <1>2, <1>3, Last DEF Referenced, InInode
  <2>3. QED  BY <2>1, <2>2 DEF TreeFits, Init
<1>6. LostFits
  BY DEF LostFits, Init
<1>7. \A p \in Proc : job[p] = Out
  BY DEF Init
<1>8. \A p \in Proc : JobFits(p)
  BY <1>7, OutFits DEF JobFits, At, WalkFits, WriterFits, Walking, NewFits, StackFits
<1>9. \A p, q \in Proc : p # q => Apart(p, q)
  BY <1>7, OutFits DEF Apart
<1>10. QED  BY <1>4, <1>5, <1>6, <1>8, <1>9 DEF IInv, Fits

LEMMA StutterFits == ASSUME IInv, UNCHANGED vars PROVE IInv'
<1>1. UNCHANGED <<zmap, zone, ptr, data, size, job, calls, panicked, lost, mixed>>
  BY DEF vars
<1>2. TypeOK'
  BY <1>1 DEF IInv, TypeOK
<1>3. ASSUME ~mixed PROVE Fits'
  <2>1. Fits
    BY <1>3 DEF IInv
  <2>2. Inner' = Inner /\ (\A b : Children(b)' = Children(b)) /\ \A f, d, b : Reaches(f, d, b)' <=> Reaches(f, d, b)
    BY <1>1 DEF Inner, Single, Double, Roots, Children, Reaches
  <2>3. Unique' <=> Unique
    BY <1>1, <2>2 DEF Unique
  <2>4. \A b : Referenced(b)' <=> Referenced(b)
    BY <1>1, <2>2 DEF Referenced
  <2>5. TreeFits' /\ LostFits'
    BY <1>1, <2>1, <2>2, <2>3, <2>4 DEF Fits, TreeFits, LostFits
  <2>6. ASSUME NEW p \in Proc PROVE JobFits(p)'
    <3>1. JobFits(p)
      BY <2>1 DEF Fits
    <3>2. \A fr : Passed(p, fr)' <=> Passed(p, fr)
      BY <1>1 DEF Passed, Pointers
    <3>3. StackFits(p)'
      BY <1>1, <3>1, <3>2 DEF JobFits, StackFits, At
    <3>4. WriterFits(job[p])' /\ NewFits(job[p])'
      BY <1>1, <2>2, <2>4, <3>1 DEF JobFits, WriterFits, NewFits
    <3>5. QED  BY <1>1, <3>1, <3>3, <3>4 DEF JobFits, At, WalkFits
  <2>7. \A p, q \in Proc : p # q => Apart(p, q)'
    BY <1>1, <2>1 DEF Fits, Apart, Changing
  <2>8. QED  BY <2>5, <2>6, <2>7 DEF Fits
<1>4. mixed' = mixed
  BY <1>1
<1>5. QED  BY <1>2, <1>3, <1>4 DEF IInv

LEMMA NextFits == ASSUME IInv, Next PROVE IInv'
<1>1. CASE AtRest /\ UNCHANGED vars
  BY <1>1, StutterFits
<1>2. ASSUME ~Stopped, NEW p \in Proc, NEW f \in File, NEW op \in {"read", "write"}, NEW n \in Number, Start(p, op, f, n)
      PROVE  IInv'
  <2>1. Sound /\ ~mixed
    BY <1>2 DEF Stopped, IInv, Sound
  <2>2. TypeOK' /\ (~mixed' => Sound')
    BY <1>2, <2>1, StartStep
  <2>3. QED  BY <2>2 DEF IInv, Sound
<1>3. ASSUME ~Stopped, NEW p \in Proc, NEW f \in File, Truncate(p, f) PROVE IInv'
  <2>1. Sound /\ ~mixed
    BY <1>3 DEF Stopped, IInv, Sound
  <2>2. TypeOK' /\ (~mixed' => Sound')
    BY <1>3, <2>1, TruncateStep
  <2>3. QED  BY <2>2 DEF IInv, Sound
<1>4. ASSUME ~Stopped, NEW p \in Proc, Step(p) PROVE IInv'
  <2>0. Sound /\ ~panicked
    BY <1>4 DEF Stopped, IInv, Sound
  <2>1. ASSUME Bmap(p) PROVE Sound'
    BY <2>0, <2>1, BmapStep
  <2>2. ASSUME NewBlock(p) PROVE Sound'
    BY <2>0, <2>2, NewBlockStep
  <2>3. ASSUME BmapRead(p) PROVE Sound'
    BY <2>0, <2>3, BmapReadStep
  <2>4. ASSUME ReadWrite(p) PROVE Sound'
    BY <2>0, <2>4, ReadWriteStep
  <2>5. ASSUME Copied(p) PROVE Sound'
    BY <2>0, <2>5, CopiedStep
  <2>6. ASSUME FreeNext(p) PROVE Sound'
    BY <2>0, <2>6, FreeNextStep
  <2>7. ASSUME FreeSelf(p) PROVE Sound'
    BY <2>0, <2>7, FreeSelfStep
  <2>8. ASSUME TruncateEnd(p) PROVE Sound'
    BY <2>0, <2>8, TruncateEndStep
  <2>9. Sound'
    BY <1>4, <2>1, <2>2, <2>3, <2>4, <2>5, <2>6, <2>7, <2>8 DEF Step
  <2>10. QED  BY <2>9 DEF IInv, Sound
<1>5. QED  BY <1>1, <1>2, <1>3, <1>4 DEF Next

LEMMA ReferencesAre ==
  ASSUME TypeOK, Unique, NEW b \in Block
  PROVE  References(b) = IF Referenced(b) THEN 1 ELSE 0
<1>A. PICK A : A = {r \in Roots : zone[r[1]][r[2]] = b}
  OBVIOUS
<1>B. PICK B : B = {r \in Inner \X (1..PER) : ptr[r[1]][r[2]] = b}
  OBVIOUS
<1>1. References(b) = Cardinality(A) + Cardinality(B)
  BY <1>A, <1>B DEF References
<1>2. Cardinality({}) = 0 /\ \A x : Cardinality({x}) = 1
  BY FS_EmptySet, FS_Singleton
<1>3. b # NULL
  BY Last
<1>4. \A r : r \in A <=> \E f \in File, k \in InInode : r = <<f, k>> /\ zone[f][k] = b
  BY <1>3, <1>A DEF Roots, InInode
<1>5. \A r : r \in B <=> \E c \in Inner, k \in 1..PER : r = <<c, k>> /\ ptr[c][k] = b
  BY <1>B
<1>6. Referenced(b) <=> A # {} \/ B # {}
  BY <1>4, <1>5 DEF Referenced, InInode
<1>7. \A x, y \in A : x = y
  <2>1. \A f, g \in File, k, l \in InInode : zone[f][k] = zone[g][l] /\ zone[f][k] # NULL => f = g /\ k = l
    BY DEF Unique, InInode
  <2>2. QED  BY <1>3, <1>4, <2>1
<1>8. \A x, y \in B : x = y
  <2>1. \A c, d \in Inner, k, l \in 1..PER : ptr[c][k] = ptr[d][l] /\ ptr[c][k] # NULL => c = d /\ k = l
    BY DEF Unique
  <2>2. QED  BY <1>3, <1>5, <2>1
<1>9. A = {} \/ B = {}
  <2>1. \A f \in File, k \in InInode, c \in Inner, l \in 1..PER : zone[f][k] # NULL => zone[f][k] # ptr[c][l]
    BY DEF Unique, InInode
  <2>2. QED  BY <1>3, <1>4, <1>5, <2>1
<1>10. A = {} \/ \E x : A = {x}
  BY <1>7
<1>11. B = {} \/ \E x : B = {x}
  BY <1>8
<1>12. CASE A = {} /\ B = {}
  BY <1>1, <1>2, <1>6, <1>12
<1>13. CASE A # {} /\ B = {}
  <2>1. Cardinality(A) = 1
    BY <1>2, <1>10, <1>13
  <2>2. QED  BY <1>1, <1>2, <1>6, <1>13, <2>1
<1>14. CASE A = {} /\ B # {}
  <2>1. Cardinality(B) = 1
    BY <1>2, <1>11, <1>14
  <2>2. QED  BY <1>1, <1>2, <1>6, <1>14, <2>1
<1>15. QED  BY <1>9, <1>12, <1>13, <1>14

LEMMA FitsMeansExact == ASSUME IInv PROVE BlocksExact
<1> SUFFICES ASSUME ~mixed, NEW b \in Block
             PROVE  /\ References(b) <= 1
                    /\ References(b) = 1 => b \in zmap /\ b \notin lost
                    /\ b \in zmap => References(b) = 1 \/ b \in lost \/ \E p \in Proc : job[p].new = b
  BY DEF BlocksExact
<1>1. /\ TypeOK /\ Unique
      /\ Referenced(b) => b \in zmap /\ b \notin lost
      /\ b \in zmap => Referenced(b) \/ b \in lost \/ \E p \in Proc : job[p].new = b
  BY DEF IInv, Fits, TreeFits
<1>2. References(b) = IF Referenced(b) THEN 1 ELSE 0
  BY <1>1, ReferencesAre
<1>3. QED  BY <1>1, <1>2

LEMMA AlwaysFits == Spec => []IInv
<1>1. IInv /\ [Next]_vars => IInv'
  BY NextFits, StutterFits
<1>2. QED  BY <1>1, InitFits, PTL DEF Spec

(* Every block in use has its one place, in one file, or is lost where the code loses it:
   however readers, writers and truncates of all files fall into each other's pauses in
   getblk and bread, whichever reads of truncate fail, and whatever was busy when it came
   by; until a file is truncated while it is written or truncated by somebody else
   (fs/minix/inode.c: _bmap sets the pointer after the block is taken; truncate.c:
   minix_free_ind and minix_free_dind free the blocks below a block of pointers before
   it, and keep it when one of them was busy). *)
THEOREM BlocksStayExact == Spec => []BlocksExact
  BY AlwaysFits, FitsMeansExact, PTL
=============================================================================
