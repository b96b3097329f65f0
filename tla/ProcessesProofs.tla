---------------------------- MODULE ProcessesProofs ----------------------------
(***************************************************************************)
(* Theorems about Processes, for any number of tasks: the family tree is   *)
(* kept through every order of forks, exits and waits, and a parent that   *)
(* sleeps in waitpid is told of its zombies; and, at the end, about the    *)
(* timers of the clock that runs them.                                     *)
(***************************************************************************)
EXTENDS Processes, TimerList, SequenceTheorems, WellFoundedInduction, TLAPS

USE ProcessAssumption

(***************************************************************************)
(* The tree.                                                               *)
(***************************************************************************)
(* The tasks from p_cptr on are the children. *)
LEMMA KidsAreChildren ==
  ASSUME TypeOK, FamilyFits, NEW t \in Settled
  PROVE  Kids(t) = Children(t)
PROOF
<1>1. Children(t) \subseteq Settled /\ Settled \subseteq Task  BY DEF Children, Settled, TypeOK
<1>2. Linked(t) /\ PassesAll(t) /\ \A c \in Settled : Linked(c)  BY DEF FamilyFits
<1>3. cptr[t] \in Children(t) \cup {NoTask}
  BY <1>2 DEF Linked, InTree, Children
<1>4. Closed(Children(t))
  BY <1>2 DEF Closed, Linked, InTree, Children
<1>5. Children(t) \in {S \in SUBSET Task : cptr[t] \in S \cup {NoTask} /\ Closed(S)}
  BY <1>1, <1>3, <1>4
<1>6. ASSUME NEW c \in Children(t), NEW S \in SUBSET Task, cptr[t] \in S \cup {NoTask}, Closed(S)
      PROVE  c \in S
  <2>1. S \cap Settled \in SUBSET Settled  OBVIOUS
  <2>2. cptr[t] \in (S \cap Settled) \cup {NoTask}  BY <1>6, <1>2 DEF Linked, InTree
  <2>3. Closed(S \cap Settled)  BY <1>6, <1>2 DEF Closed, Linked, InTree
  <2>4. QED  BY <1>2, <2>1, <2>2, <2>3 DEF PassesAll
<1>7. ASSUME NEW c PROVE c \in Kids(t) <=> c \in Children(t)
  BY <1>1, <1>5, <1>6 DEF Kids, From
<1>8. QED  BY <1>7

(* Without younger siblings a child is the one p_cptr names. *)
LEMMA YoungestIsFirst ==
  ASSUME TypeOK, FamilyFits, NEW t \in Settled, NEW c \in Children(t), ysptr[c] = NoTask
  PROVE  cptr[t] = c
PROOF
<1> DEFINE S == Children(t) \ {c}
<1>1. Children(t) \subseteq Settled  BY DEF Children
<1>2. Linked(t) /\ PassesAll(t) /\ \A d \in Settled : Linked(d)  BY DEF FamilyFits
<1>3. NoTask \notin Settled  BY DEF Settled, TypeOK
<1>4. Closed(S)
  BY <1>1, <1>2, <1>3 DEF Closed, Linked, InTree, Children
<1>5. SUFFICES ASSUME cptr[t] # c PROVE FALSE  OBVIOUS
<1>6. cptr[t] \in S \cup {NoTask}  BY <1>2, <1>5 DEF Linked, InTree, Children
<1>7. QED  BY <1>1, <1>2, <1>4, <1>6 DEF PassesAll

(* Two siblings are not each other's elder and younger brother both. *)
LEMMA NoShortCycle ==
  ASSUME TypeOK, FamilyFits, NEW t \in Settled, NEW c \in Children(t), ysptr[c] # NoTask
  PROVE  osptr[c] # ysptr[c]
PROOF
<1> DEFINE y == ysptr[c]
           S == Children(t) \ {c, y}
<1>1. Children(t) \subseteq Settled  BY DEF Children
<1>2. Linked(t) /\ PassesAll(t) /\ \A d \in Settled : Linked(d)  BY DEF FamilyFits
<1>3. NoTask \notin Settled  BY DEF Settled, TypeOK
<1>4. SUFFICES ASSUME osptr[c] = y PROVE FALSE  OBVIOUS
<1>5. y \in Settled /\ ysptr[y] = c /\ osptr[y] = c
  BY <1>1, <1>2, <1>4 DEF Linked, InTree
<1>6. Closed(S)
  BY <1>1, <1>2, <1>3, <1>5 DEF Closed, Linked, InTree, Children
<1>7. cptr[t] \in S \cup {NoTask}
  BY <1>1, <1>2, <1>3, <1>5 DEF Linked, InTree, Children
<1>8. QED  BY <1>1, <1>2, <1>6, <1>7 DEF PassesAll

(* Who still has children to give away finds a child of init. *)
LEMMA InitHasChild ==
  ASSUME TypeOK, FamilyFits, NEW t \in Settled, t # Init1, Init1 \in Settled
  PROVE  cptr[Init1] # NoTask
PROOF
<1>1. SUFFICES ASSUME cptr[Init1] = NoTask PROVE FALSE  OBVIOUS
<1>2. PassesAll(Init1)  BY DEF FamilyFits
<1>3. Closed({}) /\ {} \in SUBSET Settled  BY DEF Closed
<1>4. Children(Init1) = {}  BY <1>1, <1>2, <1>3 DEF PassesAll
<1>5. \A c \in Settled : pptr[c] \in {Init1} => c \in {Init1}  BY <1>4 DEF Children
<1>6. {Init1} \in SUBSET Settled  OBVIOUS
<1>7. {Init1} = Settled  BY <1>5, <1>6 DEF FamilyFits, Rooted
<1>8. QED  BY <1>7

(* A step that leaves the tasks that are linked in, and their links, as they are. *)
TreeStays == /\ Settled' = Settled
             /\ \A p \in Settled : /\ pptr'[p] = pptr[p] /\ cptr'[p] = cptr[p]
                                   /\ ysptr'[p] = ysptr[p] /\ osptr'[p] = osptr[p]

LEMMA TreeKept ==
  ASSUME FamilyFits, TreeStays
  PROVE  FamilyFits' /\ \A t : Children(t)' = Children(t)
PROOF
<1>1. ASSUME NEW t PROVE Children(t)' = Children(t)  BY DEF Children, TreeStays
<1>2. ASSUME NEW t \in Settled PROVE Linked(t)'
  <2>1. Linked(t)  BY DEF FamilyFits
  <2>2. QED  BY <2>1 DEF Linked, InTree, TreeStays
<1>3. ASSUME NEW t \in Settled PROVE PassesAll(t)'
  <2>1. PassesAll(t)  BY DEF FamilyFits
  <2>2. QED  BY <1>1, <2>1 DEF PassesAll, Closed, TreeStays
<1>4. ASSUME NEW t \in Settled PROVE HasEldest(t)'
  <2>1. HasEldest(t) /\ Children(t) \subseteq Settled  BY DEF FamilyFits, Children
  <2>2. QED  BY <1>1, <2>1 DEF HasEldest, TreeStays
<1>5. Rooted'  BY DEF FamilyFits, Rooted, TreeStays
<1>6. QED  BY <1>1, <1>2, <1>3, <1>4, <1>5 DEF FamilyFits, TreeStays

(* fork links c in as the youngest child of t. *)
LinkedIn(t, c) ==
  /\ t \in Settled /\ c \notin Settled /\ c # NoTask /\ Settled' = Settled \cup {c}
  /\ pptr'[c] = t /\ cptr'[c] = NoTask /\ ysptr'[c] = NoTask /\ osptr'[c] = cptr[t]
  /\ \A p \in Settled : /\ pptr'[p] = pptr[p] /\ osptr'[p] = osptr[p]
                        /\ cptr'[p] = IF p = t THEN c ELSE cptr[p]
                        /\ ysptr'[p] = IF p = cptr[t] THEN c ELSE ysptr[p]

LEMMA TreeGrows ==
  ASSUME TypeOK, FamilyFits, Init1 \in Settled, NEW t, NEW c, LinkedIn(t, c)
  PROVE  /\ FamilyFits' /\ Children(t)' = Children(t) \cup {c}
         /\ \A u : u # t => Children(u)' = Children(u)
PROOF
<1>1. NoTask \notin Settled  BY DEF Settled, TypeOK
<1>2. \A d \in Settled : Linked(d) /\ PassesAll(d) /\ HasEldest(d)  BY DEF FamilyFits
<1>3. \A d \in Settled : pptr[d] # c  BY <1>2 DEF Linked, InTree, LinkedIn
<1>4. ASSUME NEW u, u # t PROVE Children(u)' = Children(u)
  BY <1>4 DEF Children, LinkedIn
<1>5. Children(t)' = Children(t) \cup {c}  BY DEF Children, LinkedIn
<1>6. Children(c)' = {}  BY <1>3, <1>4 DEF LinkedIn, Children
<1>7. \A d \in Settled : Children(d) \subseteq Settled  BY DEF Children
<1>8. ASSUME NEW d \in Settled' PROVE Linked(d)'
  <2>1. CASE d = c
    <3>1. Linked(t) /\ t \in Settled  BY <1>2 DEF LinkedIn
    <3>2. InTree(cptr[t]) /\ (cptr[t] # NoTask => pptr[cptr[t]] = t)  BY <3>1 DEF Linked
    <3>3. cptr[t] = NoTask \/ cptr[t] \in Settled  BY <3>2 DEF InTree
    <3>4. (InTree(pptr[c]) /\ InTree(cptr[c]) /\ InTree(ysptr[c]) /\ InTree(osptr[c]))'
      BY <3>1, <3>3 DEF LinkedIn, InTree
    <3>5. (c # pptr[c] /\ c # cptr[c] /\ c # ysptr[c] /\ c # osptr[c])'
      BY <3>1, <3>3 DEF LinkedIn
    <3>6. ((pptr[c] = NoTask) <=> (c = Init1))'  BY <1>1, <3>1 DEF LinkedIn
    <3>7. (osptr[c] # NoTask => pptr[osptr[c]] = pptr[c] /\ ysptr[osptr[c]] = c)'
      BY <3>1, <3>2, <3>3 DEF LinkedIn
    <3>8. QED  BY <2>1, <3>4, <3>5, <3>6, <3>7 DEF LinkedIn, Linked
  <2>2. CASE d \in Settled
    <3>1. Linked(d) /\ Linked(t)  BY <1>2, <2>2 DEF LinkedIn
    <3>2. InTree(pptr[d])' /\ InTree(cptr[d])' /\ InTree(ysptr[d])' /\ InTree(osptr[d])'
      BY <3>1, <2>2 DEF LinkedIn, Linked, InTree
    <3>3. (d # pptr[d] /\ d # cptr[d] /\ d # ysptr[d] /\ d # osptr[d])'
      BY <3>1, <2>2 DEF LinkedIn, Linked
    <3>4. ((pptr[d] = NoTask) <=> (d = Init1))'  BY <3>1, <2>2 DEF LinkedIn, Linked
    <3>5. (osptr[d] # NoTask => pptr[osptr[d]] = pptr[d] /\ ysptr[osptr[d]] = d)'
      BY <1>1, <3>1, <2>2 DEF LinkedIn, Linked, InTree
    <3>6. (ysptr[d] # NoTask => pptr[ysptr[d]] = pptr[d] /\ osptr[ysptr[d]] = d)'
      BY <1>1, <3>1, <2>2 DEF LinkedIn, Linked, InTree
    <3>7. (cptr[d] # NoTask => pptr[cptr[d]] = d /\ ysptr[cptr[d]] = NoTask)'
      BY <1>1, <3>1, <2>2 DEF LinkedIn, Linked, InTree
    <3>8. QED  BY <3>2, <3>3, <3>4, <3>5, <3>6, <3>7 DEF Linked
  <2>3. QED  BY <2>1, <2>2 DEF LinkedIn
<1>9. ASSUME NEW d \in Settled',
             NEW S \in SUBSET Settled', cptr'[d] \in S \cup {NoTask}, Closed(S)'
      PROVE  Children(d)' \subseteq S
  <2> DEFINE R == S \ {c}
  <2>1. R \in SUBSET Settled  BY DEF LinkedIn
  <2>2. Closed(R)
    <3>1. \A p \in R : osptr[p] # c  BY <1>2, <2>1 DEF Linked, InTree, LinkedIn
    <3>2. QED  BY <1>9, <2>1, <3>1 DEF Closed, LinkedIn
  <2>3. CASE d = c  BY <1>6, <2>3
  <2>4. CASE d = t
    <3>1. c \in S  BY <1>9, <2>4 DEF LinkedIn
    <3>2. cptr[t] \in R \cup {NoTask}
      BY <1>2, <1>9, <3>1 DEF Closed, LinkedIn, Linked, InTree
    <3>3. Children(t) \subseteq R  BY <1>2, <2>1, <2>2, <3>2 DEF PassesAll, LinkedIn
    <3>4. QED  BY <1>5, <2>4, <3>1, <3>3
  <2>5. CASE d \in Settled /\ d # t
    <3>1. cptr[d] \in R \cup {NoTask}
      BY <1>2, <1>9, <2>5 DEF LinkedIn, Linked, InTree
    <3>2. Children(d) \subseteq R  BY <1>2, <2>1, <2>2, <2>5, <3>1 DEF PassesAll
    <3>3. QED  BY <1>4, <2>5, <3>2
  <2>6. QED  BY <2>3, <2>4, <2>5 DEF LinkedIn
<1>10. ASSUME NEW d \in Settled' PROVE HasEldest(d)'
  <2>1. CASE d = c  BY <1>6, <2>1 DEF HasEldest
  <2>2. CASE d = t
    <3>1. CASE cptr[t] = NoTask  BY <1>5, <2>2, <3>1 DEF HasEldest, LinkedIn
    <3>2. CASE cptr[t] # NoTask
      <4>1. cptr[t] \in Children(t)  BY <1>2, <3>2 DEF LinkedIn, Linked, InTree, Children
      <4>2. PICK e \in Children(t) : osptr[e] = NoTask
        BY <1>2, <4>1 DEF HasEldest, LinkedIn
      <4>3. osptr'[e] = NoTask /\ e \in Children(t)'
        BY <1>5, <1>7, <4>2 DEF LinkedIn
      <4>4. QED  BY <2>2, <4>3 DEF HasEldest
    <3>3. QED  BY <3>1, <3>2
  <2>3. CASE d \in Settled /\ d # t
    BY <1>2, <1>4, <1>7, <2>3 DEF HasEldest, LinkedIn
  <2>4. QED  BY <2>1, <2>2, <2>3 DEF LinkedIn
<1>11. ASSUME NEW S \in SUBSET Settled', Init1 \in S,
              \A d \in Settled' : pptr'[d] \in S => d \in S
       PROVE  S = Settled'
  <2> DEFINE R == S \ {c}
  <2>1. R \in SUBSET Settled /\ Init1 \in R  BY <1>11 DEF LinkedIn
  <2>2. \A d \in Settled : pptr[d] \in R => d \in R  BY <1>11 DEF LinkedIn
  <2>3. R = Settled  BY <2>1, <2>2 DEF FamilyFits, Rooted
  <2>4. c \in S  BY <1>11, <2>3 DEF LinkedIn
  <2>5. QED  BY <2>3, <2>4 DEF LinkedIn
<1>12. \A d \in Settled' : PassesAll(d)'  BY <1>9 DEF PassesAll
<1>13. Rooted'  BY <1>11 DEF Rooted
<1>14. QED  BY <1>4, <1>5, <1>8, <1>10, <1>12, <1>13 DEF FamilyFits

(* do_exit of t puts its children, e the eldest of them, before those of init. *)
GivenToInit(t, e) ==
  /\ t \in Settled /\ t # Init1 /\ Init1 \in Settled /\ Settled' = Settled
  /\ e \in Children(t) /\ osptr[e] = NoTask
  /\ \A p \in Settled :
       /\ pptr'[p] = IF pptr[p] = t THEN Init1 ELSE pptr[p]
       /\ cptr'[p] = IF p = t THEN NoTask ELSE IF p = Init1 THEN cptr[t] ELSE cptr[p]
       /\ ysptr'[p] = IF p = cptr[Init1] THEN e ELSE ysptr[p]
       /\ osptr'[p] = IF p = e THEN cptr[Init1] ELSE osptr[p]

LEMMA TreeJoins ==
  ASSUME TypeOK, FamilyFits, NEW t, NEW e, GivenToInit(t, e)
  PROVE  /\ FamilyFits' /\ Children(Init1)' = Children(Init1) \cup Children(t)
         /\ Children(t)' = {}
         /\ \A u : u \notin {t, Init1} => Children(u)' = Children(u)
PROOF
<1> DEFINE w == cptr[Init1]
<1>1. NoTask \notin Settled  BY DEF Settled, TypeOK
<1>2. \A d \in Settled : Linked(d) /\ PassesAll(d) /\ HasEldest(d)  BY DEF FamilyFits
<1>3. w # NoTask  BY InitHasChild DEF GivenToInit
<1>4. w \in Settled /\ pptr[w] = Init1 /\ ysptr[w] = NoTask
  BY <1>2, <1>3 DEF GivenToInit, Linked, InTree
<1>5. e \in Settled /\ pptr[e] = t /\ e # w  BY <1>4 DEF GivenToInit, Children
<1>6. \A u : u \notin {t, Init1} => Children(u)' = Children(u)
  BY DEF Children, GivenToInit
<1>7. Children(t)' = {}  BY DEF Children, GivenToInit
<1>8. Children(Init1)' = Children(Init1) \cup Children(t)  BY DEF Children, GivenToInit
<1>9. \A d : Children(d) \subseteq Settled  BY DEF Children
<1>10. cptr[t] \in Children(t) /\ cptr[t] # w /\ ysptr[cptr[t]] = NoTask
  <2>1. Closed({}) /\ {} \in SUBSET Settled  BY DEF Closed
  <2>2. cptr[t] # NoTask  BY <1>2, <2>1 DEF PassesAll, GivenToInit
  <2>3. QED  BY <1>2, <1>4, <2>2 DEF Linked, InTree, Children, GivenToInit
<1>11. ASSUME NEW d \in Settled' PROVE Linked(d)'
  <2>1. d \in Settled /\ Linked(d) /\ Linked(Init1) /\ Linked(t)  BY <1>2 DEF GivenToInit
  <2>2. InTree(pptr[d])' /\ InTree(cptr[d])' /\ InTree(ysptr[d])' /\ InTree(osptr[d])'
    BY <1>4, <1>5, <1>9, <1>10, <2>1 DEF GivenToInit, Linked, InTree
  <2>3. (d # pptr[d] /\ d # cptr[d] /\ d # ysptr[d] /\ d # osptr[d])'
    BY <1>1, <1>4, <1>5, <1>10, <2>1 DEF GivenToInit, Linked, Children
  <2>4. ((pptr[d] = NoTask) <=> (d = Init1))'  BY <1>1, <2>1 DEF GivenToInit, Linked
  <2>5. (osptr[d] # NoTask => pptr[osptr[d]] = pptr[d] /\ ysptr[osptr[d]] = d)'
    <3>1. CASE d = e  BY <1>4, <1>5, <2>1, <3>1 DEF GivenToInit, Linked
    <3>2. CASE d # e /\ osptr[d] # NoTask
      <4>1. osptr[d] \in Settled /\ osptr[d] # w
        BY <1>1, <1>4, <2>1, <3>2 DEF Linked, InTree
      <4>2. QED  BY <2>1, <3>2, <4>1 DEF GivenToInit, Linked
    <3>3. CASE d # e /\ osptr[d] = NoTask  BY <2>1, <3>3 DEF GivenToInit
    <3>4. QED  BY <3>1, <3>2, <3>3
  <2>6. (ysptr[d] # NoTask => pptr[ysptr[d]] = pptr[d] /\ osptr[ysptr[d]] = d)'
    <3>1. CASE d = w  BY <1>4, <1>5, <2>1, <3>1 DEF GivenToInit, Linked
    <3>2. CASE d # w /\ ysptr[d] # NoTask
      <4>1. ysptr[d] \in Settled /\ ysptr[d] # e
        BY <1>1, <1>5, <2>1, <3>2 DEF Linked, InTree, GivenToInit
      <4>2. QED  BY <2>1, <3>2, <4>1 DEF GivenToInit, Linked
    <3>3. CASE d # w /\ ysptr[d] = NoTask  BY <2>1, <3>3 DEF GivenToInit
    <3>4. QED  BY <3>1, <3>2, <3>3
  <2>7. (cptr[d] # NoTask => pptr[cptr[d]] = d /\ ysptr[cptr[d]] = NoTask)'
    <3>1. CASE d = t  BY <2>1, <3>1 DEF GivenToInit
    <3>2. CASE d = Init1
      <4>1. cptr'[d] = cptr[t] /\ pptr[cptr[t]] = t /\ cptr[t] \in Settled
        BY <1>10, <2>1, <3>2 DEF GivenToInit, Children
      <4>2. QED  BY <1>10, <3>2, <4>1 DEF GivenToInit
    <3>3. CASE d # t /\ d # Init1 /\ cptr[d] # NoTask
      <4>1. cptr'[d] = cptr[d] /\ cptr[d] \in Settled /\ pptr[cptr[d]] = d /\ cptr[d] # w
        BY <1>4, <2>1, <3>3 DEF GivenToInit, Linked, InTree
      <4>2. QED  BY <2>1, <3>3, <4>1 DEF GivenToInit, Linked
    <3>4. CASE d # t /\ d # Init1 /\ cptr[d] = NoTask  BY <2>1, <3>4 DEF GivenToInit
    <3>5. QED  BY <3>1, <3>2, <3>3, <3>4
  <2>8. QED  BY <2>2, <2>3, <2>4, <2>5, <2>6, <2>7 DEF Linked
<1>12. ASSUME NEW d \in Settled',
              NEW S \in SUBSET Settled', cptr'[d] \in S \cup {NoTask}, Closed(S)'
       PROVE  Children(d)' \subseteq S
  <2>1. S \in SUBSET Settled /\ d \in Settled  BY DEF GivenToInit
  <2>2. ASSUME NEW u \in Settled, u # t PROVE Closed(S \cap Children(u))
    <3>1. ASSUME NEW p \in S, p \in Children(u) PROVE osptr[p] \in (S \cap Children(u)) \cup {NoTask}
      <4>1. p \in Settled /\ p # e /\ osptr'[p] = osptr[p]
        BY <1>5, <2>1, <2>2, <3>1 DEF GivenToInit, Children
      <4>2. osptr[p] \in S \cup {NoTask}  BY <1>12, <4>1 DEF Closed
      <4>3. osptr[p] \in Children(u) \cup {NoTask}
        BY <1>2, <3>1, <4>1 DEF Linked, InTree, Children
      <4>4. QED  BY <1>1, <1>9, <4>2, <4>3
    <3>2. QED  BY <3>1 DEF Closed
  <2>3. CASE d = t  BY <1>7, <2>3
  <2>4. CASE d = Init1
    <3>1. cptr[t] \in S  BY <1>1, <1>9, <1>10, <1>12, <2>4 DEF GivenToInit
    <3>2. Closed(S \cap Children(t))
      <4>1. ASSUME NEW p \in S, p \in Children(t) PROVE osptr[p] \in (S \cap Children(t)) \cup {NoTask}
        <5>1. CASE p = e  BY <5>1 DEF GivenToInit
        <5>2. CASE p # e
          <6>1. p \in Settled /\ osptr'[p] = osptr[p]  BY <2>1, <5>2 DEF GivenToInit
          <6>2. osptr[p] \in S \cup {NoTask}  BY <1>12, <6>1 DEF Closed
          <6>3. osptr[p] \in Children(t) \cup {NoTask}
            BY <1>2, <4>1, <6>1 DEF Linked, InTree, Children
          <6>4. QED  BY <1>1, <1>9, <6>2, <6>3
        <5>3. QED  BY <5>1, <5>2
      <4>2. QED  BY <4>1 DEF Closed
    <3>3. Children(t) \subseteq S \cap Children(t)
      <4>1. S \cap Children(t) \in SUBSET Settled  BY <2>1
      <4>2. cptr[t] \in (S \cap Children(t)) \cup {NoTask}  BY <1>10, <3>1
      <4>3. QED  BY <1>2, <3>2, <4>1, <4>2 DEF PassesAll, GivenToInit
    <3>4. w \in S
      <4>1. e \in S /\ osptr'[e] = w  BY <1>5, <3>3 DEF GivenToInit
      <4>2. QED  BY <1>3, <1>12, <4>1 DEF Closed
    <3>5. Children(Init1) \subseteq S \cap Children(Init1)
      <4>1. S \cap Children(Init1) \in SUBSET Settled  BY <2>1
      <4>2. w \in (S \cap Children(Init1)) \cup {NoTask}  BY <1>4, <3>4 DEF Children
      <4>3. Closed(S \cap Children(Init1))  BY <2>2, <2>4 DEF GivenToInit
      <4>4. QED  BY <1>2, <2>1, <2>4, <4>1, <4>2, <4>3 DEF PassesAll
    <3>6. QED  BY <1>8, <2>4, <3>3, <3>5
  <2>5. CASE d # t /\ d # Init1
    <3>1. cptr[d] \in S \cup {NoTask}  BY <1>12, <2>1, <2>5 DEF GivenToInit
    <3>2. cptr[d] \in Children(d) \cup {NoTask}
      BY <1>2, <2>1 DEF Linked, InTree, Children
    <3>3. S \cap Children(d) \in SUBSET Settled  BY <2>1
    <3>4. cptr[d] \in (S \cap Children(d)) \cup {NoTask}  BY <1>1, <1>9, <3>1, <3>2
    <3>5. Closed(S \cap Children(d))  BY <2>1, <2>2, <2>5
    <3>6. Children(d) \subseteq S \cap Children(d)
      BY <1>2, <2>1, <3>3, <3>4, <3>5 DEF PassesAll
    <3>7. QED  BY <1>6, <2>5, <3>6
  <2>6. QED  BY <2>3, <2>4, <2>5
<1>13. ASSUME NEW d \in Settled' PROVE HasEldest(d)'
  <2>1. d \in Settled  BY DEF GivenToInit
  <2>2. CASE d = t  BY <1>7, <2>2 DEF HasEldest
  <2>3. CASE d = Init1
    <3>1. w \in Children(Init1)  BY <1>4 DEF Children
    <3>2. PICK x \in Children(Init1) : osptr[x] = NoTask
      BY <1>2, <2>1, <2>3, <3>1 DEF HasEldest
    <3>3. x # e /\ x \in Settled  BY <1>5, <3>2 DEF GivenToInit, Children
    <3>4. osptr'[x] = NoTask /\ x \in Children(Init1)'  BY <1>8, <3>2, <3>3 DEF GivenToInit
    <3>5. QED  BY <2>3, <3>4 DEF HasEldest
  <2>4. CASE d # t /\ d # Init1
    <3>1. Children(d)' = Children(d)  BY <1>6, <2>4
    <3>2. \A x \in Children(d) : x # e /\ x \in Settled  BY <1>5, <2>4 DEF Children
    <3>3. QED  BY <1>2, <2>1, <3>1, <3>2 DEF HasEldest, GivenToInit
  <2>5. QED  BY <2>2, <2>3, <2>4
<1>14. ASSUME NEW S \in SUBSET Settled', Init1 \in S,
              \A d \in Settled' : pptr'[d] \in S => d \in S
       PROVE  S = Settled'
  <2>1. S \in SUBSET Settled  BY DEF GivenToInit
  <2>2. \A d \in Settled : pptr[d] \in S => d \in S  BY <1>14 DEF GivenToInit
  <2>3. S = Settled  BY <1>14, <2>1, <2>2 DEF FamilyFits, Rooted
  <2>4. QED  BY <2>3 DEF GivenToInit
<1>15. \A d \in Settled' : PassesAll(d)'  BY <1>12 DEF PassesAll
<1>16. Rooted'  BY <1>14 DEF Rooted
<1>17. QED  BY <1>6, <1>7, <1>8, <1>11, <1>13, <1>15, <1>16 DEF FamilyFits

(* release takes the childless c out of the list of its parent t. *)
CutOut(t, c) ==
  /\ t \in Settled /\ c \in Children(t) /\ Children(c) = {} /\ Settled' = Settled \ {c}
  /\ \A p \in Settled \ {c} :
       /\ pptr'[p] = pptr[p]
       /\ cptr'[p] = IF p = t /\ ysptr[c] = NoTask THEN osptr[c] ELSE cptr[p]
       /\ ysptr'[p] = IF p = osptr[c] THEN ysptr[c] ELSE ysptr[p]
       /\ osptr'[p] = IF p = ysptr[c] THEN osptr[c] ELSE osptr[p]

LEMMA TreeShrinks ==
  ASSUME TypeOK, FamilyFits, Init1 \in Settled, NEW t, NEW c, CutOut(t, c)
  PROVE  FamilyFits' /\ \A u : u # c => Children(u)' = Children(u) \ {c}
PROOF
<1> DEFINE y == ysptr[c]
           o == osptr[c]
<1>1. NoTask \notin Settled  BY DEF Settled, TypeOK
<1>2. \A d \in Settled : Linked(d) /\ PassesAll(d) /\ HasEldest(d)  BY DEF FamilyFits
<1>3. c \in Settled /\ pptr[c] = t /\ c # t /\ \A p \in Settled : pptr[p] # c
  BY <1>2 DEF CutOut, Children, Linked
<1>4. \A u : Children(u)' = Children(u) \ {c}  BY DEF Children, CutOut
<1>5. \A d : Children(d) \subseteq Settled  BY DEF Children
<1> Linked(c)  BY <1>2, <1>3
<1>6. y = NoTask \/ (y \in Children(t) /\ osptr[y] = c /\ y # c)
  <2>1. SUFFICES ASSUME y # NoTask PROVE y \in Children(t) /\ osptr[y] = c /\ y # c  OBVIOUS
  <2>2. y \in Settled /\ pptr[y] = t /\ osptr[y] = c /\ y # c
    BY <1>3, <2>1 DEF Linked, InTree
  <2>3. QED  BY <2>2 DEF Children
<1>7. o = NoTask \/ (o \in Children(t) /\ ysptr[o] = c /\ o # c)
  <2>1. SUFFICES ASSUME o # NoTask PROVE o \in Children(t) /\ ysptr[o] = c /\ o # c  OBVIOUS
  <2>2. o \in Settled /\ pptr[o] = t /\ ysptr[o] = c /\ o # c
    BY <1>3, <2>1 DEF Linked, InTree
  <2>3. QED  BY <2>2 DEF Children
<1>8. y = NoTask => cptr[t] = c  BY YoungestIsFirst DEF CutOut
<1>9. y # NoTask => y # o  BY NoShortCycle DEF CutOut
<1>10. cptr[t] = c => y = NoTask
  BY <1>1, <1>2, <1>3 DEF Linked, CutOut
<1>11. c # Init1  BY <1>1, <1>2, <1>3 DEF Linked, CutOut
<1>12. ASSUME NEW d \in Settled' PROVE Linked(d)'
  <2>1. d \in Settled /\ d # c /\ Linked(d) /\ Linked(t) /\ Linked(c)
    BY <1>2, <1>3 DEF CutOut
  <2>2. InTree(pptr[d])'  BY <1>3, <2>1 DEF CutOut, Linked, InTree
  <2>3. InTree(cptr[d])'
    <3>1. CASE d = t /\ y = NoTask  BY <1>5, <1>7, <2>1, <3>1 DEF CutOut, InTree
    <3>2. CASE ~(d = t /\ y = NoTask)
      <4>1. cptr'[d] = cptr[d]  BY <2>1, <3>2 DEF CutOut
      <4>2. cptr[d] # c
        BY <1>3, <1>10, <1>1, <2>1, <3>2 DEF Linked
      <4>3. QED  BY <2>1, <4>1, <4>2 DEF CutOut, Linked, InTree
    <3>3. QED  BY <3>1, <3>2
  <2>4. InTree(ysptr[d])'
    <3>1. CASE d = o  BY <1>5, <1>6, <2>1, <3>1 DEF CutOut, InTree
    <3>2. CASE d # o
      <4>1. ysptr'[d] = ysptr[d] /\ ysptr[d] # c  BY <1>1, <1>3, <2>1, <3>2 DEF CutOut, Linked
      <4>2. QED  BY <2>1, <4>1 DEF CutOut, Linked, InTree
    <3>3. QED  BY <3>1, <3>2
  <2>5. InTree(osptr[d])'
    <3>1. CASE d = y  BY <1>5, <1>7, <2>1, <3>1 DEF CutOut, InTree
    <3>2. CASE d # y
      <4>1. osptr'[d] = osptr[d] /\ osptr[d] # c  BY <1>1, <1>3, <2>1, <3>2 DEF CutOut, Linked
      <4>2. QED  BY <2>1, <4>1 DEF CutOut, Linked, InTree
    <3>3. QED  BY <3>1, <3>2
  <2>6. (d # pptr[d] /\ d # cptr[d] /\ d # ysptr[d] /\ d # osptr[d])'
    <3>1. d # cptr'[d]
      BY <1>1, <1>2, <1>7, <2>1 DEF CutOut, Linked, Children
    <3>2. d # ysptr'[d]  BY <1>1, <1>9, <2>1 DEF CutOut, Linked
    <3>3. d # osptr'[d]  BY <1>1, <1>9, <2>1 DEF CutOut, Linked
    <3>4. QED  BY <2>1, <3>1, <3>2, <3>3 DEF CutOut, Linked
  <2>7. ((pptr[d] = NoTask) <=> (d = Init1))'  BY <2>1 DEF CutOut, Linked
  <2>8. (osptr[d] # NoTask => pptr[osptr[d]] = pptr[d] /\ ysptr[osptr[d]] = d)'
    <3>1. CASE d = y
      BY <1>1, <1>5, <1>6, <1>7, <1>9, <2>1, <3>1 DEF CutOut, Children
    <3>2. CASE d # y /\ osptr[d] # NoTask
      <4>1. osptr'[d] = osptr[d] /\ osptr[d] # c  BY <1>1, <1>3, <2>1, <3>2 DEF CutOut, Linked
      <4>2. osptr[d] \in Settled \ {c} /\ pptr[osptr[d]] = pptr[d] /\ ysptr[osptr[d]] = d
        BY <2>1, <3>2, <4>1 DEF Linked, InTree
      <4>3. osptr[d] # o  BY <1>1, <1>3, <1>7, <2>1, <3>2, <4>2
      <4>4. QED  BY <2>1, <4>1, <4>2, <4>3 DEF CutOut
    <3>3. CASE d # y /\ osptr[d] = NoTask  BY <2>1, <3>3 DEF CutOut
    <3>4. QED  BY <3>1, <3>2, <3>3
  <2>9. (ysptr[d] # NoTask => pptr[ysptr[d]] = pptr[d] /\ osptr[ysptr[d]] = d)'
    <3>1. CASE d = o
      BY <1>1, <1>5, <1>6, <1>7, <1>9, <2>1, <3>1 DEF CutOut, Children
    <3>2. CASE d # o /\ ysptr[d] # NoTask
      <4>1. ysptr'[d] = ysptr[d] /\ ysptr[d] # c  BY <1>1, <1>3, <2>1, <3>2 DEF CutOut, Linked
      <4>2. ysptr[d] \in Settled \ {c} /\ pptr[ysptr[d]] = pptr[d] /\ osptr[ysptr[d]] = d
        BY <2>1, <3>2, <4>1 DEF Linked, InTree
      <4>3. ysptr[d] # y  BY <1>1, <1>3, <1>6, <2>1, <3>2, <4>2
      <4>4. QED  BY <2>1, <4>1, <4>2, <4>3 DEF CutOut
    <3>3. CASE d # o /\ ysptr[d] = NoTask  BY <2>1, <3>3 DEF CutOut
    <3>4. QED  BY <3>1, <3>2, <3>3
  <2>10. (cptr[d] # NoTask => pptr[cptr[d]] = d /\ ysptr[cptr[d]] = NoTask)'
    <3>1. CASE d = t /\ y = NoTask
      BY <1>1, <1>5, <1>7, <2>1, <3>1 DEF CutOut, Children
    <3>2. CASE ~(d = t /\ y = NoTask) /\ cptr[d] # NoTask
      <4>1. cptr'[d] = cptr[d] /\ cptr[d] # c
        BY <1>1, <1>3, <1>10, <2>1, <3>2 DEF CutOut, Linked
      <4>2. cptr[d] \in Settled \ {c} /\ pptr[cptr[d]] = d /\ ysptr[cptr[d]] = NoTask
        BY <2>1, <3>2, <4>1 DEF Linked, InTree
      <4>3. cptr[d] # o  BY <1>1, <1>3, <1>7, <4>2
      <4>4. QED  BY <2>1, <4>1, <4>2, <4>3 DEF CutOut
    <3>3. CASE ~(d = t /\ y = NoTask) /\ cptr[d] = NoTask  BY <2>1, <3>3 DEF CutOut
    <3>4. QED  BY <3>1, <3>2, <3>3
  <2>11. QED  BY <2>2, <2>3, <2>4, <2>5, <2>6, <2>7, <2>8, <2>9, <2>10 DEF Linked
<1>13. ASSUME NEW d \in Settled',
              NEW S \in SUBSET Settled', cptr'[d] \in S \cup {NoTask}, Closed(S)'
       PROVE  Children(d)' \subseteq S
  <2> DEFINE R == IF y \in S THEN S \cup {c} ELSE IF y = NoTask /\ d = t THEN S \cup {c} ELSE S
  <2>1. d \in Settled \ {c} /\ S \subseteq Settled \ {c}  BY DEF CutOut
  <2>2. R \in SUBSET Settled  BY <1>3, <2>1
  <2>3. Closed(R)
    <3>1. ASSUME NEW p \in S PROVE osptr[p] \in R \cup {NoTask}
      <4>1. osptr'[p] \in S \cup {NoTask} /\ p \in Settled \ {c}  BY <1>13, <2>1 DEF Closed
      <4>2. CASE p = y  BY <1>1, <1>6, <2>1, <4>2
      <4>3. CASE p # y  BY <4>1, <4>3 DEF CutOut
      <4>4. QED  BY <4>2, <4>3
    <3>2. ASSUME c \in R PROVE o \in R \cup {NoTask}
      <4>1. CASE y \in S
        <5>1. osptr'[y] = o  BY <2>1, <4>1 DEF CutOut
        <5>2. QED  BY <1>13, <4>1, <5>1 DEF Closed
      <4>2. CASE y = NoTask /\ d = t  BY <1>13, <2>1, <4>2 DEF CutOut
      <4>3. QED  BY <2>1, <3>2, <4>1, <4>2
    <3>3. QED  BY <3>1, <3>2 DEF Closed
  <2>4. cptr[d] \in R \cup {NoTask}
    <3>1. CASE d = t /\ y = NoTask  BY <1>8, <3>1
    <3>2. CASE ~(d = t /\ y = NoTask)  BY <1>13, <2>1, <3>2 DEF CutOut
    <3>3. QED  BY <3>1, <3>2
  <2>5. Children(d) \subseteq R  BY <1>2, <2>1, <2>2, <2>3, <2>4 DEF PassesAll
  <2>6. QED  BY <1>4, <2>5
<1>14. ASSUME NEW d \in Settled' PROVE HasEldest(d)'
  <2>1. d \in Settled \ {c}  BY DEF CutOut
  <2>2. SUFFICES ASSUME Children(d)' # {}
                 PROVE  \E x \in Children(d)' : osptr'[x] = NoTask
    BY DEF HasEldest
  <2>3. PICK x \in Children(d) : osptr[x] = NoTask  BY <1>2, <1>4, <2>1, <2>2 DEF HasEldest
  <2>4. CASE x # c
    <3>1. x # y  BY <1>1, <1>3, <1>5, <1>6, <2>3
    <3>2. x \in Settled \ {c} /\ x \in Children(d)'  BY <1>4, <1>5, <2>3, <2>4
    <3>3. osptr'[x] = NoTask  BY <2>3, <3>1, <3>2 DEF CutOut
    <3>4. QED  BY <3>2, <3>3
  <2>5. CASE x = c
    <3>1. d = t /\ o = NoTask  BY <1>3, <2>3, <2>5 DEF Children
    <3>2. CASE y # NoTask
      <4>1. y \in Settled \ {c} /\ y \in Children(d)'  BY <1>4, <1>5, <1>6, <3>1, <3>2
      <4>2. osptr'[y] = NoTask  BY <3>1, <4>1 DEF CutOut
      <4>3. QED  BY <4>1, <4>2
    <3>3. CASE y = NoTask
      <4>1. cptr[t] \in {c} \cup {NoTask}  BY <1>8, <3>3
      <4>2. Closed({c}) /\ {c} \in SUBSET Settled  BY <1>3, <3>1 DEF Closed
      <4>3. Children(t) \subseteq {c}  BY <1>2, <4>1, <4>2 DEF PassesAll, CutOut
      <4>4. QED  BY <1>4, <2>2, <3>1, <4>3
    <3>4. QED  BY <3>2, <3>3
  <2>6. QED  BY <2>4, <2>5
<1>15. ASSUME NEW S \in SUBSET Settled', Init1 \in S,
              \A d \in Settled' : pptr'[d] \in S => d \in S
       PROVE  S = Settled'
  <2> DEFINE R == S \cup {c}
  <2>1. R \in SUBSET Settled /\ Init1 \in R  BY <1>3, <1>15 DEF CutOut
  <2>2. \A d \in Settled : pptr[d] \in R => d \in R
    BY <1>3, <1>15 DEF CutOut
  <2>3. R = Settled  BY <2>1, <2>2 DEF FamilyFits, Rooted
  <2>4. c \notin S  BY DEF CutOut
  <2>5. QED  BY <2>3, <2>4 DEF CutOut
<1>16. \A d \in Settled' : PassesAll(d)'  BY <1>13 DEF PassesAll
<1>17. Rooted'  BY <1>15 DEF Rooted
<1>18. QED  BY <1>4, <1>12, <1>14, <1>16, <1>17 DEF FamilyFits

(***************************************************************************)
(* Parents that sleep in waitpid.                                          *)
(***************************************************************************)
KidsFit == \A t \in Settled : Kids(t) = Children(t)

LEMMA KidsDoFit == TypeOK /\ FamilyFits => KidsFit
PROOF BY KidsAreChildren DEF KidsFit

(* t gets no zombie it did not have, and has lost no SIGCHLD. *)
NoNewZombie(t) ==
  \A c \in Children(t)' :
    state'[c] = "zombie" => c \in Children(t) /\ state[c] = "zombie" /\ pgrp'[c] = pgrp[c]
StillTold(t) == /\ t \in task /\ at[t] = "asleep" /\ state[t] = "interruptible"
                /\ want'[t] = want[t] /\ ("CHLD" \in signal[t] => "CHLD" \in signal'[t])

LEMMA ZombiesFewer ==
  ASSUME TypeOK, TypeOK', FamilyFits, FamilyFits', NEW t \in Settled, t \in Settled',
         want'[t] = want[t], want[t].by # "own", NoNewZombie(t)
  PROVE  Zombies(t)' \subseteq Zombies(t)
PROOF
<1>1. Kids(t) = Children(t)  BY KidsDoFit DEF KidsFit
<1>2. KidsFit'  BY KidsDoFit, PTL
<1>3. Kids(t)' = Children(t)'  BY <1>2 DEF KidsFit
<1>4. ASSUME NEW c \in Zombies(t)' PROVE c \in Zombies(t)
  <2>1. c \in Wanted(t)' /\ state'[c] = "zombie"  BY DEF Zombies
  <2>2. c \in Children(t)'  BY <1>3, <2>1 DEF Wanted
  <2>3. c \in Kids(t) /\ state[c] = "zombie" /\ pgrp'[c] = pgrp[c]
    BY <1>1, <2>1, <2>2 DEF NoNewZombie
  <2>4. \/ want[t].by = "any"
        \/ want[t].by = "pid" /\ c = want[t].id
        \/ want[t].by = "pgrp" /\ pgrp[c] = want[t].id
    BY <2>1, <2>3 DEF Wanted
  <2>5. c \in Wanted(t)  BY <2>3, <2>4 DEF Wanted
  <2>6. QED  BY <2>3, <2>5 DEF Zombies
<1>5. QED  BY <1>4

WaitersStay ==
  \A t \in task' : at'[t] = "asleep" /\ state'[t] = "interruptible" =>
    "CHLD" \in signal'[t] \/ (StillTold(t) /\ NoNewZombie(t))

LEMMA WaitersKept ==
  ASSUME TypeOK, TypeOK', FamilyFits, FamilyFits', WaiterIsTold, WaitersStay
  PROVE  WaiterIsTold'
PROOF
<1>1. SUFFICES ASSUME NEW t \in task', at'[t] = "asleep", state'[t] = "interruptible",
                      want'[t].by # "own", Zombies(t)' # {}, "CHLD" \notin signal'[t]
               PROVE  FALSE
  BY DEF WaiterIsTold
<1>2. StillTold(t) /\ NoNewZombie(t)  BY <1>1 DEF WaitersStay
<1>3. t \in Settled /\ t \in Settled'  BY <1>1, <1>2 DEF Settled, StillTold
<1>4. want[t].by # "own"  BY <1>1, <1>2 DEF StillTold
<1>5. Zombies(t) # {}  BY <1>1, <1>2, <1>3, <1>4, ZombiesFewer DEF StillTold
<1>6. "CHLD" \in signal[t]  BY <1>2, <1>4, <1>5 DEF WaiterIsTold, StillTold
<1>7. QED  BY <1>1, <1>2, <1>6 DEF StillTold

(***************************************************************************)
(* The invariant, action by action.                                        *)
(***************************************************************************)
LEMMA IInvHolds ==
  ASSUME TypeOK, StateFits, InitIsSafe, NewbornFits, FamilyFits, ZombiesAreBare, WaiterIsTold
  PROVE  IInv
PROOF BY DEF IInv

LEMMA InitIsSettled == TypeOK /\ InitIsSafe => Init1 \in Settled
PROOF BY DEF TypeOK, InitIsSafe, Settled

LEMMA ForkStep ==
  ASSUME IInv, NEW t \in Task, NEW c \in Task, Fork(t, c)
  PROVE  IInv'
PROOF
<1> USE DEF IInv
<1>1. /\ t \in task /\ at[t] = "user" /\ state[t] = "running" /\ c \notin task /\ at[c] = "user"
      /\ c # Init1 /\ c # t
  BY DEF Fork, InUser, Runs, FreshPid, NewbornFits, TypeOK
<1>2. TypeOK'  BY <1>1 DEF Fork, TypeOK, Link, Locations, links, groups, counts
<1>3. StateFits'  BY <1>1 DEF Fork, TypeOK, Link, StateFits
<1>4. InitIsSafe'  BY <1>1 DEF Fork, TypeOK, Link, InitIsSafe
<1>5. NewbornFits'
  <2>1. \A u \in Task : at'[u] = "fork" <=> u = t \/ at[u] = "fork"
    BY <1>1 DEF Fork, TypeOK
  <2>2. newborn'[t] = c /\ at'[c] = "new" /\ \A u \in Task : u # t => newborn'[u] = newborn[u]
    BY <1>1 DEF Fork, TypeOK, Link
  <2>3. \A u \in Task : at[u] = "fork" =>
           u # t /\ newborn[u] \in task /\ newborn[u] # c /\ at'[newborn[u]] = "new"
    BY <1>1 DEF Fork, TypeOK, Link, NewbornFits
  <2>4. \A d \in Task \ task' : at'[d] = "user"  BY <1>1 DEF Fork, TypeOK, NewbornFits
  <2>5. task' = task \cup {c}  BY DEF Fork
  <2>6. QED  BY <2>1, <2>2, <2>3, <2>4, <2>5 DEF NewbornFits
<1>6. TreeStays
  <2>1. Settled' = Settled  BY <1>1 DEF Fork, TypeOK, Settled
  <2>2. c \notin Settled /\ Settled \subseteq Task  BY <1>1 DEF Settled, TypeOK
  <2>3. QED  BY <2>1, <2>2 DEF TreeStays, Fork, TypeOK, Link
<1>7. FamilyFits' /\ \A u : Children(u)' = Children(u)  BY <1>6, TreeKept
<1>8. \A u \in task : state'[u] = state[u] /\ pgrp'[u] = pgrp[u] /\ signal'[u] = signal[u]
  BY <1>1 DEF Fork, TypeOK, Link
<1>9. ZombiesAreBare'
  <2>1. task' = task \cup {c} /\ state'[c] # "zombie"  BY DEF Fork, TypeOK
  <2>2. QED  BY <1>7, <1>8, <2>1 DEF ZombiesAreBare
<1>10. WaitersStay
  <2>1. ASSUME NEW u \in task', at'[u] = "asleep", state'[u] = "interruptible"
        PROVE  StillTold(u) /\ NoNewZombie(u)
    <3>1. u \in task /\ at[u] = "asleep"  BY <1>1, <2>1 DEF Fork, TypeOK
    <3>2. NoNewZombie(u)  BY <1>7, <1>8 DEF NoNewZombie, Children, Settled
    <3>3. QED  BY <1>8, <2>1, <3>1, <3>2 DEF StillTold, Fork
  <2>2. QED  BY <2>1 DEF WaitersStay
<1>11. WaiterIsTold'  BY <1>2, <1>7, <1>10, WaitersKept
<1>12. QED  BY <1>2, <1>3, <1>4, <1>5, <1>7, <1>9, <1>11

(* The steps that leave tree and table alone, and kill nobody. *)
Light == /\ task' = task /\ pptr' = pptr /\ cptr' = cptr /\ ysptr' = ysptr /\ osptr' = osptr
         /\ \A p \in Task : at'[p] = "new" <=> at[p] = "new"
         /\ \A p \in Task : state'[p] = "zombie" => state[p] = "zombie"

(* A zombie whose parent sleeps in waitpid stays in its group. *)
GroupsStay == \A u \in task : at[u] = "asleep" =>
                \A c \in Children(u) : state[c] = "zombie" => pgrp'[c] = pgrp[c]

LEMMA LightKeepsTree ==
  ASSUME IInv, Light
  PROVE  /\ FamilyFits' /\ ZombiesAreBare'
         /\ \A u : Children(u)' = Children(u) /\ Children(u) \subseteq Task
PROOF
<1> USE DEF IInv
<1>1. TreeStays  BY DEF Light, TreeStays, Settled, TypeOK
<1>2. FamilyFits' /\ \A u : Children(u)' = Children(u)  BY <1>1, TreeKept
<1>3. \A u : Children(u) \subseteq Task  BY DEF Children, Settled, TypeOK
<1>4. ZombiesAreBare'  BY <1>2 DEF Light, ZombiesAreBare, TypeOK
<1>5. QED  BY <1>2, <1>3, <1>4

(* A light step that keeps what the sleepers in waitpid were told. *)
LEMMA LightStep ==
  ASSUME IInv, Light, GroupsStay, TypeOK', StateFits', InitIsSafe', NewbornFits',
         \A u \in task : at'[u] = "asleep" /\ state'[u] = "interruptible" => StillTold(u)
  PROVE  IInv'
PROOF
<1>1. /\ FamilyFits' /\ ZombiesAreBare'
      /\ \A u : Children(u)' = Children(u) /\ Children(u) \subseteq Task
  BY LightKeepsTree
<1>2. ASSUME NEW u \in task', at'[u] = "asleep", state'[u] = "interruptible"
      PROVE  StillTold(u) /\ NoNewZombie(u)
  <2>1. StillTold(u)  BY <1>2 DEF Light
  <2>2. NoNewZombie(u)  BY <1>1, <2>1 DEF NoNewZombie, StillTold, GroupsStay, Light
  <2>3. QED  BY <2>1, <2>2
<1>3. WaitersStay  BY <1>2 DEF WaitersStay
<1>4. WaiterIsTold'  BY <1>1, <1>3, WaitersKept DEF IInv
<1>5. QED  BY <1>1, <1>4 DEF IInv

LEMMA SendSigKeeps ==
  ASSUME TypeOK, StateFits, NEW S \in SUBSET Task, NEW sig \in {"KILL", "STOP", "CONT"},
         SendSig(S, sig), at' = at
  PROVE  /\ state' \in [Task -> {"running", "interruptible", "uninterruptible", "stopped", "zombie"}]
         /\ signal' \in [Task -> SUBSET Signals]
         /\ exit_code' \in [Task -> {"none", "STOP", Exited}]
         /\ \A p \in Task \ S : state'[p] = state[p] /\ signal'[p] = signal[p]
         /\ \A p \in Task : state'[p] = "zombie" => state[p] = "zombie"
         /\ \A p \in Task : state[p] # "zombie" /\ "CHLD" \in signal[p] => "CHLD" \in signal'[p]
         /\ \A p \in Task : state'[p] = "interruptible" => state[p] = "interruptible"
         /\ StateFits'
PROOF
<1>1. \A p \in Task : state'[p] = state[p] \/ (state[p] = "stopped" /\ state'[p] = "running")
  BY DEF SendSig, StateAfter
<1>2. \A p \in Task : /\ SignalAfter(sig, p) \subseteq Signals
                      /\ state[p] # "zombie" /\ "CHLD" \in signal[p] => "CHLD" \in SignalAfter(sig, p)
  BY DEF SignalAfter, Resumes, TypeOK, Signals
<1>3. state' \in [Task -> {"running", "interruptible", "uninterruptible", "stopped", "zombie"}]
  BY DEF SendSig, StateAfter, TypeOK
<1>4. signal' \in [Task -> SUBSET Signals]  BY <1>2 DEF SendSig, TypeOK
<1>5. exit_code' \in [Task -> {"none", "STOP", Exited}]  BY DEF SendSig, TypeOK
<1>6. \A p \in Task \ S : state'[p] = state[p] /\ signal'[p] = signal[p]  BY DEF SendSig
<1>7. \A p \in Task : state[p] # "zombie" /\ "CHLD" \in signal[p] => "CHLD" \in signal'[p]
  BY <1>2 DEF SendSig
<1>8. StateFits'  BY <1>1 DEF StateFits
<1>9. QED  BY <1>1, <1>3, <1>4, <1>5, <1>6, <1>7, <1>8

LEMMA KillStep ==
  ASSUME IInv, NEW t \in Task, NEW S \in SUBSET task, NEW sig \in {"KILL", "STOP", "CONT"},
         Kill(t, S, sig)
  PROVE  IInv'
PROOF
<1> USE DEF IInv
<1>1. S \in SUBSET Task /\ at' = at /\ SendSig(S, sig) /\ Init1 \notin S
  BY DEF Kill, TypeOK
<1>2. /\ state' \in [Task -> {"running", "interruptible", "uninterruptible", "stopped", "zombie"}]
      /\ signal' \in [Task -> SUBSET Signals]
      /\ exit_code' \in [Task -> {"none", "STOP", Exited}]
      /\ \A p \in Task \ S : state'[p] = state[p] /\ signal'[p] = signal[p]
      /\ \A p \in Task : state'[p] = "zombie" => state[p] = "zombie"
      /\ \A p \in Task : state[p] # "zombie" /\ "CHLD" \in signal[p] => "CHLD" \in signal'[p]
      /\ \A p \in Task : state'[p] = "interruptible" => state[p] = "interruptible"
      /\ StateFits'
  BY <1>1, SendSigKeeps
<1>3. TypeOK'
  <2>1. kills' \in 0..MaxKills  BY DEF Kill, TypeOK
  <2>2. state'[Init1] = state[Init1]  BY <1>1, <1>2 DEF TypeOK
  <2>3. QED  BY <1>1, <1>2, <2>1, <2>2 DEF Kill, TypeOK, links, groups, counts
<1>4. InitIsSafe'  BY <1>1, <1>2 DEF Kill, TypeOK, InitIsSafe, groups
<1>5. NewbornFits'  BY DEF Kill, NewbornFits
<1>6. Light  BY <1>2 DEF Light, Kill, links, groups
<1>7. ASSUME NEW u \in task, at'[u] = "asleep", state'[u] = "interruptible"
      PROVE  StillTold(u)
  <2>1. u \in Task /\ at[u] = "asleep" /\ state[u] = "interruptible" /\ want'[u] = want[u]
    BY <1>1, <1>2, <1>7 DEF TypeOK, Kill
  <2>2. QED  BY <1>2, <2>1 DEF StillTold
<1>8. GroupsStay  BY DEF GroupsStay, Kill, groups
<1>9. QED  BY <1>2, <1>3, <1>4, <1>5, <1>6, <1>7, <1>8, LightStep

(* Init is only ever sent SIGCHLD, which does not end it. *)
LEMMA FirstOfInit ==
  ASSUME InitIsSafe, signal[Init1] # {}
  PROVE  First(Init1) = "CHLD"
PROOF
<1>1. signal[Init1] = {"CHLD"}  BY DEF InitIsSafe
<1>2. \A s \in {"CHLD"} : \A r \in {"CHLD"} : Number[s] <= Number[r]  BY DEF Number
<1>3. QED  BY <1>1, <1>2 DEF First

LEMMA DoSignalStep ==
  ASSUME IInv, NEW t \in Task, DoSignal(t)
  PROVE  IInv'
PROOF
<1> USE DEF IInv
<1>1. t \in task /\ state[t] = "running" /\ at[t] = "user" /\ signal[t] # {}
  BY DEF DoSignal, Runs
<1>2. t = Init1 => First(t) = "CHLD"  BY <1>1, FirstOfInit
<1>3. /\ state' = state \/ state' = [state EXCEPT ![t] = "stopped"]
      /\ at' = at \/ (at' = [at EXCEPT ![t] = "exit"] /\ state' = state)
      /\ exit_code' = exit_code \/ exit_code' = [exit_code EXCEPT ![t] = "STOP"]
      /\ state'[t] = "stopped" => at' = at
      /\ t = Init1 => at' = at /\ state' = state
  BY <1>1, <1>2 DEF DoSignal, Goto
<1>4. signal' \in [Task -> SUBSET Signals] /\ \A p \in Task : signal'[p] \subseteq signal[p] \cup {"CHLD"}
  BY DEF DoSignal, TypeOK, Signals
<1>5. \A p \in Task \ {t} : signal[p] \subseteq signal'[p]  BY DEF DoSignal
<1>6. TypeOK'
  <2>1. state' \in [Task -> {"running", "interruptible", "uninterruptible", "stopped", "zombie"}]
        /\ state'[Init1] \in {"running", "interruptible"}
    BY <1>3 DEF TypeOK
  <2>2. at' \in [Task -> Locations] /\ exit_code' \in [Task -> {"none", "STOP", Exited}]
    BY <1>3 DEF TypeOK, Locations
  <2>3. QED  BY <1>4, <2>1, <2>2 DEF DoSignal, TypeOK, links, groups, counts
<1>7. StateFits'  BY <1>1, <1>3 DEF StateFits, TypeOK
<1>8. InitIsSafe'  BY <1>3, <1>4 DEF InitIsSafe, TypeOK, DoSignal, groups
<1>9. NewbornFits'
  <2>1. \A u \in Task : (at'[u] = "fork" <=> at[u] = "fork") /\ (at'[u] = "new" <=> at[u] = "new")
    BY <1>1, <1>3 DEF TypeOK
  <2>2. \A u \in Task \ task : at'[u] = "user"  BY <1>1, <1>3 DEF TypeOK, NewbornFits
  <2>3. task' = task /\ newborn' = newborn  BY DEF DoSignal
  <2>4. QED  BY <2>1, <2>2, <2>3 DEF NewbornFits, TypeOK
<1>10. Light  BY <1>1, <1>3 DEF Light, DoSignal, links, groups, TypeOK
<1>11. ASSUME NEW u \in task, at'[u] = "asleep", state'[u] = "interruptible"
       PROVE  StillTold(u)
  <2>1. u \in Task /\ u # t /\ at[u] = "asleep" /\ state[u] = "interruptible"
    BY <1>1, <1>3, <1>11 DEF TypeOK
  <2>2. QED  BY <1>5, <2>1 DEF StillTold, DoSignal
<1>12. GroupsStay  BY DEF GroupsStay, DoSignal, groups
<1>13. QED  BY <1>6, <1>7, <1>8, <1>9, <1>10, <1>11, <1>12, LightStep

LEMMA SignalSeenStep ==
  ASSUME IInv, NEW t \in Task, SignalSeen(t)
  PROVE  IInv'
PROOF
<1> USE DEF IInv
<1>1. t \in task /\ state[t] = "interruptible" /\ state' = [state EXCEPT ![t] = "running"]
  BY DEF SignalSeen
<1>2. at[t] = "asleep"  BY <1>1 DEF StateFits, TypeOK, Locations
<1>3. TypeOK'  BY <1>1 DEF SignalSeen, TypeOK, links, groups, counts
<1>4. StateFits'  BY <1>1, <1>2 DEF SignalSeen, StateFits, TypeOK
<1>5. InitIsSafe'  BY DEF SignalSeen, InitIsSafe, groups
<1>6. NewbornFits'  BY DEF SignalSeen, NewbornFits
<1>7. Light  BY <1>1 DEF Light, SignalSeen, links, TypeOK
<1>8. GroupsStay  BY DEF GroupsStay, SignalSeen, groups
<1>9. \A u \in task : at'[u] = "asleep" /\ state'[u] = "interruptible" => StillTold(u)
  BY <1>1 DEF StillTold, SignalSeen, TypeOK
<1>10. QED  BY <1>3, <1>4, <1>5, <1>6, <1>7, <1>8, <1>9, LightStep

LEMMA SetPgidStep ==
  ASSUME IInv, NEW t \in Task, NEW p \in Task, NEW g \in Task, SetPgid(t, p, g)
  PROVE  IInv'
PROOF
<1> USE DEF IInv
<1>1. t \in task /\ state[t] = "running" /\ at[t] = "user" /\ p # Init1 /\ (pptr[p] = t \/ p = t)
  BY DEF SetPgid, InUser, Runs
<1>2. TypeOK'
  <2>1. pgrp' \in Link  BY DEF SetPgid, TypeOK, Link
  <2>2. changes' \in 0..MaxGroups  BY DEF SetPgid, TypeOK
  <2>3. QED  BY <2>1, <2>2 DEF SetPgid, TypeOK, links
<1>3. StateFits'  BY DEF SetPgid, StateFits
<1>4. InitIsSafe'  BY <1>1 DEF SetPgid, InitIsSafe, TypeOK, Link
<1>5. NewbornFits'  BY DEF SetPgid, NewbornFits
<1>6. Light  BY DEF Light, SetPgid, links
<1>7. GroupsStay
  <2>1. ASSUME NEW u \in task, at[u] = "asleep", NEW c \in Children(u), state[c] = "zombie"
        PROVE  pgrp'[c] = pgrp[c]
    <3>1. c \in Task /\ pptr[c] = u  BY DEF Children, Settled, TypeOK
    <3>2. c # p  BY <1>1, <2>1, <3>1
    <3>3. QED  BY <3>1, <3>2 DEF SetPgid, TypeOK, Link
  <2>2. QED  BY <2>1 DEF GroupsStay
<1>8. \A u \in task : at'[u] = "asleep" /\ state'[u] = "interruptible" => StillTold(u)
  BY DEF StillTold, SetPgid
<1>9. QED  BY <1>2, <1>3, <1>4, <1>5, <1>6, <1>7, <1>8, LightStep

LEMMA SetSidStep ==
  ASSUME IInv, NEW t \in Task, SetSid(t)
  PROVE  IInv'
PROOF
<1> USE DEF IInv
<1>1. t \in task /\ state[t] = "running" /\ t # Init1  BY DEF SetSid, InUser, Runs
<1>2. TypeOK'
  <2>1. pgrp' \in Link /\ session' \in Link /\ leader' \in [Task -> BOOLEAN]
    BY DEF SetSid, TypeOK, Link
  <2>2. changes' \in 0..MaxGroups  BY DEF SetSid, TypeOK
  <2>3. QED  BY <2>1, <2>2 DEF SetSid, TypeOK, links
<1>3. StateFits'  BY DEF SetSid, StateFits
<1>4. InitIsSafe'  BY <1>1 DEF SetSid, InitIsSafe, TypeOK, Link
<1>5. NewbornFits'  BY DEF SetSid, NewbornFits
<1>6. Light  BY DEF Light, SetSid, links
<1>7. GroupsStay
  <2>1. ASSUME NEW c \in Task, state[c] = "zombie" PROVE pgrp'[c] = pgrp[c]
    BY <1>1, <2>1 DEF SetSid, TypeOK, Link
  <2>2. \A u : Children(u) \subseteq Task  BY DEF Children, Settled, TypeOK
  <2>3. QED  BY <2>1, <2>2 DEF GroupsStay
<1>8. \A u \in task : at'[u] = "asleep" /\ state'[u] = "interruptible" => StillTold(u)
  BY DEF StillTold, SetSid
<1>9. QED  BY <1>2, <1>3, <1>4, <1>5, <1>6, <1>7, <1>8, LightStep

LEMMA ExitStep ==
  ASSUME IInv, NEW t \in Task, Exit(t)
  PROVE  IInv'
PROOF
<1> USE DEF IInv
<1>1. /\ t \in task /\ state[t] = "running" /\ at[t] = "user" /\ t # Init1
      /\ at' = [at EXCEPT ![t] = "exit"]
  BY DEF Exit, InUser, Runs, Goto
<1>2. TypeOK'
  <2>1. at' \in [Task -> Locations]  BY <1>1 DEF TypeOK, Locations
  <2>2. QED  BY <2>1 DEF Exit, TypeOK, links, groups, counts
<1>3. StateFits'  BY <1>1 DEF Exit, StateFits, TypeOK
<1>4. InitIsSafe'  BY <1>1 DEF Exit, InitIsSafe, TypeOK, groups
<1>5. NewbornFits'  BY <1>1 DEF Exit, NewbornFits, TypeOK
<1>6. Light  BY <1>1 DEF Light, Exit, links, TypeOK
<1>7. GroupsStay  BY DEF GroupsStay, Exit, groups
<1>8. \A u \in task : at'[u] = "asleep" /\ state'[u] = "interruptible" => StillTold(u)
  BY <1>1 DEF StillTold, Exit, TypeOK
<1>9. QED  BY <1>2, <1>3, <1>4, <1>5, <1>6, <1>7, <1>8, LightStep

LEMMA WaitStep ==
  ASSUME IInv, NEW t \in Task, NEW w \in WaitCalls \cup {AnyChild}, Wait(t, w)
  PROVE  IInv'
PROOF
<1> USE DEF IInv
<1>1. /\ t \in task /\ state[t] = "running" /\ at[t] = "user"
      /\ at' = [at EXCEPT ![t] = "wait"] /\ want' = [want EXCEPT ![t] = w]
  BY DEF Wait, InUser, Runs, Goto
<1>2. TypeOK'
  <2>1. at' \in [Task -> Locations] /\ want' \in [Task -> WaitCalls \cup {AnyChild}]
    BY <1>1 DEF TypeOK, Locations
  <2>2. QED  BY <2>1 DEF Wait, TypeOK, links, groups, counts
<1>3. StateFits'  BY <1>1 DEF Wait, StateFits, TypeOK
<1>4. InitIsSafe'  BY <1>1 DEF Wait, InitIsSafe, TypeOK, groups
<1>5. NewbornFits'  BY <1>1 DEF Wait, NewbornFits, TypeOK
<1>6. Light  BY <1>1 DEF Light, Wait, links, TypeOK
<1>7. GroupsStay  BY DEF GroupsStay, Wait, groups
<1>8. \A u \in task : at'[u] = "asleep" /\ state'[u] = "interruptible" => StillTold(u)
  BY <1>1 DEF StillTold, Wait, TypeOK
<1>9. QED  BY <1>2, <1>3, <1>4, <1>5, <1>6, <1>7, <1>8, LightStep

LEMMA ReportStopStep ==
  ASSUME IInv, NEW t \in Task, ReportStop(t)
  PROVE  IInv'
PROOF
<1> USE DEF IInv
<1>1. /\ t \in task /\ state[t] = "running" /\ at[t] = "wait"
      /\ at' = [at EXCEPT ![t] = "user"] /\ want' = [want EXCEPT ![t] = AnyChild]
      /\ exit_code' \in [Task -> {"none", "STOP", Exited}]
  BY DEF ReportStop, Runs, Goto, Returns, TypeOK
<1>2. TypeOK'
  <2>1. at' \in [Task -> Locations] /\ want' \in [Task -> WaitCalls \cup {AnyChild}]
    BY <1>1 DEF TypeOK, Locations
  <2>2. QED  BY <1>1, <2>1 DEF ReportStop, TypeOK, links, groups, counts
<1>3. StateFits'  BY <1>1 DEF ReportStop, StateFits, TypeOK
<1>4. InitIsSafe'  BY <1>1 DEF ReportStop, InitIsSafe, TypeOK, groups
<1>5. NewbornFits'  BY <1>1 DEF ReportStop, NewbornFits, TypeOK
<1>6. Light  BY <1>1 DEF Light, ReportStop, links, TypeOK
<1>7. GroupsStay  BY DEF GroupsStay, ReportStop, groups
<1>8. \A u \in task : at'[u] = "asleep" /\ state'[u] = "interruptible" => StillTold(u)
  BY <1>1 DEF StillTold, ReportStop, TypeOK
<1>9. QED  BY <1>2, <1>3, <1>4, <1>5, <1>6, <1>7, <1>8, LightStep

LEMMA WokenStep ==
  ASSUME IInv, NEW t \in Task, Woken(t)
  PROVE  IInv'
PROOF
<1> USE DEF IInv
<1>1. /\ t \in task /\ state[t] = "running" /\ at[t] = "asleep"
      /\ at' = [at EXCEPT ![t] = "wait"] \/ at' = [at EXCEPT ![t] = "user"]
      /\ want' = want \/ want' = [want EXCEPT ![t] = AnyChild]
  BY DEF Woken, Runs, Goto, Returns
<1>2. TypeOK'
  <2>1. at' \in [Task -> Locations] /\ want' \in [Task -> WaitCalls \cup {AnyChild}]
    BY <1>1 DEF TypeOK, Locations
  <2>2. QED  BY <2>1 DEF Woken, TypeOK, links, groups, counts
<1>3. StateFits'  BY <1>1 DEF Woken, StateFits, TypeOK
<1>4. InitIsSafe'  BY <1>1 DEF Woken, InitIsSafe, TypeOK, groups
<1>5. NewbornFits'  BY <1>1 DEF Woken, NewbornFits, TypeOK
<1>6. Light  BY <1>1 DEF Light, Woken, links, TypeOK
<1>7. GroupsStay  BY DEF GroupsStay, Woken, groups
<1>8. \A u \in task : at'[u] = "asleep" /\ state'[u] = "interruptible" => StillTold(u)
  BY <1>1 DEF StillTold, Woken, TypeOK
<1>9. QED  BY <1>2, <1>3, <1>4, <1>5, <1>6, <1>7, <1>8, LightStep

(* The one step that goes to sleep has looked for zombies first. *)
LEMMA WaitMoreStep ==
  ASSUME IInv, NEW t \in Task, WaitMore(t)
  PROVE  IInv'
PROOF
<1> USE DEF IInv
<1>1. /\ t \in task /\ state[t] = "running" /\ at[t] = "wait" /\ Zombies(t) = {}
      /\ \/ /\ state' = [state EXCEPT ![t] = "interruptible"] /\ at' = [at EXCEPT ![t] = "asleep"]
            /\ want' = want
         \/ /\ state' = state /\ at' = [at EXCEPT ![t] = "user"]
            /\ want' = [want EXCEPT ![t] = AnyChild]
  BY DEF WaitMore, Runs, Goto, Returns
<1>2. TypeOK'
  <2>1. at' \in [Task -> Locations] /\ want' \in [Task -> WaitCalls \cup {AnyChild}]
    BY <1>1 DEF TypeOK, Locations
  <2>2. /\ state' \in [Task -> {"running", "interruptible", "uninterruptible", "stopped", "zombie"}]
        /\ state'[Init1] \in {"running", "interruptible"}
    BY <1>1 DEF TypeOK
  <2>3. QED  BY <2>1, <2>2 DEF WaitMore, TypeOK, links, groups, counts
<1>3. StateFits'  BY <1>1 DEF StateFits, TypeOK
<1>4. InitIsSafe'  BY <1>1 DEF WaitMore, InitIsSafe, TypeOK, groups
<1>5. NewbornFits'  BY <1>1 DEF WaitMore, NewbornFits, TypeOK
<1>6. Light  BY <1>1 DEF Light, WaitMore, links, TypeOK
<1>7. /\ FamilyFits' /\ ZombiesAreBare'
      /\ \A u : Children(u)' = Children(u) /\ Children(u) \subseteq Task
  BY <1>6, LightKeepsTree
<1>8. \A u : NoNewZombie(u)  BY <1>6, <1>7 DEF NoNewZombie, Light, WaitMore, groups
<1>9. ASSUME NEW u \in task', at'[u] = "asleep", state'[u] = "interruptible",
             want'[u].by # "own", Zombies(u)' # {}
      PROVE  "CHLD" \in signal'[u]
  <2>1. u \in task /\ u \in Task /\ want'[u] = want[u] /\ signal' = signal
    BY <1>1, <1>9 DEF WaitMore, TypeOK
  <2>2. u \in Settled /\ u \in Settled'
    BY <1>1, <1>9, <2>1 DEF Settled, TypeOK, WaitMore
  <2>3. Zombies(u)' \subseteq Zombies(u)
    BY <1>2, <1>7, <1>8, <1>9, <2>1, <2>2, ZombiesFewer
  <2>4. u # t  BY <1>1, <1>9, <2>3
  <2>5. at[u] = "asleep" /\ state[u] = "interruptible"  BY <1>1, <1>9, <2>1, <2>4 DEF TypeOK
  <2>6. QED  BY <1>9, <2>1, <2>3, <2>5 DEF WaiterIsTold
<1>10. WaiterIsTold'  BY <1>9 DEF WaiterIsTold
<1>11. QED  BY <1>2, <1>3, <1>4, <1>5, <1>7, <1>10

LEMMA ForkedStep ==
  ASSUME IInv, NEW t \in Task, Forked(t)
  PROVE  IInv'
PROOF
<1> USE DEF IInv
<1> DEFINE c == newborn[t]
<1>1. /\ t \in task /\ state[t] = "running" /\ at[t] = "fork"
      /\ c \in task /\ c \in Task /\ at[c] = "new" /\ c # t /\ c # NoTask /\ c # Init1
  BY DEF Forked, Runs, NewbornFits, TypeOK, InitIsSafe
<1>2. TypeOK'
  <2>1. pptr' \in Link /\ cptr' \in Link /\ ysptr' \in Link /\ osptr' \in Link /\ newborn' \in Link
    BY <1>1 DEF Forked, TypeOK, Link
  <2>2. at' \in [Task -> Locations]  BY <1>1 DEF Forked, TypeOK, Locations
  <2>3. /\ state' \in [Task -> {"running", "interruptible", "uninterruptible", "stopped", "zombie"}]
        /\ state'[Init1] \in {"running", "interruptible"}
    BY <1>1 DEF Forked, TypeOK
  <2>4. QED  BY <2>1, <2>2, <2>3 DEF Forked, TypeOK, groups, counts
<1>3. \A p \in Task : /\ state'[p] = IF p = c THEN "running" ELSE state[p]
                      /\ at'[p] = IF p \in {t, c} THEN "user" ELSE at[p]
                      /\ newborn'[p] = IF p = t THEN NoTask ELSE newborn[p]
  BY <1>1 DEF Forked, TypeOK, Link
<1>4. StateFits'  BY <1>1, <1>3 DEF StateFits
<1>5. InitIsSafe'  BY <1>1, <1>3 DEF Forked, InitIsSafe, TypeOK, groups
<1>6. NewbornFits'
  <2>1. task' = task  BY DEF Forked
  <2>2. \A u \in Task : at'[u] = "fork" => u # t /\ at[u] = "fork" /\ newborn'[u] = newborn[u]
    BY <1>3
  <2>3. \A u \in Task : u # t /\ at[u] = "fork" =>
           newborn[u] \in task /\ at[newborn[u]] = "new" /\ newborn[u] # c /\ newborn[u] # t
    BY <1>1 DEF NewbornFits
  <2>4. \A u \in Task : u # t /\ at[u] = "fork" => at'[newborn[u]] = "new"
    BY <1>3, <2>3 DEF TypeOK
  <2>5. \A d \in Task \ task' : at'[d] = "user"  BY <1>1, <1>3, <2>1 DEF NewbornFits
  <2>6. \A u, v \in Task : at'[u] = "fork" /\ at'[v] = "fork" /\ newborn'[u] = newborn'[v] => u = v
    BY <2>2 DEF NewbornFits
  <2>7. QED  BY <2>1, <2>2, <2>3, <2>4, <2>5, <2>6 DEF NewbornFits
<1>7. LinkedIn(t, c)
  <2>1. t \in Settled /\ c \notin Settled /\ Settled \subseteq Task
    BY <1>1 DEF Settled, TypeOK
  <2>2. Settled' = Settled \cup {c}
    BY <1>1, <1>3 DEF Settled, TypeOK, Forked
  <2>3. pptr'[c] = t /\ cptr'[c] = NoTask /\ ysptr'[c] = NoTask /\ osptr'[c] = cptr[t]
    BY <1>1 DEF Forked, TypeOK, Link
  <2>4. \A p \in Settled : /\ pptr'[p] = pptr[p] /\ osptr'[p] = osptr[p]
                           /\ cptr'[p] = IF p = t THEN c ELSE cptr[p]
                           /\ ysptr'[p] = IF p = cptr[t] THEN c ELSE ysptr[p]
    BY <1>1, <2>1 DEF Forked, TypeOK, Link
  <2>5. QED  BY <1>1, <2>1, <2>2, <2>3, <2>4 DEF LinkedIn
<1>8. /\ FamilyFits' /\ Children(t)' = Children(t) \cup {c}
      /\ \A u : u # t => Children(u)' = Children(u)
  BY <1>7, TreeGrows, InitIsSettled
<1>9. ZombiesAreBare'
  BY <1>1, <1>3, <1>8 DEF ZombiesAreBare, Forked, TypeOK
<1>10. WaitersStay
  <2>1. ASSUME NEW u \in task', at'[u] = "asleep", state'[u] = "interruptible"
        PROVE  StillTold(u) /\ NoNewZombie(u)
    <3>1. u \in task /\ u \in Task /\ u \notin {t, c} /\ at[u] = "asleep" /\ state[u] = "interruptible"
      BY <1>1, <1>3, <2>1 DEF TypeOK, Forked
    <3>2. Children(u)' = Children(u) /\ Children(u) \subseteq Task
      BY <1>8, <3>1 DEF Children, Settled, TypeOK
    <3>3. NoNewZombie(u)  BY <1>3, <3>2 DEF NoNewZombie, Forked, groups
    <3>4. QED  BY <3>1, <3>3 DEF StillTold, Forked
  <2>2. QED  BY <2>1 DEF WaitersStay
<1>11. WaiterIsTold'  BY <1>2, <1>8, <1>10, WaitersKept
<1>12. QED  BY <1>2, <1>4, <1>5, <1>6, <1>8, <1>9, <1>11

LEMMA ForkFailsStep ==
  ASSUME IInv, NEW t \in Task, ForkFails(t)
  PROVE  IInv'
PROOF
<1> USE DEF IInv
<1> DEFINE c == newborn[t]
<1>1. /\ t \in task /\ state[t] = "running" /\ at[t] = "fork"
      /\ c \in task /\ c \in Task /\ at[c] = "new" /\ c # t /\ c # NoTask /\ c # Init1
  BY DEF ForkFails, Runs, NewbornFits, TypeOK, InitIsSafe
<1>2. TypeOK'
  <2>1. pptr' \in Link /\ cptr' \in Link /\ ysptr' \in Link /\ osptr' \in Link /\ newborn' \in Link
    BY <1>1 DEF ForkFails, Freed, TypeOK, Link
  <2>2. at' \in [Task -> Locations] /\ pgrp' \in Link /\ session' \in Link
    BY <1>1 DEF ForkFails, Freed, TypeOK, Locations, Link
  <2>3. /\ state' \in [Task -> {"running", "interruptible", "uninterruptible", "stopped", "zombie"}]
        /\ state'[Init1] \in {"running", "interruptible"}
        /\ signal' \in [Task -> SUBSET Signals] /\ leader' \in [Task -> BOOLEAN]
        /\ exit_code' \in [Task -> {"none", "STOP", Exited}]
    BY <1>1 DEF ForkFails, Freed, TypeOK
  <2>4. QED  BY <1>1, <2>1, <2>2, <2>3 DEF ForkFails, Freed, TypeOK, counts
<1>3. \A p \in Task : /\ state'[p] = IF p = c THEN "running" ELSE state[p]
                      /\ at'[p] = IF p \in {t, c} THEN "user" ELSE at[p]
                      /\ newborn'[p] = IF p = t THEN NoTask ELSE newborn[p]
                      /\ pgrp'[p] = IF p = c THEN NoTask ELSE pgrp[p]
                      /\ signal'[p] = IF p = c THEN {} ELSE signal[p]
  BY <1>1 DEF ForkFails, Freed, TypeOK, Link
<1>4. StateFits'  BY <1>1, <1>3 DEF StateFits
<1>5. InitIsSafe'  BY <1>1, <1>3 DEF InitIsSafe, TypeOK
<1>6. NewbornFits'
  <2>1. task' = task \ {c}  BY DEF ForkFails, Freed
  <2>2. \A u \in Task : at'[u] = "fork" => u # t /\ at[u] = "fork" /\ newborn'[u] = newborn[u]
    BY <1>3
  <2>3. \A u \in Task : u # t /\ at[u] = "fork" =>
           newborn[u] \in task /\ at[newborn[u]] = "new" /\ newborn[u] # c /\ newborn[u] # t
    BY <1>1 DEF NewbornFits
  <2>4. \A u \in Task : u # t /\ at[u] = "fork" => at'[newborn[u]] = "new"
    BY <1>3, <2>3 DEF TypeOK
  <2>5. \A d \in Task \ task' : at'[d] = "user"  BY <1>1, <1>3, <2>1 DEF NewbornFits
  <2>6. \A u, v \in Task : at'[u] = "fork" /\ at'[v] = "fork" /\ newborn'[u] = newborn'[v] => u = v
    BY <2>2 DEF NewbornFits
  <2>7. QED  BY <2>1, <2>2, <2>3, <2>4, <2>5, <2>6 DEF NewbornFits
<1>7. TreeStays
  <2>1. c \notin Settled /\ Settled \subseteq Task  BY <1>1 DEF Settled, TypeOK
  <2>2. Settled' = Settled
    BY <1>1, <1>3 DEF Settled, TypeOK, ForkFails, Freed
  <2>3. QED  BY <1>1, <2>1, <2>2 DEF TreeStays, ForkFails, Freed, TypeOK, Link
<1>8. FamilyFits' /\ \A u : Children(u)' = Children(u)  BY <1>7, TreeKept
<1>9. ZombiesAreBare'
  BY <1>1, <1>3, <1>8 DEF ZombiesAreBare, ForkFails, Freed, TypeOK
<1>10. WaitersStay
  <2>1. ASSUME NEW u \in task', at'[u] = "asleep", state'[u] = "interruptible"
        PROVE  StillTold(u) /\ NoNewZombie(u)
    <3>1. u \in task /\ u \in Task /\ u \notin {t, c} /\ at[u] = "asleep" /\ state[u] = "interruptible"
      BY <1>1, <1>3, <2>1 DEF TypeOK, ForkFails, Freed
    <3>2. Children(u)' = Children(u) /\ Children(u) \subseteq Task /\ c \notin Children(u)
      BY <1>1, <1>8 DEF Children, Settled, TypeOK
    <3>3. NoNewZombie(u)  BY <1>3, <3>2 DEF NoNewZombie
    <3>4. QED  BY <1>3, <3>1, <3>3 DEF StillTold, ForkFails
  <2>2. QED  BY <2>1 DEF WaitersStay
<1>11. WaiterIsTold'  BY <1>2, <1>8, <1>10, WaitersKept
<1>12. QED  BY <1>2, <1>4, <1>5, <1>6, <1>8, <1>9, <1>11

(* Whoever is hung up is a task in a group, so never init. *)
LEMMA HungUpInGroup ==
  ASSUME InitIsSafe, NEW t \in task, NEW stale, NEW p \in HungUp(t, stale)
  PROVE  p \in task /\ p # Init1
PROOF
<1>1. PICK g : p \in Group(g)  BY DEF HungUp
<1>2. p \in task /\ pgrp[p] = g /\ g # NoTask  BY <1>1 DEF Group
<1>3. QED  BY <1>2 DEF InitIsSafe

(* The state, the code and the signals after do_exit. *)
ExitSignals(t) ==
  \A p \in Task :
    /\ state'[p] = IF p = t THEN "zombie"
                   ELSE IF p # Init1 /\ state[p] = "stopped" THEN state'[p] ELSE state[p]
    /\ p # t /\ state[p] = "stopped" => state'[p] \in {"stopped", "running"}
    /\ signal'[p] \subseteq Signals /\ exit_code'[p] \in {"none", "STOP", Exited}
    /\ p = Init1 => signal'[p] \subseteq signal[p] \cup {"CHLD"}
    /\ p # t /\ state[p] # "zombie" /\ ("CHLD" \in signal[p] \/ p \in Told(t)) => "CHLD" \in signal'[p]

LEMMA ExitSignalled ==
  ASSUME TypeOK, InitIsSafe, NEW t \in task, t # Init1, DoExit(t)
  PROVE  /\ ExitSignals(t)
         /\ state' \in [Task -> {"running", "interruptible", "uninterruptible", "stopped", "zombie"}]
         /\ signal' \in [Task -> SUBSET Signals]
         /\ exit_code' \in [Task -> {"none", "STOP", Exited}]
PROOF
<1> DEFINE hung(stale) == HungUp(t, stale)
           st(stale) == [p \in Task |-> IF p = t THEN "zombie"
                                        ELSE IF p \in hung(stale) THEN StateAfter("CONT", p) ELSE state[p]]
           ec(stale) == [p \in Task |-> IF p \in hung(stale) THEN "none"
                                        ELSE IF p = t THEN Exited ELSE exit_code[p]]
           sg(stale) == [p \in Task |->
                       IF p = t \/ state[p] = "zombie" THEN {}
                       ELSE (IF p \in hung(stale) THEN SignalAfter("CONT", p) \cup {"HUP"} ELSE signal[p])
                               \cup (IF p \in Told(t) THEN {"CHLD"} ELSE {})]
<1>1. PICK stale \in BOOLEAN : state' = st(stale) /\ exit_code' = ec(stale) /\ signal' = sg(stale)
  BY DEF DoExit
<1>2. \A p \in hung(stale) : p # Init1  BY HungUpInGroup
<1>3. \A p \in Task : StateAfter("CONT", p) = IF state[p] = "stopped" THEN "running" ELSE state[p]
  BY DEF StateAfter, Resumes
<1>4. \A p \in Task : state[p] # "zombie" =>
        /\ SignalAfter("CONT", p) \subseteq Signals
        /\ "CHLD" \in signal[p] => "CHLD" \in SignalAfter("CONT", p)
  BY DEF SignalAfter, Resumes, TypeOK, Signals
<1> HIDE DEF hung
<1>5. ASSUME NEW p \in Task
      PROVE  /\ state'[p] = IF p = t THEN "zombie"
                   ELSE IF p # Init1 /\ state[p] = "stopped" THEN state'[p] ELSE state[p]
             /\ p # t /\ state[p] = "stopped" => state'[p] \in {"stopped", "running"}
  BY <1>1, <1>2, <1>3
<1>6. ASSUME NEW p \in Task
      PROVE  signal'[p] \subseteq Signals /\ exit_code'[p] \in {"none", "STOP", Exited}
  BY <1>1, <1>4 DEF TypeOK, Signals
<1>7. ASSUME NEW p \in Task
      PROVE  p = Init1 => signal'[p] \subseteq signal[p] \cup {"CHLD"}
  BY <1>1, <1>2
<1>8. ASSUME NEW p \in Task, p # t, state[p] # "zombie", "CHLD" \in signal[p] \/ p \in Told(t)
      PROVE  "CHLD" \in signal'[p]
  BY <1>1, <1>4, <1>8
<1>9. ExitSignals(t)  BY <1>5, <1>6, <1>7, <1>8 DEF ExitSignals
<1>10. /\ state' = [p \in Task |-> state'[p]] /\ signal' = [p \in Task |-> signal'[p]]
       /\ exit_code' = [p \in Task |-> exit_code'[p]]
  BY <1>1
<1>11. \A p \in Task : state'[p] \in {"running", "interruptible", "uninterruptible", "stopped", "zombie"}
  BY <1>5 DEF TypeOK
<1>12. QED  BY <1>6, <1>9, <1>10, <1>11

LEMMA DoExitStep ==
  ASSUME IInv, NEW t \in Task, DoExit(t)
  PROVE  IInv'
PROOF
<1> USE DEF IInv
<1>1. t \in task /\ state[t] = "running" /\ at[t] = "exit" /\ t # Init1 /\ t \in Settled
  BY DEF DoExit, Runs, InitIsSafe, Settled
<1>2. /\ task' = task /\ at' = at /\ newborn' = newborn /\ want' = want /\ pgrp' = pgrp
      /\ session' = session /\ leader' = leader /\ kills' = kills /\ changes' = changes
  BY DEF DoExit, groups, counts
<1>3. /\ ExitSignals(t)
      /\ state' \in [Task -> {"running", "interruptible", "uninterruptible", "stopped", "zombie"}]
      /\ signal' \in [Task -> SUBSET Signals]
      /\ exit_code' \in [Task -> {"none", "STOP", Exited}]
  BY <1>1, ExitSignalled
<1>4. Settled' = Settled /\ Settled \subseteq Task /\ Init1 \in Settled
  BY <1>2, InitIsSettled DEF Settled, TypeOK
<1>5. Kids(t) = Children(t)  BY <1>1, KidsAreChildren
<1>6. pptr' = [p \in Task |-> IF p \in Children(t) THEN Init1 ELSE pptr[p]]
  BY <1>5 DEF DoExit, Inherited
<1>7. \A p \in Settled : pptr'[p] = IF pptr[p] = t THEN Init1 ELSE pptr[p]
  BY <1>4, <1>6 DEF Children
<1>8. /\ pptr' \in Link /\ cptr' \in Link /\ ysptr' \in Link /\ osptr' \in Link
      /\ FamilyFits' /\ Children(t)' = {}
      /\ Children(Init1)' = Children(Init1) \cup Children(t)
      /\ \A u : u \notin {t, Init1} => Children(u)' = Children(u)
  <2>1. CASE Children(t) = {}
    <3>1. pptr' = pptr /\ cptr' = cptr /\ ysptr' = ysptr /\ osptr' = osptr
      BY <1>5, <1>6, <2>1 DEF DoExit, TypeOK, Link
    <3>2. TreeStays  BY <1>4, <3>1 DEF TreeStays
    <3>3. FamilyFits' /\ \A u : Children(u)' = Children(u)  BY <3>2, TreeKept
    <3>4. QED  BY <2>1, <3>1, <3>3 DEF TypeOK
  <2>2. CASE Children(t) # {}
    <3> DEFINE e == Eldest(t)
    <3>1. e \in Children(t) /\ osptr[e] = NoTask
      BY <1>1, <1>5, <2>2 DEF Eldest, FamilyFits, HasEldest
    <3>2. cptr[Init1] # NoTask  BY <1>1, <1>4, InitHasChild
    <3>3. cptr[Init1] \in Task /\ e \in Task /\ Init1 \in Task
      BY <1>4, <3>1, <3>2 DEF TypeOK, Link, Children
    <3> HIDE DEF e
    <3>4. /\ osptr' = [osptr EXCEPT ![e] = cptr[Init1]]
          /\ ysptr' = [ysptr EXCEPT ![cptr[Init1]] = e]
          /\ cptr' = [cptr EXCEPT ![Init1] = cptr[t], ![t] = NoTask]
      BY <1>5, <2>2 DEF DoExit, JoinedBack, e
    <3>5. \A p \in Settled :
             /\ cptr'[p] = IF p = t THEN NoTask ELSE IF p = Init1 THEN cptr[t] ELSE cptr[p]
             /\ ysptr'[p] = IF p = cptr[Init1] THEN e ELSE ysptr[p]
             /\ osptr'[p] = IF p = e THEN cptr[Init1] ELSE osptr[p]
      BY <1>1, <1>4, <3>3, <3>4 DEF TypeOK, Link
    <3>6. GivenToInit(t, e)  BY <1>1, <1>4, <1>7, <3>1, <3>5 DEF GivenToInit
    <3>7. pptr' \in Link /\ cptr' \in Link /\ ysptr' \in Link /\ osptr' \in Link
      BY <1>6, <3>3, <3>4 DEF TypeOK, Link
    <3>8. QED  BY <3>6, <3>7, TreeJoins
  <2>3. QED  BY <2>1, <2>2
<1>9. state'[Init1] = state[Init1]  BY <1>1, <1>3 DEF ExitSignals, TypeOK
<1>10. TypeOK'  BY <1>2, <1>3, <1>8, <1>9 DEF TypeOK
<1>11. StateFits'  BY <1>1, <1>2, <1>3 DEF StateFits, ExitSignals
<1>12. InitIsSafe'  BY <1>2, <1>3 DEF InitIsSafe, ExitSignals, TypeOK
<1>13. NewbornFits'  BY <1>2 DEF NewbornFits
<1>14. \A p \in Task : p # t /\ state'[p] = "zombie" => state[p] = "zombie"
  BY <1>3 DEF ExitSignals
<1>15. ZombiesAreBare'
  <2>1. ASSUME NEW u \in task, state'[u] = "zombie" PROVE Children(u)' = {}
    <3>1. u \in Task  BY DEF TypeOK
    <3>2. CASE u = t  BY <1>8, <3>2
    <3>3. CASE u # t
      <4>1. state[u] = "zombie" /\ u # Init1  BY <1>14, <2>1, <3>1, <3>3 DEF TypeOK
      <4>2. QED  BY <1>8, <3>3, <4>1 DEF ZombiesAreBare
    <3>4. QED  BY <3>2, <3>3
  <2>2. QED  BY <1>2, <2>1 DEF ZombiesAreBare
<1>16. WaitersStay
  <2>1. ASSUME NEW u \in task', at'[u] = "asleep", state'[u] = "interruptible",
               "CHLD" \notin signal'[u]
        PROVE  StillTold(u) /\ NoNewZombie(u)
    <3>1. u \in task /\ u \in Task /\ u # t /\ at[u] = "asleep"
      BY <1>1, <1>2, <2>1 DEF TypeOK
    <3>2. state[u] = "interruptible"  BY <1>3, <2>1, <3>1 DEF ExitSignals
    <3>3. "CHLD" \notin signal[u] /\ u \notin Told(t)  BY <1>3, <2>1, <3>1, <3>2 DEF ExitSignals
    <3>4. ASSUME NEW c \in Children(u)', state'[c] = "zombie"
          PROVE  c \in Children(u) /\ state[c] = "zombie"
      <4>1. c \in Settled /\ c \in Task  BY <1>4 DEF Children
      <4>2. c # t
        <5>1. c = t => pptr'[t] = u  BY DEF Children
        <5>2. pptr'[t] = pptr[t]
          BY <1>1, <1>7 DEF FamilyFits, Linked
        <5>3. pptr[t] \in Told(t)  BY DEF Told
        <5>4. QED  BY <3>3, <5>1, <5>2, <5>3
      <4>3. state[c] = "zombie"  BY <1>14, <3>4, <4>1, <4>2
      <4>4. c \in Children(u)
        <5>1. CASE u # Init1  BY <1>8, <3>1, <5>1
        <5>2. CASE u = Init1
          <6>1. c \notin Children(t)  BY <1>5, <3>3, <4>3, <5>2 DEF Told
          <6>2. QED  BY <1>8, <5>2, <6>1
        <5>3. QED  BY <5>1, <5>2
      <4>5. QED  BY <4>3, <4>4
    <3>5. NoNewZombie(u)  BY <1>2, <3>4 DEF NoNewZombie
    <3>6. QED  BY <1>2, <3>1, <3>2, <3>3, <3>5 DEF StillTold
  <2>2. QED  BY <2>1 DEF WaitersStay
<1>17. WaiterIsTold'  BY <1>8, <1>10, <1>16, WaitersKept
<1>18. QED  BY <1>8, <1>10, <1>11, <1>12, <1>13, <1>15, <1>17

LEMMA ReapStep ==
  ASSUME IInv, NEW t \in Task, Reap(t)
  PROVE  IInv'
PROOF
<1> USE DEF IInv
<1>1. t \in task /\ state[t] = "running" /\ at[t] = "wait" /\ t \in Settled
  BY DEF Reap, Runs, Settled
<1>2. PICK c \in Zombies(t) :
        /\ Freed(c)
        /\ ysptr' = [Unlinked(c) EXCEPT ![c] = NoTask]
        /\ osptr' = [p \in Task |-> IF p = c THEN NoTask ELSE IF p = ysptr[c] THEN osptr[c] ELSE osptr[p]]
        /\ cptr' = Youngest(c)
        /\ at' = [at EXCEPT ![t] = "user", ![c] = "user"]
  BY DEF Reap
<1>3. c \in Children(t) /\ c \in Settled /\ c \in task /\ c \in Task /\ state[c] = "zombie" /\ pptr[c] = t
  <2>1. c \in Kids(t) /\ state[c] = "zombie"  BY DEF Zombies, Wanted
  <2>2. c \in Children(t)  BY <1>1, <2>1, KidsAreChildren
  <2>3. QED  BY <2>1, <2>2 DEF Children, Settled, TypeOK
<1>4. at[c] = "exit" /\ c # t /\ c # Init1 /\ c # NoTask
  BY <1>1, <1>3 DEF StateFits, TypeOK, Locations
<1>5. Children(c) = {}  BY <1>3 DEF ZombiesAreBare
<1>6. /\ want' = [want EXCEPT ![t] = AnyChild] /\ newborn' = newborn
      /\ kills' = kills /\ changes' = changes
  BY DEF Reap, Returns, counts
<1>7. Linked(c)  BY <1>3 DEF FamilyFits
<1>8. \A p \in Task :
        /\ p # c => pptr'[p] = pptr[p]
        /\ p # c => cptr'[p] = IF p = t /\ ysptr[c] = NoTask THEN osptr[c] ELSE cptr[p]
        /\ p # c => ysptr'[p] = IF p = osptr[c] THEN ysptr[c] ELSE ysptr[p]
        /\ p # c => osptr'[p] = IF p = ysptr[c] THEN osptr[c] ELSE osptr[p]
  <2>1. osptr[c] = NoTask \/ osptr[c] \in Task  BY <1>3 DEF TypeOK, Link
  <2>2. \A p \in Task : p # c => pptr'[p] = pptr[p]  BY <1>2, <1>3 DEF Freed, TypeOK, Link
  <2>3. \A p \in Task : p # c => cptr'[p] = IF p = t /\ ysptr[c] = NoTask THEN osptr[c] ELSE cptr[p]
    BY <1>1, <1>2, <1>3 DEF Youngest, TypeOK, Link
  <2>4. \A p \in Task : p # c => ysptr'[p] = IF p = osptr[c] THEN ysptr[c] ELSE ysptr[p]
    BY <1>2, <1>3, <2>1 DEF Unlinked, TypeOK, Link
  <2>5. \A p \in Task : p # c => osptr'[p] = IF p = ysptr[c] THEN osptr[c] ELSE osptr[p]
    BY <1>2
  <2>6. QED  BY <2>2, <2>3, <2>4, <2>5
<1>9. TypeOK'
  <2>1. pptr' \in Link /\ cptr' \in Link /\ ysptr' \in Link /\ osptr' \in Link
    <3>1. osptr[c] \in Task \cup {NoTask} /\ ysptr[c] \in Task \cup {NoTask}
      BY <1>3 DEF TypeOK, Link
    <3>2. pptr' \in Link  BY <1>2, <1>3 DEF Freed, TypeOK, Link
    <3>3. cptr' \in Link  BY <1>2, <1>3, <3>1 DEF Youngest, TypeOK, Link
    <3>4. ysptr' \in Link  BY <1>2, <1>3, <3>1 DEF Unlinked, TypeOK, Link
    <3>5. osptr' \in Link  BY <1>2, <3>1 DEF TypeOK, Link
    <3>6. QED  BY <3>2, <3>3, <3>4, <3>5
  <2>2. at' \in [Task -> Locations] /\ pgrp' \in Link /\ session' \in Link
    BY <1>2, <1>3 DEF Freed, TypeOK, Locations, Link
  <2>3. /\ state' \in [Task -> {"running", "interruptible", "uninterruptible", "stopped", "zombie"}]
        /\ state'[Init1] \in {"running", "interruptible"}
        /\ signal' \in [Task -> SUBSET Signals] /\ leader' \in [Task -> BOOLEAN]
        /\ exit_code' \in [Task -> {"none", "STOP", Exited}]
    BY <1>2, <1>3, <1>4 DEF Freed, TypeOK
  <2>4. want' \in [Task -> WaitCalls \cup {AnyChild}]  BY <1>6 DEF TypeOK
  <2>5. task' \subseteq Task /\ Init1 \in task'  BY <1>2, <1>4 DEF Freed, TypeOK
  <2>6. QED  BY <1>6, <2>1, <2>2, <2>3, <2>4, <2>5 DEF TypeOK
<1>10. \A p \in Task : /\ state'[p] = IF p = c THEN "running" ELSE state[p]
                       /\ at'[p] = IF p \in {t, c} THEN "user" ELSE at[p]
                       /\ pgrp'[p] = IF p = c THEN NoTask ELSE pgrp[p]
                       /\ signal'[p] = IF p = c THEN {} ELSE signal[p]
  BY <1>1, <1>2, <1>3 DEF Freed, TypeOK, Link
<1>11. task' = task \ {c}  BY <1>2 DEF Freed
<1>12. StateFits'  BY <1>1, <1>10 DEF StateFits
<1>13. InitIsSafe'  BY <1>4, <1>10 DEF InitIsSafe, TypeOK
<1>14. NewbornFits'
  <2>1. \A u \in Task : at'[u] = "fork" => at[u] = "fork" /\ newborn'[u] = newborn[u]
    BY <1>6, <1>10
  <2>2. \A u \in Task : at[u] = "fork" =>
           newborn[u] \in task /\ at[newborn[u]] = "new" /\ newborn[u] # c /\ newborn[u] # t
    BY <1>1, <1>4 DEF NewbornFits
  <2>3. \A u \in Task : at[u] = "fork" => at'[newborn[u]] = "new"
    BY <1>10, <2>2 DEF TypeOK
  <2>4. \A d \in Task \ task' : at'[d] = "user"  BY <1>10, <1>11 DEF NewbornFits
  <2>5. \A u, v \in Task : at'[u] = "fork" /\ at'[v] = "fork" /\ newborn'[u] = newborn'[v] => u = v
    BY <2>1 DEF NewbornFits
  <2>6. QED  BY <1>11, <2>1, <2>2, <2>3, <2>4, <2>5 DEF NewbornFits
<1>15. CutOut(t, c)
  <2>1. Settled \subseteq Task  BY DEF Settled, TypeOK
  <2>2. Settled' = Settled \ {c}
    BY <1>1, <1>4, <1>10, <1>11, <2>1 DEF Settled, TypeOK
  <2>3. QED  BY <1>1, <1>3, <1>5, <1>8, <2>1, <2>2 DEF CutOut
<1>16. FamilyFits' /\ \A u : u # c => Children(u)' = Children(u) \ {c}
  BY <1>15, TreeShrinks, InitIsSettled
<1>17. ZombiesAreBare'
  <2>1. ASSUME NEW u \in task', state'[u] = "zombie" PROVE Children(u)' = {}
    <3>1. u \in task /\ u \in Task /\ u # c /\ state[u] = "zombie"
      BY <1>10, <1>11, <2>1 DEF TypeOK
    <3>2. QED  BY <1>16, <3>1 DEF ZombiesAreBare
  <2>2. QED  BY <2>1 DEF ZombiesAreBare
<1>18. WaitersStay
  <2>1. ASSUME NEW u \in task', at'[u] = "asleep", state'[u] = "interruptible"
        PROVE  StillTold(u) /\ NoNewZombie(u)
    <3>1. u \in task /\ u \in Task /\ u \notin {t, c} /\ at[u] = "asleep" /\ state[u] = "interruptible"
      BY <1>10, <1>11, <2>1 DEF TypeOK
    <3>2. Children(u)' = Children(u) \ {c} /\ Children(u) \subseteq Task
      BY <1>16, <3>1 DEF Children, Settled, TypeOK
    <3>3. NoNewZombie(u)  BY <1>10, <3>2 DEF NoNewZombie
    <3>4. want'[u] = want[u]  BY <1>6, <3>1 DEF TypeOK
    <3>5. QED  BY <1>10, <3>1, <3>3, <3>4 DEF StillTold
  <2>2. QED  BY <2>1 DEF WaitersStay
<1>19. WaiterIsTold'  BY <1>9, <1>16, <1>18, WaitersKept
<1>20. QED  BY <1>9, <1>12, <1>13, <1>14, <1>16, <1>17, <1>19

(***************************************************************************)
(* The theorems.                                                           *)
(***************************************************************************)
LEMMA InitFits == Init => IInv
PROOF
<1> SUFFICES ASSUME Init PROVE IInv  OBVIOUS
<1> USE DEF Init, Blank
<1>1. TypeOK  BY DEF TypeOK, Link, Locations, AnyChild, Signals
<1>2. StateFits /\ InitIsSafe /\ NewbornFits  BY DEF StateFits, InitIsSafe, NewbornFits
<1>3. Settled = {Init1} /\ \A t \in Task : Children(t) = {}
  <2>1. Settled = {Init1}  BY DEF Settled
  <2>2. QED  BY <2>1 DEF Children
<1>4. ASSUME NEW t \in Settled PROVE Linked(t) /\ PassesAll(t) /\ HasEldest(t)
  <2>1. t = Init1 /\ t \in Task  BY <1>3
  <2>2. pptr[t] = NoTask /\ cptr[t] = NoTask /\ ysptr[t] = NoTask /\ osptr[t] = NoTask  BY <2>1
  <2>3. Linked(t)  BY <2>1, <2>2 DEF Linked, InTree
  <2>4. QED  BY <1>3, <2>3 DEF PassesAll, HasEldest
<1>5. Rooted  BY <1>3 DEF Rooted
<1>6. ZombiesAreBare /\ WaiterIsTold  BY DEF ZombiesAreBare, WaiterIsTold
<1>7. QED  BY <1>1, <1>2, <1>4, <1>5, <1>6 DEF IInv, FamilyFits

LEMMA NextFits == IInv /\ [Next]_vars => IInv'
PROOF
<1> SUFFICES ASSUME IInv, [Next]_vars PROVE IInv'  OBVIOUS
<1>1. CASE UNCHANGED vars
  <2>1. TypeOK'  BY <1>1 DEF IInv, TypeOK, vars, links, groups, counts
  <2>2. StateFits' /\ InitIsSafe' /\ NewbornFits'
    BY <1>1 DEF IInv, StateFits, InitIsSafe, NewbornFits, vars, links, groups, counts
  <2>3. Light /\ GroupsStay /\ \A u \in task : at'[u] = "asleep" /\ state'[u] = "interruptible" => StillTold(u)
    BY <1>1 DEF Light, GroupsStay, StillTold, vars, links, groups, counts
  <2>4. QED  BY <2>1, <2>2, <2>3, LightStep
<1>2. CASE Next
  <2>1. PICK t \in Task :
          \/ \E c \in Task : Fork(t, c)
          \/ Forked(t) \/ ForkFails(t)
          \/ \E p \in task, s \in {"KILL", "STOP"} : Kill(t, {p}, s)
          \/ \E g \in Task, s \in {"STOP", "CONT"} : Group(g) # {} /\ Kill(t, Group(g), s)
          \/ DoSignal(t) \/ SignalSeen(t)
          \/ \E p, g \in Task : SetPgid(t, p, g)
          \/ SetSid(t)
          \/ Exit(t) \/ DoExit(t)
          \/ \E w \in IF t = Init1 THEN {AnyChild} ELSE WaitCalls : Wait(t, w)
          \/ Reap(t) \/ ReportStop(t) \/ WaitMore(t) \/ Woken(t)
    BY <1>2 DEF Next
  <2>2. CASE \E c \in Task : Fork(t, c)  BY <2>2, ForkStep
  <2>3. CASE Forked(t)  BY <2>3, ForkedStep
  <2>4. CASE ForkFails(t)  BY <2>4, ForkFailsStep
  <2>5. CASE \E p \in task, s \in {"KILL", "STOP"} : Kill(t, {p}, s)
    <3>1. PICK p \in task, s \in {"KILL", "STOP"} : Kill(t, {p}, s)  BY <2>5
    <3>2. {p} \in SUBSET task /\ s \in {"KILL", "STOP", "CONT"}  OBVIOUS
    <3>3. QED  BY <3>1, <3>2, KillStep
  <2>6. CASE \E g \in Task, s \in {"STOP", "CONT"} : Group(g) # {} /\ Kill(t, Group(g), s)
    <3>1. PICK g \in Task, s \in {"STOP", "CONT"} : Kill(t, Group(g), s)  BY <2>6
    <3>2. Group(g) \in SUBSET task /\ s \in {"KILL", "STOP", "CONT"}  BY DEF Group
    <3>3. QED  BY <3>1, <3>2, KillStep
  <2>7. CASE DoSignal(t)  BY <2>7, DoSignalStep
  <2>8. CASE SignalSeen(t)  BY <2>8, SignalSeenStep
  <2>9. CASE \E p, g \in Task : SetPgid(t, p, g)  BY <2>9, SetPgidStep
  <2>10. CASE SetSid(t)  BY <2>10, SetSidStep
  <2>11. CASE Exit(t)  BY <2>11, ExitStep
  <2>12. CASE DoExit(t)  BY <2>12, DoExitStep
  <2>13. CASE \E w \in IF t = Init1 THEN {AnyChild} ELSE WaitCalls : Wait(t, w)
    <3>1. PICK w \in WaitCalls \cup {AnyChild} : Wait(t, w)  BY <2>13
    <3>2. QED  BY <3>1, WaitStep
  <2>14. CASE Reap(t)  BY <2>14, ReapStep
  <2>15. CASE ReportStop(t)  BY <2>15, ReportStopStep
  <2>16. CASE WaitMore(t)  BY <2>16, WaitMoreStep
  <2>17. CASE Woken(t)  BY <2>17, WokenStep
  <2>18. QED
    BY <2>1, <2>2, <2>3, <2>4, <2>5, <2>6, <2>7, <2>8, <2>9, <2>10, <2>11, <2>12, <2>13,
       <2>14, <2>15, <2>16, <2>17
<1>3. QED  BY <1>1, <1>2

LEMMA AlwaysFits == Spec => []IInv
PROOF BY InitFits, NextFits, PTL DEF Spec

LEMMA FitsFamily == IInv => FamilyExact
PROOF
<1> SUFFICES ASSUME IInv PROVE FamilyExact  OBVIOUS
<1> USE DEF IInv
<1>1. ASSUME NEW t \in Settled PROVE Audited(t)
  <2>1. Linked(t)  BY DEF FamilyFits
  <2>2. \A p : InTree(p) => ToTask(p)  BY DEF InTree, ToTask, Settled
  <2>3. QED  BY <2>1, <2>2 DEF Linked, Audited
<1>2. ASSUME NEW t \in Settled PROVE Kids(t) = {c \in Settled : pptr[c] = t}
  BY KidsAreChildren DEF Children
<1>3. FamilyTree  BY <1>1, <1>2 DEF FamilyTree
<1>4. InitHasChildren
  <2>1. ASSUME NEW t \in task, Runs(t), at[t] = "exit" PROVE cptr[Init1] # NoTask
    <3>1. t \in Settled /\ t # Init1  BY <2>1 DEF Settled, InitIsSafe
    <3>2. QED  BY <3>1, InitHasChild, InitIsSettled
  <2>2. QED  BY <2>1 DEF InitHasChildren
<1>5. QED  BY <1>3, <1>4 DEF FamilyExact

(* Whatever forks, exits and waits are under way, the links of the tasks that fork has
   linked in are those of one tree: siblings are linked both ways, each task finds
   all its children from p_cptr, and init has a child whenever do_exit writes through
   init's p_cptr (fork, do_exit and release of the code). *)
THEOREM FamilyStaysExact == Spec => []FamilyExact
PROOF BY AlwaysFits, FitsFamily, PTL

(* A parent that sleeps in waitpid, unless for its own group, while a child that it
   waits for is a zombie has its SIGCHLD pending and will be woken (do_exit's
   send_sig to the parent, and to init for the children that it inherits). *)
THEOREM ParentsAreTold == Spec => []WaiterIsTold
PROOF
<1>1. IInv => WaiterIsTold  BY DEF IInv
<1>2. QED  BY <1>1, AlwaysFits, PTL

(***************************************************************************)
(* Orphaned groups.                                                        *)
(***************************************************************************)
ExitOrphans ==
  \A p \in task :
    /\ state[p] = "stopped" /\ pgrp[p] # NoTask
    /\ ~IsOrphaned(pgrp[p], state, pptr, FALSE) /\ IsOrphaned(pgrp[p], state', pptr', TRUE)
    => state'[p] = "running" /\ {"HUP", "CONT"} \subseteq signal'[p]

(* The exit that cuts off a group's last link hangs the group up: the link was our own
   father, or us as the father of a member. *)
LEMMA CutOffIsHungUp ==
  ASSUME TypeOK, NEW t \in task, state[t] = "running", NEW stale \in BOOLEAN, NEW g \in Task,
         NEW st \in [Task -> {"running", "interruptible", "uninterruptible", "stopped", "zombie"}],
         \A p \in Task : st[p] = "zombie" <=> p = t \/ state[p] = "zombie",
         \A p \in Kids(t) : p \in Task /\ pptr[p] = t,
         HasStoppedJobs(g), ~IsOrphaned(g, state, pptr, FALSE),
         IsOrphaned(g, st, Inherited(t), TRUE)
  PROVE  Group(g) \subseteq HungUp(t, stale)
PROOF
<1> DEFINE sz == [state EXCEPT ![t] = "zombie"]
<1>1. PICK q \in Group(g) : Connects(q, state, pptr, FALSE)  BY DEF IsOrphaned
<1>2. q \in task /\ q \in Task /\ pgrp[q] = g /\ g # NoTask  BY DEF Group, TypeOK
<1>3. /\ state[q] # "zombie" /\ pptr[q] \notin {Init1, NoTask} /\ pptr[q] \in task
      /\ pgrp[pptr[q]] # g /\ session[pptr[q]] = session[q]
  BY <1>1, <1>2 DEF Connects
<1>4. \A p \in Group(g) : p \in task /\ p \in Task /\ pgrp[p] = g  BY DEF Group, TypeOK
<1>5. \A p \in Task : sz[p] = "zombie" <=> st[p] = "zombie"  BY DEF TypeOK
<1>6. \A p \in Group(g) : ~Connects(p, st, Inherited(t), TRUE)  BY DEF IsOrphaned
<1>7. \A p \in Task : Inherited(t)[p] = IF p \in Kids(t) THEN Init1 ELSE pptr[p]  BY DEF Inherited
<1>8. CASE q = t
  <2>1. ASSUME NEW p \in Group(g) PROVE ~Connects(p, sz, pptr, stale)
    <3>1. CASE p \in Kids(t)
      <4>1. pptr[p] = t /\ pgrp[p] = pgrp[t]  BY <3>1, <1>2, <1>4, <1>8
      <4>2. QED  BY <4>1 DEF Connects
    <3>2. CASE p \notin Kids(t)
      BY <3>2, <1>4, <1>5, <1>6, <1>7 DEF Connects
    <3>3. QED  BY <3>1, <3>2
  <2>2. CaseI(t, sz, stale)
    BY <1>2, <1>3, <1>8, <2>1 DEF CaseI, IsOrphaned
  <2>3. QED  BY <2>2, <1>2, <1>8 DEF HungUp
<1>9. CASE q # t
  <2>1. q \in Kids(t)
    <3>1. st[q] # "zombie"  BY <1>2, <1>3, <1>9
    <3>2. QED  BY <3>1, <1>2, <1>3, <1>6, <1>7 DEF Connects
  <2>2. pptr[q] = t  BY <2>1
  <2>3. ASSUME NEW p \in Group(g) PROVE ~Connects(p, sz, Inherited(t), stale)
    BY <1>4, <1>5, <1>6 DEF Connects
  <2>4. CaseII(t, q, sz, Inherited(t), stale)
    BY <1>2, <1>3, <2>2, <2>3 DEF CaseII, IsOrphaned
  <2>5. QED  BY <2>1, <2>4, <1>2 DEF HungUp
<1>10. QED  BY <1>8, <1>9

LEMMA ExitHangsUp ==
  ASSUME IInv, NEW t \in Task, DoExit(t)
  PROVE  ExitOrphans
PROOF
<1> USE DEF IInv
<1>1. t \in task /\ state[t] = "running" /\ t \in Settled
  BY DEF DoExit, Runs, StateFits, Settled
<1>2. \A p \in Kids(t) : p \in Task /\ pptr[p] = t
  BY <1>1, KidsAreChildren DEF Children, Settled, TypeOK
<1>3. SUFFICES ASSUME NEW p \in task, state[p] = "stopped", pgrp[p] # NoTask,
                      ~IsOrphaned(pgrp[p], state, pptr, FALSE),
                      IsOrphaned(pgrp[p], state', pptr', TRUE)
               PROVE  state'[p] = "running" /\ {"HUP", "CONT"} \subseteq signal'[p]
  BY DEF ExitOrphans
<1> DEFINE g == pgrp[p]
           States == {"running", "interruptible", "uninterruptible", "stopped", "zombie"}
           hung(stale) == HungUp(t, stale)
           st(stale) == [q \in Task |-> IF q = t THEN "zombie"
                                        ELSE IF q \in hung(stale) THEN StateAfter("CONT", q) ELSE state[q]]
           sg(stale) == [q \in Task |->
                       IF q = t \/ state[q] = "zombie" THEN {}
                       ELSE (IF q \in hung(stale) THEN SignalAfter("CONT", q) \cup {"HUP"} ELSE signal[q])
                               \cup (IF q \in Told(t) THEN {"CHLD"} ELSE {})]
<1>4. PICK stale \in BOOLEAN : state' = st(stale) /\ signal' = sg(stale)  BY DEF DoExit
<1>5. pptr' = Inherited(t)  BY DEF DoExit
<1>6. p \in Task /\ g \in Task /\ p \in Group(g) /\ p # t
  BY <1>1, <1>3 DEF TypeOK, Link, Group
<1>7. HasStoppedJobs(g)  BY <1>3, <1>6 DEF HasStoppedJobs
<1> HIDE DEF hung
<1>8. /\ state' \in [Task -> States]
      /\ \A q \in Task : state'[q] = "zombie" <=> q = t \/ state[q] = "zombie"
  <2>1. \A q \in Task : state[q] \in States  BY DEF TypeOK
  <2>2. \A q \in Task : StateAfter("CONT", q) = IF state[q] = "stopped" THEN "running" ELSE state[q]
    BY DEF StateAfter, Resumes
  <2>3. \A q \in Task : st(stale)[q] \in States /\ (st(stale)[q] = "zombie" <=> q = t \/ state[q] = "zombie")
    BY <2>1, <2>2
  <2>4. QED  BY <1>4, <2>3
<1>9. Group(g) \subseteq hung(stale)
  BY <1>1, <1>2, <1>3, <1>5, <1>6, <1>7, <1>8, CutOffIsHungUp DEF hung
<1>10. p \in hung(stale)  BY <1>6, <1>9
<1>11. StateAfter("CONT", p) = "running" /\ "CONT" \in SignalAfter("CONT", p)
  BY <1>3 DEF StateAfter, SignalAfter, Resumes
<1>12. QED  BY <1>3, <1>4, <1>6, <1>10, <1>11

(* No other step makes a zombie. *)
LEMMA OnlyExitMakesZombies ==
  ASSUME IInv, [Next]_vars, \A t \in Task : ~DoExit(t),
         NEW z \in task, state[z] # "zombie"
  PROVE  state'[z] # "zombie"
PROOF
<1>1. z \in Task /\ TypeOK  BY DEF IInv, TypeOK
<1>2. CASE UNCHANGED vars  BY <1>2 DEF vars
<1>3. CASE Next
  <2>1. PICK t \in Task :
          \/ \E c \in Task : Fork(t, c)
          \/ Forked(t) \/ ForkFails(t)
          \/ \E p \in task, s \in {"KILL", "STOP"} : Kill(t, {p}, s)
          \/ \E g \in Task, s \in {"STOP", "CONT"} : Group(g) # {} /\ Kill(t, Group(g), s)
          \/ DoSignal(t) \/ SignalSeen(t)
          \/ \E p, g \in Task : SetPgid(t, p, g)
          \/ SetSid(t)
          \/ Exit(t)
          \/ \E w \in IF t = Init1 THEN {AnyChild} ELSE WaitCalls : Wait(t, w)
          \/ Reap(t) \/ ReportStop(t) \/ WaitMore(t) \/ Woken(t)
    BY <1>3 DEF Next
  <2>2. CASE \E c \in Task : Fork(t, c)  BY <1>1, <2>2 DEF Fork, TypeOK
  <2>3. CASE Forked(t)  BY <1>1, <2>3 DEF Forked, TypeOK
  <2>4. CASE ForkFails(t)  BY <1>1, <2>4 DEF ForkFails, Freed, TypeOK
  <2>5. CASE \E p \in task, s \in {"KILL", "STOP"} : Kill(t, {p}, s)
    BY <1>1, <2>5 DEF Kill, SendSig, StateAfter
  <2>6. CASE \E g \in Task, s \in {"STOP", "CONT"} : Group(g) # {} /\ Kill(t, Group(g), s)
    BY <1>1, <2>6 DEF Kill, SendSig, StateAfter
  <2>7. CASE DoSignal(t)  BY <1>1, <2>7 DEF DoSignal, TypeOK
  <2>8. CASE SignalSeen(t)  BY <1>1, <2>8 DEF SignalSeen, TypeOK
  <2>9. CASE \/ \E p, g \in Task : SetPgid(t, p, g)
             \/ SetSid(t) \/ Exit(t)
             \/ \E w \in IF t = Init1 THEN {AnyChild} ELSE WaitCalls : Wait(t, w)
    BY <2>9 DEF SetPgid, SetSid, Exit, Wait
  <2>10. CASE Reap(t)  BY <1>1, <2>10 DEF Reap, Freed, TypeOK
  <2>11. CASE ReportStop(t) \/ Woken(t)  BY <2>11 DEF ReportStop, Woken
  <2>12. CASE WaitMore(t)  BY <1>1, <2>12 DEF WaitMore, TypeOK
  <2>13. QED
    BY <2>1, <2>2, <2>3, <2>4, <2>5, <2>6, <2>7, <2>8, <2>9, <2>10, <2>11, <2>12
<1>4. QED  BY <1>2, <1>3

(* A group that an exit cuts off from the rest of its session and that has stopped
   jobs is hung up and continued by it (do_exit's cases i and ii). *)
THEOREM OrphansAreWoken == Spec => OrphansWoken
PROOF
<1>1. IInv /\ [Next]_vars =>
        [(\E t \in task : state[t] # "zombie" /\ state'[t] = "zombie") => ExitOrphans]_vars
  <2> SUFFICES ASSUME IInv, [Next]_vars, NEW t \in task, state[t] # "zombie", state'[t] = "zombie"
               PROVE  ExitOrphans
    OBVIOUS
  <2>1. PICK u \in Task : DoExit(u)  BY OnlyExitMakesZombies
  <2>2. QED  BY <2>1, ExitHangsUp
<1>2. QED  BY <1>1, AlwaysFits, PTL DEF Spec, OrphansWoken, ExitOrphans

(***************************************************************************)
(* The timers that processes and drivers set.  The ticks until a timer     *)
(* ends are a sum over the list; that Ends is that sum is shown by the     *)
(* least number for which it would not be.                                 *)
(***************************************************************************)
LEMMA LeastOne ==
  ASSUME NEW S \in SUBSET Nat, S # {}
  PROVE  \E i \in S : \A j \in S : i <= j
<1> DEFINE R == {ij \in Nat \X Nat : ij[1] < ij[2]}
<1>1. IsWellFoundedOn(R, Nat)
  BY NatLessThanWellFounded DEF OpToRel
<1>2. PICK i \in S : \A j \in S : <<j, i>> \notin R
  <2> HIDE DEF R
  <2> QED  BY <1>1, WFMin
<1>3. ASSUME NEW j \in S PROVE i <= j
  <2>1. i \in Nat /\ j \in Nat /\ <<j, i>> \in Nat \X Nat
    OBVIOUS
  <2>2. ~(j < i)
    BY <1>2, <2>1
  <2>3. QED  BY <2>1, <2>2
<1>4. QED  BY <1>3

(* s[k] is the sum of the first k entries. *)
Sums(list, s, n) == s[0] = 0 /\ \A k \in 1..n : s[k] = s[k - 1] + list[k].left

(* Such a function exists: there is no least length for which it does not. *)
LEMMA SumsExist ==
  ASSUME NEW list \in Seq(TM!Entry)
  PROVE  \E s \in [0..Len(list) -> Nat] : Sums(list, s, Len(list))
<1>1. Len(list) \in Nat /\ \A k \in 1..Len(list) : list[k].left \in Nat
  <2>1. \A k \in 1..Len(list) : list[k] \in TM!Entry
    OBVIOUS
  <2>2. QED  BY <2>1 DEF TM!Entry
<1>2. PICK S : S = {m \in 0..Len(list) : ~\E s \in [0..m -> Nat] : Sums(list, s, m)}
  OBVIOUS
<1>3. S = {}
  <2>1. SUFFICES ASSUME S # {} PROVE FALSE
    OBVIOUS
  <2>2. S \in SUBSET Nat
    BY <1>1, <1>2
  <2>3. PICK m \in S : \A j \in S : m <= j
    BY <2>1, <2>2, LeastOne
  <2>4. m \in 0..Len(list) /\ m \in Nat
    BY <1>1, <1>2, <2>3
  <2>5. CASE m = 0
    <3>1. PICK s : s = [k \in 0..m |-> 0]
      OBVIOUS
    <3>2. s \in [0..m -> Nat] /\ s[0] = 0
      BY <2>5, <3>1
    <3>3. Sums(list, s, m)
      BY <2>5, <3>2 DEF Sums
    <3>4. QED  BY <1>2, <2>3, <3>2, <3>3
  <2>6. CASE m > 0
    <3>1. m - 1 \in 0..Len(list) /\ m - 1 \notin S
      BY <1>1, <2>3, <2>4, <2>6
    <3>2. PICK t \in [0..(m - 1) -> Nat] : Sums(list, t, m - 1)
      BY <1>2, <3>1
    <3>3. PICK s : s = [k \in 0..m |-> IF k = m THEN t[m - 1] + list[m].left ELSE t[k]]
      OBVIOUS
    <3>4. m \in 1..Len(list) /\ m - 1 \in 0..(m - 1) /\ t[m - 1] \in Nat /\ list[m].left \in Nat
      BY <1>1, <2>4, <2>6, <3>2
    <3>5. s \in [0..m -> Nat]
      BY <2>4, <3>2, <3>3, <3>4
    <3>6. s[0] = 0
      BY <2>4, <2>6, <3>2, <3>3 DEF Sums
    <3>7. ASSUME NEW k \in 1..m PROVE s[k] = s[k - 1] + list[k].left
      <4>1. CASE k = m
        BY <2>4, <2>6, <3>3, <3>4, <4>1
      <4>2. CASE k # m
        <5>1. k \in 1..(m - 1) /\ k \in 0..m /\ k - 1 \in 0..m /\ k - 1 # m
          BY <2>4, <4>2
        <5>2. s[k] = t[k] /\ s[k - 1] = t[k - 1]
          BY <3>3, <4>2, <5>1
        <5>3. QED  BY <3>2, <5>1, <5>2 DEF Sums
      <4>3. QED  BY <4>1, <4>2
    <3>8. Sums(list, s, m)
      BY <3>6, <3>7 DEF Sums
    <3>9. QED  BY <1>2, <2>3, <3>5, <3>8
  <2>7. QED  BY <2>4, <2>5, <2>6
<1>4. Len(list) \in 0..Len(list)
  BY <1>1
<1>5. QED  BY <1>2, <1>3, <1>4

LEMMA EndsAreSums ==
  ASSUME NEW list \in Seq(TM!Entry)
  PROVE  TM!Ends(list) \in [0..Len(list) -> Nat] /\ Sums(list, TM!Ends(list), Len(list))
<1>1. PICK s \in [0..Len(list) -> Nat] : Sums(list, s, Len(list))
  BY SumsExist
<1>2. Len(list) \in Nat
  OBVIOUS
<1>3. s = [k \in 0..Len(list) |-> IF k = 0 THEN 0 ELSE s[k - 1] + list[k].left]
  <2>1. PICK z : z = [k \in 0..Len(list) |-> IF k = 0 THEN 0 ELSE s[k - 1] + list[k].left]
    OBVIOUS
  <2>2. \A k \in 0..Len(list) : s[k] = z[k]
    BY <1>1, <1>2, <2>1 DEF Sums
  <2>3. QED  BY <1>1, <2>1, <2>2
<1>4. PICK e : e = TM!Ends(list)
  OBVIOUS
<1>5. e = [k \in 0..Len(list) |-> IF k = 0 THEN 0 ELSE e[k - 1] + list[k].left]
  BY <1>3, <1>4 DEF TM!Ends
<1>6. PICK S : S = {k \in 0..Len(list) : e[k] # s[k]}
  OBVIOUS
<1>7. S = {}
  <2>1. SUFFICES ASSUME S # {} PROVE FALSE
    OBVIOUS
  <2>2. S \in SUBSET Nat
    BY <1>2, <1>6
  <2>3. PICK m \in S : \A j \in S : m <= j
    BY <2>1, <2>2, LeastOne
  <2>4. m \in 0..Len(list) /\ m \in Nat /\ e[m] # s[m]
    BY <1>2, <1>6, <2>3
  <2>5. m # 0
    BY <1>1, <1>2, <1>5, <2>4 DEF Sums
  <2>6. m - 1 \in 0..Len(list) /\ m - 1 \notin S /\ m \in 1..Len(list)
    BY <1>2, <2>3, <2>4, <2>5
  <2>7. e[m - 1] = s[m - 1]
    BY <1>6, <2>6
  <2>8. e[m] = e[m - 1] + list[m].left
    BY <1>5, <2>4, <2>5
  <2>9. s[m] = s[m - 1] + list[m].left
    BY <1>1, <2>6 DEF Sums
  <2>10. QED  BY <2>4, <2>7, <2>8, <2>9
<1>8. \A k \in 0..Len(list) : e[k] = s[k]
  BY <1>6, <1>7
<1>9. e = s
  <2>1. DOMAIN e = 0..Len(list) /\ e = [k \in 0..Len(list) |-> e[k]]
    BY <1>5
  <2>2. QED  BY <1>1, <1>8, <2>1
<1>10. QED  BY <1>1, <1>4, <1>9

(* It is the only one. *)
LEMMA EndsUnique ==
  ASSUME NEW list \in Seq(TM!Entry), NEW s, Sums(list, s, Len(list))
  PROVE  \A k \in 0..Len(list) : TM!Ends(list)[k] = s[k]
<1>1. PICK e : e = TM!Ends(list) /\ Sums(list, e, Len(list))
  BY EndsAreSums
<1>2. Len(list) \in Nat
  OBVIOUS
<1>3. PICK S : S = {k \in 0..Len(list) : e[k] # s[k]}
  OBVIOUS
<1>4. S = {}
  <2>1. SUFFICES ASSUME S # {} PROVE FALSE
    OBVIOUS
  <2>2. S \in SUBSET Nat
    BY <1>2, <1>3
  <2>3. PICK m \in S : \A j \in S : m <= j
    BY <2>1, <2>2, LeastOne
  <2>4. m \in 0..Len(list) /\ m \in Nat /\ e[m] # s[m]
    BY <1>2, <1>3, <2>3
  <2>5. m # 0
    BY <1>1, <2>4 DEF Sums
  <2>6. m - 1 \in 0..Len(list) /\ m - 1 \notin S /\ m \in 1..Len(list)
    BY <1>2, <2>3, <2>4, <2>5
  <2>7. e[m - 1] = s[m - 1]
    BY <1>3, <2>6
  <2>8. e[m] = e[m - 1] + list[m].left /\ s[m] = s[m - 1] + list[m].left
    BY <1>1, <2>6 DEF Sums
  <2>9. QED  BY <2>4, <2>7, <2>8
<1>5. QED  BY <1>1, <1>3, <1>4

(* Of the numbers from 1 on, those up to some one are in a set and the next is not. *)
LEMMA LongestRun ==
  ASSUME NEW len \in Nat, NEW S
  PROVE  \E n \in 0..len : (\A i \in 1..n : i \in S) /\ (n < len => n + 1 \notin S)
<1>1. PICK T : T = {i \in 1..len : i \notin S}
  OBVIOUS
<1>2. CASE T = {}
  <2>1. len \in 0..len /\ \A i \in 1..len : i \in S
    BY <1>1, <1>2
  <2>2. QED  BY <2>1
<1>3. CASE T # {}
  <2>1. T \in SUBSET Nat
    BY <1>1
  <2>2. PICK m \in T : \A i \in T : m <= i
    BY <1>3, <2>1, LeastOne
  <2>3. m \in 1..len /\ m \notin S
    BY <1>1, <2>2
  <2>4. m - 1 \in 0..len /\ (m - 1) + 1 = m
    BY <2>3
  <2>5. ASSUME NEW i \in 1..(m - 1) PROVE i \in S
    <3>1. i \in 1..len /\ ~(m <= i)
      BY <2>3
    <3>2. QED  BY <1>1, <2>2, <3>1
  <2>6. QED  BY <2>3, <2>4, <2>5
<1>4. QED  BY <1>2, <1>3

LEMMA OneOfTheList ==
  ASSUME NEW list \in Seq(TM!Entry), NEW k \in 1..Len(list)
  PROVE  /\ list[k] \in TM!Entry /\ list[k].id \in TM!Id /\ list[k].left \in Nat
         /\ k \in 0..Len(list) /\ k - 1 \in 0..Len(list) /\ k \in Nat
         /\ TM!Ends(list)[k] \in Nat /\ TM!Ends(list)[k - 1] \in Nat
         /\ TM!Ends(list)[k] = TM!Ends(list)[k - 1] + list[k].left
<1>1. list[k] \in TM!Entry /\ Len(list) \in Nat
  OBVIOUS
<1>2. k \in 0..Len(list) /\ k - 1 \in 0..Len(list) /\ k \in Nat
  BY <1>1
<1>3. PICK e : e = TM!Ends(list)
  OBVIOUS
<1>4. e \in [0..Len(list) -> Nat] /\ Sums(list, e, Len(list))
  BY <1>3, EndsAreSums
<1>5. e[k] \in Nat /\ e[k - 1] \in Nat
  BY <1>2, <1>4
<1>6. e[k] = e[k - 1] + list[k].left
  BY <1>4 DEF Sums
<1>7. list[k].id \in TM!Id /\ list[k].left \in Nat
  BY <1>1 DEF TM!Entry
<1>8. QED  BY <1>1, <1>2, <1>3, <1>5, <1>6, <1>7

(* No entry ends before the first. *)
LEMMA FirstEndsFirst ==
  ASSUME NEW list \in Seq(TM!Entry), NEW k \in 1..Len(list)
  PROVE  TM!Ends(list)[k] >= list[1].left
<1>1. PICK S : S = {m \in 1..Len(list) : ~(TM!Ends(list)[m] >= list[1].left)}
  OBVIOUS
<1>2. S = {}
  <2>1. SUFFICES ASSUME S # {} PROVE FALSE
    OBVIOUS
  <2>2. S \in SUBSET Nat
    BY <1>1
  <2>3. PICK m \in S : \A j \in S : m <= j
    BY <2>1, <2>2, LeastOne
  <2>4. m \in 1..Len(list) /\ ~(TM!Ends(list)[m] >= list[1].left)
    BY <1>1, <2>3
  <2>5. 1 \in 1..Len(list) /\ Len(list) \in Nat
    BY <2>4
  <2>6. TM!Ends(list)[m] = TM!Ends(list)[m - 1] + list[m].left /\ TM!Ends(list)[m - 1] \in Nat /\ list[m].left \in Nat
    BY <2>4, OneOfTheList
  <2>7. list[1].left \in Nat
    BY <2>5, OneOfTheList
  <2>8. m # 1
    BY <2>4, <2>6, <2>7
  <2>9. m - 1 \in 1..Len(list) /\ ~(m <= m - 1)
    BY <2>4, <2>5, <2>8
  <2>10. TM!Ends(list)[m - 1] >= list[1].left
    BY <1>1, <2>3, <2>9
  <2>11. QED  BY <2>4, <2>6, <2>7, <2>10
<1>3. QED  BY <1>1, <1>2

-----------------------------------------------------------------------------
(* The new entry stands between two parts of the list, with ticks left. *)
LEMMA PlacedBehind ==
  ASSUME NEW list \in Seq(TM!Entry), NEW id \in TM!Id, NEW j \in Nat, j >= 1
  PROVE  \E k \in 0..Len(list) :
           /\ j - TM!Ends(list)[k] >= 1 /\ TM!Ends(list)[k] \in Nat
           /\ TM!Place(list, [id |-> id, left |-> j])
                = TM!Inserted(list, k, [id |-> id, left |-> j - TM!Ends(list)[k]])
<1>1. PICK e : e = [id |-> id, left |-> j]
  OBVIOUS
<1>2. Len(list) \in Nat /\ TM!Ends(list) \in [0..Len(list) -> Nat] /\ TM!Ends(list)[0] = 0
  BY EndsAreSums DEF Sums
<1> DEFINE passes(n) == \A i \in 1..n : list[i].left < e.left - TM!Ends(list)[i - 1]
<1> DEFINE ok(n) == passes(n) /\ (n < Len(list) => ~passes(n + 1))
<1>3. \E n \in 0..Len(list) : ok(n)
  <2>1. PICK S : S = {i \in 1..Len(list) : list[i].left < e.left - TM!Ends(list)[i - 1]}
    OBVIOUS
  <2>2. PICK n \in 0..Len(list) : (\A i \in 1..n : i \in S) /\ (n < Len(list) => n + 1 \notin S)
    BY <1>2, LongestRun
  <2>3. passes(n)
    BY <2>1, <2>2
  <2>4. ASSUME n < Len(list) PROVE ~passes(n + 1)
    <3>1. n + 1 \in 1..Len(list) /\ n + 1 \in 1..(n + 1)
      BY <1>2, <2>2, <2>4
    <3>2. QED  BY <2>1, <2>2, <2>4, <3>1
  <2>5. QED  BY <2>3, <2>4
<1>4. PICK k : k = CHOOSE n \in 0..Len(list) : ok(n)
  OBVIOUS
<1>5. k \in 0..Len(list) /\ ok(k)
  <2> HIDE DEF ok
  <2> QED  BY <1>3, <1>4
<1>6. TM!Place(list, e) = TM!Inserted(list, k, [e EXCEPT !.left = @ - TM!Ends(list)[k]])
  BY <1>4 DEF TM!Place
<1>7. [e EXCEPT !.left = @ - TM!Ends(list)[k]] = [id |-> id, left |-> j - TM!Ends(list)[k]]
  BY <1>1
<1>8. j - TM!Ends(list)[k] >= 1 /\ TM!Ends(list)[k] \in Nat
  <2>1. CASE k = 0
    BY <1>2, <2>1
  <2>2. CASE k # 0
    <3>1. k \in 1..Len(list) /\ k \in 1..k
      BY <1>2, <1>5, <2>2
    <3>2. list[k].left < j - TM!Ends(list)[k - 1]
      BY <1>1, <1>5, <3>1
    <3>3. list[k].left \in Nat /\ TM!Ends(list)[k] = TM!Ends(list)[k - 1] + list[k].left
          /\ TM!Ends(list)[k - 1] \in Nat /\ TM!Ends(list)[k] \in Nat
      BY <3>1, OneOfTheList
    <3>4. QED  BY <3>2, <3>3
  <2>3. QED  BY <2>1, <2>2
<1>9. QED  BY <1>1, <1>5, <1>6, <1>7, <1>8

(* An entry before it stays where it is, one behind it moves on by one. *)
LEMMA InsertedAt ==
  ASSUME NEW list \in Seq(TM!Entry), NEW k \in 0..Len(list), NEW e \in TM!Entry
  PROVE  /\ TM!Inserted(list, k, e) \in Seq(TM!Entry) /\ Len(TM!Inserted(list, k, e)) = Len(list) + 1
         /\ \A i \in 1..k : TM!Inserted(list, k, e)[i] = list[i]
         /\ TM!Inserted(list, k, e)[k + 1] = e
         /\ \A i \in (k + 2)..(Len(list) + 1) : TM!Inserted(list, k, e)[i] = list[i - 1]
<1>1. Len(list) \in Nat /\ k \in Nat /\ k <= Len(list)
  OBVIOUS
<1>2. PICK a : a = SubSeq(list, 1, k)
  OBVIOUS
<1>3. PICK b : b = SubSeq(list, k + 1, Len(list))
  OBVIOUS
<1>4. a \in Seq(TM!Entry) /\ Len(a) = k /\ \A i \in 1..k : a[i] = list[i]
  BY <1>1, <1>2
<1>5. b \in Seq(TM!Entry) /\ Len(b) = Len(list) - k /\ \A i \in 1..(Len(list) - k) : b[i] = list[k + i]
  BY <1>1, <1>3
<1>6. PICK c : c = a \o <<e>>
  OBVIOUS
<1>7. c \in Seq(TM!Entry) /\ Len(c) = k + 1 /\ (\A i \in 1..k : c[i] = list[i]) /\ c[k + 1] = e
  <2>1. c \in Seq(TM!Entry) /\ Len(c) = k + 1
    BY <1>1, <1>4, <1>6
  <2>2. \A i \in 1..k : c[i] = a[i]
    BY <1>1, <1>4, <1>6
  <2>3. c[k + 1] = e
    BY <1>1, <1>4, <1>6
  <2>4. QED  BY <1>4, <2>1, <2>2, <2>3
<1>8. PICK d : d = c \o b
  OBVIOUS
<1>9. d \in Seq(TM!Entry) /\ Len(d) = Len(list) + 1
  BY <1>1, <1>5, <1>7, <1>8
<1>10. \A i \in 1..(k + 1) : d[i] = c[i]
  BY <1>1, <1>5, <1>7, <1>8
<1>11. ASSUME NEW i \in (k + 2)..(Len(list) + 1) PROVE d[i] = list[i - 1]
  <2>1. i - (k + 1) \in 1..(Len(list) - k) /\ k + (i - (k + 1)) = i - 1
    BY <1>1
  <2>2. d[i] = b[i - (k + 1)]
    BY <1>1, <1>5, <1>7, <1>8, <2>1
  <2>3. QED  BY <1>5, <2>1, <2>2
<1>12. d = TM!Inserted(list, k, e)
  BY <1>2, <1>3, <1>6, <1>8 DEF TM!Inserted
<1>13. \A i \in 1..k : d[i] = list[i]
  BY <1>1, <1>7, <1>10
<1>14. d[k + 1] = e
  BY <1>1, <1>7, <1>10
<1>15. QED  BY <1>9, <1>11, <1>12, <1>13, <1>14

(* L is the list with a timer more, behind the first k. *)
Joined(list, id, j, k, L) ==
  /\ L \in Seq(TM!Entry) /\ Len(L) = Len(list) + 1
  /\ L[k + 1].id = id /\ TM!Ends(L)[k + 1] = j
  /\ \A i \in 1..k : L[i] = list[i] /\ TM!Ends(L)[i] = TM!Ends(list)[i]
  /\ \A i \in (k + 2)..Len(L) :
       /\ L[i] = list[i - 1]
       /\ TM!Ends(L)[i] >= TM!Ends(list)[i - 1] /\ TM!Ends(L)[i] <= TM!Ends(list)[i - 1] + j

(* Its timer ends as many ticks from now as it was set to, and the others as before or
   later by no more than that. *)
LEMMA EndsInserted ==
  ASSUME NEW list \in Seq(TM!Entry), NEW id \in TM!Id, NEW j \in Nat, NEW k \in 0..Len(list), NEW L,
         NEW x \in Nat, x = j - TM!Ends(list)[k], x >= 1, TM!Ends(list)[k] \in Nat,
         L = TM!Inserted(list, k, [id |-> id, left |-> x])
  PROVE  Joined(list, id, j, k, L)
<1>1. Len(list) \in Nat /\ k \in Nat /\ k <= Len(list)
  OBVIOUS
<1>3. x \in Nat /\ x >= 1 /\ x <= j
  OBVIOUS
<1>4. PICK e : e = [id |-> id, left |-> x]
  OBVIOUS
<1>5. e \in TM!Entry
  BY <1>3, <1>4 DEF TM!Entry
<1>6. L = TM!Inserted(list, k, e)
  BY <1>4
<1>7. /\ L \in Seq(TM!Entry) /\ Len(L) = Len(list) + 1
      /\ (\A i \in 1..k : L[i] = list[i]) /\ L[k + 1] = e
      /\ \A i \in (k + 2)..(Len(list) + 1) : L[i] = list[i - 1]
  <2>1. /\ TM!Inserted(list, k, e) \in Seq(TM!Entry) /\ Len(TM!Inserted(list, k, e)) = Len(list) + 1
        /\ (\A i \in 1..k : TM!Inserted(list, k, e)[i] = list[i]) /\ TM!Inserted(list, k, e)[k + 1] = e
        /\ \A i \in (k + 2)..(Len(list) + 1) : TM!Inserted(list, k, e)[i] = list[i - 1]
    BY <1>5, InsertedAt
  <2>2. QED  BY <1>6, <2>1
<1>8. PICK t : t = TM!Ends(list)
  OBVIOUS
<1>9. t \in [0..Len(list) -> Nat] /\ t[0] = 0 /\ \A i \in 1..Len(list) : t[i] = t[i - 1] + list[i].left
  BY <1>8, EndsAreSums DEF Sums
<1>10. PICK s : s = [i \in 0..(Len(list) + 1) |-> IF i <= k THEN t[i] ELSE t[i - 1] + x]
  OBVIOUS
<1>11. \A i \in 0..k : s[i] = t[i]
  BY <1>1, <1>10
<1>12. \A i \in (k + 1)..(Len(list) + 1) : s[i] = t[i - 1] + x
  BY <1>1, <1>10
<1>13. ASSUME NEW i \in 1..Len(L) PROVE s[i] = s[i - 1] + L[i].left
  <2>1. i \in 1..(Len(list) + 1)
    BY <1>7
  <2>2. CASE i <= k
    <3>1. i \in 1..k /\ i - 1 \in 0..k /\ i \in 0..k /\ i \in 1..Len(list)
      BY <1>1, <2>1, <2>2
    <3>2. s[i] = t[i] /\ s[i - 1] = t[i - 1] /\ L[i] = list[i] /\ t[i] = t[i - 1] + list[i].left
      BY <1>7, <1>9, <1>11, <3>1
    <3>3. QED  BY <3>2
  <2>3. CASE i = k + 1
    <3>1. i \in (k + 1)..(Len(list) + 1) /\ i - 1 = k /\ k \in 0..k
      BY <1>1, <2>3
    <3>2. s[i] = t[k] + x /\ s[i - 1] = t[k]
      BY <1>11, <1>12, <3>1
    <3>3. L[i].left = x
      BY <1>4, <1>7, <2>3
    <3>4. QED  BY <3>2, <3>3
  <2>4. CASE i > k + 1
    <3>1. /\ i \in (k + 1)..(Len(list) + 1) /\ i - 1 \in (k + 1)..(Len(list) + 1)
          /\ i \in (k + 2)..(Len(list) + 1) /\ i - 1 \in 1..Len(list)
      BY <1>1, <2>1, <2>4
    <3>2. s[i] = t[i - 1] + x /\ s[i - 1] = t[(i - 1) - 1] + x
      BY <1>12, <3>1
    <3>3. L[i] = list[i - 1] /\ t[i - 1] = t[(i - 1) - 1] + list[i - 1].left
      BY <1>7, <1>9, <3>1
    <3>4. t[(i - 1) - 1] \in Nat /\ list[i - 1].left \in Nat
      BY <1>8, <3>1, OneOfTheList
    <3>5. PICK p : p = i - 1
      OBVIOUS
    <3>6. s[i] = t[p] + x /\ s[p] = t[p - 1] + x /\ L[i] = list[p] /\ t[p] = t[p - 1] + list[p].left
          /\ t[p - 1] \in Nat /\ list[p].left \in Nat
      BY <3>2, <3>3, <3>4, <3>5
    <3>9. PICK u \in Nat : u = t[p - 1]
      BY <3>6
    <3>10. PICK v \in Nat : v = list[p].left
      BY <3>6
    <3>11. s[i] = (u + v) + x /\ s[p] = u + x /\ L[i].left = v
      BY <3>6, <3>9, <3>10
    <3>12. (u + v) + x = (u + x) + v
      BY <1>3
    <3>7. s[i] = s[p] + L[i].left
      BY <3>11, <3>12
    <3>8. QED  BY <3>5, <3>7
  <2>5. QED  BY <1>1, <2>1, <2>2, <2>3, <2>4
<1>14. Sums(L, s, Len(L))
  <2>1. s[0] = 0
    BY <1>1, <1>9, <1>11
  <2>2. QED  BY <1>13, <2>1 DEF Sums
<1>15. \A i \in 0..Len(L) : TM!Ends(L)[i] = s[i]
  BY <1>7, <1>14, EndsUnique
<1>16. L[k + 1].id = id /\ TM!Ends(L)[k + 1] = j
  <2>1. k + 1 \in 0..Len(L) /\ k + 1 \in (k + 1)..(Len(list) + 1) /\ (k + 1) - 1 = k
    BY <1>1, <1>7
  <2>2. TM!Ends(L)[k + 1] = t[k] + x
    BY <1>12, <1>15, <2>1
  <2>3. QED  BY <1>4, <1>7, <1>8, <2>2
<1>17. ASSUME NEW i \in 1..k PROVE L[i] = list[i] /\ TM!Ends(L)[i] = TM!Ends(list)[i]
  <2>1. i \in 0..k /\ i \in 0..Len(L)
    BY <1>1, <1>7
  <2>2. QED  BY <1>7, <1>8, <1>11, <1>15, <2>1
<1>18. ASSUME NEW i \in (k + 2)..Len(L)
       PROVE  L[i] = list[i - 1] /\ TM!Ends(L)[i] >= TM!Ends(list)[i - 1] /\ TM!Ends(L)[i] <= TM!Ends(list)[i - 1] + j
  <2>1. /\ i \in 0..Len(L) /\ i \in (k + 1)..(Len(list) + 1) /\ i - 1 \in 0..Len(list)
        /\ i \in (k + 2)..(Len(list) + 1)
    BY <1>1, <1>7
  <2>2. TM!Ends(L)[i] = t[i - 1] + x /\ t[i - 1] \in Nat
    BY <1>9, <1>12, <1>15, <2>1
  <2>3. L[i] = list[i - 1]
    BY <1>7, <2>1
  <2>4. TM!Ends(list)[i - 1] = t[i - 1]
    BY <1>8
  <2>5. TM!Ends(L)[i] >= t[i - 1] /\ TM!Ends(L)[i] <= t[i - 1] + j
    <3>1. PICK u \in Nat : u = t[i - 1]
      BY <2>2
    <3>2. u + x >= u /\ u + x <= u + j
      BY <1>3
    <3>3. QED  BY <2>2, <3>1, <3>2
  <2>6. QED  BY <2>3, <2>4, <2>5
<1>19. QED  BY <1>7, <1>16, <1>17, <1>18 DEF Joined

-----------------------------------------------------------------------------
(* A timer is set. *)
LEMMA AddTimerFits ==
  ASSUME NEW j \in TimerTicks, TM!IInv, TM!AddTimer(j)
  PROVE  TM!IInv'
<1>0. PICK list : list = tm.list
  OBVIOUS
<1>1. /\ tm \in [list : Seq(TM!Entry), nr : 0..TIME_REQUESTS, fired : SUBSET TM!Id,
                  want : [TM!Id -> Nat], age : [TM!Id -> Nat], slack : [TM!Id -> Nat]]
      /\ TM!OnTime(tm) /\ TM!Waits(tm) /\ TM!Called(tm)
  BY DEF TM!IInv
<1>2. TIME_REQUESTS \in Nat /\ j \in Nat /\ j >= 1
  BY TimerListAssumption DEF TM!TimersAssumption
<1>3. list \in Seq(TM!Entry) /\ tm.nr \in Nat /\ tm.nr < TIME_REQUESTS /\ Len(list) \in Nat
  BY <1>0, <1>1, <1>2 DEF TM!AddTimer
<1>4. PICK id : id = tm.nr + 1
  OBVIOUS
<1>5. id \in TM!Id /\ id \in Nat
  BY <1>2, <1>3, <1>4 DEF TM!Id
<1>6. PICK waiting : waiting = {list[i].id : i \in 1..Len(list)}
  OBVIOUS
<1>7. PICK slack : slack = [i \in 1..TIME_REQUESTS |-> IF i \in waiting THEN tm.slack[i] + j ELSE tm.slack[i]]
  OBVIOUS
<1>8. PICK L : L = TM!Place(list, [id |-> id, left |-> j])
  OBVIOUS
<1>9. tm' = [tm EXCEPT !.nr = id, !.list = L, !.want[id] = j, !.slack = slack]
  BY <1>0, <1>4, <1>6, <1>7, <1>8 DEF TM!AddTimer
<1>10. /\ tm'.nr = id /\ tm'.list = L /\ tm'.want = [tm.want EXCEPT ![id] = j] /\ tm'.slack = slack
       /\ tm'.fired = tm.fired /\ tm'.age = tm.age
  BY <1>1, <1>9
<1>11. tm.want \in [TM!Id -> Nat] /\ tm.age \in [TM!Id -> Nat] /\ tm.slack \in [TM!Id -> Nat] /\ tm.fired \subseteq TM!Id
  BY <1>1
<1>12. /\ slack \in [TM!Id -> Nat] /\ (\A i \in TM!Id : slack[i] >= tm.slack[i])
       /\ \A i \in waiting : i \in TM!Id => slack[i] = tm.slack[i] + j
  <2>1. \A i \in TM!Id : slack[i] = IF i \in waiting THEN tm.slack[i] + j ELSE tm.slack[i]
    BY <1>7 DEF TM!Id
  <2>2. \A i \in TM!Id : tm.slack[i] \in Nat /\ slack[i] \in Nat
    BY <1>2, <1>11, <2>1
  <2>3. slack \in [TM!Id -> Nat]
    BY <1>7, <2>2 DEF TM!Id
  <2>4. QED  BY <1>2, <2>1, <2>2, <2>3
<1>13. tm'.want \in [TM!Id -> Nat] /\ tm'.want[id] = j /\ \A i \in TM!Id : i # id => tm'.want[i] = tm.want[i]
  BY <1>2, <1>5, <1>10, <1>11
<1>14. PICK k \in 0..Len(list) :
         /\ j - TM!Ends(list)[k] >= 1 /\ TM!Ends(list)[k] \in Nat
         /\ TM!Place(list, [id |-> id, left |-> j]) = TM!Inserted(list, k, [id |-> id, left |-> j - TM!Ends(list)[k]])
  BY <1>2, <1>3, <1>5, PlacedBehind
<1>24. PICK x : x = j - TM!Ends(list)[k]
  OBVIOUS
<1>25. x \in Nat /\ x >= 1 /\ L = TM!Inserted(list, k, [id |-> id, left |-> x])
  BY <1>2, <1>8, <1>14, <1>24
<1>15. /\ L \in Seq(TM!Entry) /\ Len(L) = Len(list) + 1
       /\ L[k + 1].id = id /\ TM!Ends(L)[k + 1] = j
       /\ \A i \in 1..k : L[i] = list[i] /\ TM!Ends(L)[i] = TM!Ends(list)[i]
       /\ \A i \in (k + 2)..Len(L) :
              /\ L[i] = list[i - 1]
              /\ TM!Ends(L)[i] >= TM!Ends(list)[i - 1] /\ TM!Ends(L)[i] <= TM!Ends(list)[i - 1] + j
  <2>1. list \in Seq(TM!Entry) /\ id \in TM!Id /\ j \in Nat /\ k \in 0..Len(list) /\ x \in Nat
    BY <1>2, <1>3, <1>5, <1>14, <1>25
  <2>2. x = j - TM!Ends(list)[k] /\ x >= 1 /\ TM!Ends(list)[k] \in Nat
    BY <1>14, <1>24, <1>25
  <2>3. L = TM!Inserted(list, k, [id |-> id, left |-> x])
    BY <1>25
  <2>4. Joined(list, id, j, k, L)
    BY <2>1, <2>2, <2>3, EndsInserted
  <2>5. QED  BY <2>4 DEF Joined
<1> DEFINE from(i) == IF i <= k THEN i ELSE i - 1
(* Where the others come from. *)
<1>16. ASSUME NEW i \in 1..Len(L), i # k + 1
       PROVE  /\ from(i) \in 1..Len(list) /\ L[i] = list[from(i)]
              /\ TM!Ends(L)[i] >= TM!Ends(list)[from(i)] /\ TM!Ends(L)[i] <= TM!Ends(list)[from(i)] + j
  <2>1. CASE i <= k
    <3>1. i \in 1..k /\ i \in 1..Len(list) /\ from(i) = i
      BY <1>3, <1>15, <2>1
    <3>2. TM!Ends(list)[i] \in Nat
      BY <1>3, <3>1, OneOfTheList
    <3>3. QED  BY <1>2, <1>15, <3>1, <3>2
  <2>2. CASE ~(i <= k)
    <3>1. i \in (k + 2)..Len(L) /\ i - 1 \in 1..Len(list) /\ from(i) = i - 1
      BY <1>3, <1>15, <1>16, <2>2
    <3>2. QED  BY <1>15, <3>1
  <2>3. QED  BY <2>1, <2>2
<1>17. ASSUME NEW m \in 1..Len(list)
       PROVE  /\ list[m].id \in TM!Id /\ list[m].id \in Nat /\ list[m].id <= tm.nr /\ list[m].id \notin tm.fired
              /\ list[m].id # id /\ list[m].id \in waiting /\ TM!Ends(list)[m] \in Nat
              /\ tm.age[list[m].id] + TM!Ends(list)[m] >= tm.want[list[m].id]
              /\ tm.age[list[m].id] + TM!Ends(list)[m] <= tm.want[list[m].id] + tm.slack[list[m].id]
  <2>1. list[m].id \in TM!Id /\ TM!Ends(list)[m] \in Nat
    BY <1>3, OneOfTheList
  <2>2. list[m].id \in Nat /\ list[m].id <= tm.nr /\ list[m].id \notin tm.fired
    BY <1>0, <1>1, <1>2, <2>1 DEF TM!Waits, TM!Id
  <2>3. list[m].id # id
    BY <1>3, <1>4, <2>2
  <2>4. list[m].id \in waiting
    BY <1>6
  <2>5. /\ tm.age[list[m].id] + TM!Ends(list)[m] >= tm.want[list[m].id]
        /\ tm.age[list[m].id] + TM!Ends(list)[m] <= tm.want[list[m].id] + tm.slack[list[m].id]
    BY <1>0, <1>1 DEF TM!OnTime
  <2>6. QED  BY <2>1, <2>2, <2>3, <2>4, <2>5
<1>18. tm.age[id] = 0
  BY <1>1, <1>3, <1>4, <1>5 DEF TM!Called
<1> HIDE DEF from
<1>19. tm' \in [list : Seq(TM!Entry), nr : 0..TIME_REQUESTS, fired : SUBSET TM!Id,
               want : [TM!Id -> Nat], age : [TM!Id -> Nat], slack : [TM!Id -> Nat]]
  <2>1. id \in 0..TIME_REQUESTS
    BY <1>2, <1>5 DEF TM!Id
  <2>2. tm' = [list |-> L, nr |-> id, fired |-> tm.fired, want |-> tm'.want, age |-> tm.age, slack |-> slack]
    BY <1>1, <1>9, <1>10
  <2>3. QED  BY <1>11, <1>12, <1>13, <1>15, <2>1, <2>2
<1>20. TM!OnTime(tm')
  <2>1. SUFFICES ASSUME NEW i \in 1..Len(L)
                 PROVE  /\ tm.age[L[i].id] + TM!Ends(L)[i] >= tm'.want[L[i].id]
                        /\ tm.age[L[i].id] + TM!Ends(L)[i] <= tm'.want[L[i].id] + slack[L[i].id]
    BY <1>10 DEF TM!OnTime
  <2>2. CASE i = k + 1
    BY <1>2, <1>5, <1>12, <1>13, <1>15, <1>18, <2>2
  <2>3. CASE i # k + 1
    <3>1. PICK m : m = from(i)
      OBVIOUS
    <3>2. /\ m \in 1..Len(list) /\ L[i] = list[m]
          /\ TM!Ends(L)[i] >= TM!Ends(list)[m] /\ TM!Ends(L)[i] <= TM!Ends(list)[m] + j
      BY <1>16, <2>3, <3>1
    <3>3. TM!Ends(L)[i] \in Nat
      BY <1>15, OneOfTheList
    <3>4. PICK a : a = list[m].id
      OBVIOUS
    <3>5. /\ a \in TM!Id /\ a # id /\ a \in waiting /\ TM!Ends(list)[m] \in Nat
          /\ tm.age[a] + TM!Ends(list)[m] >= tm.want[a] /\ tm.age[a] + TM!Ends(list)[m] <= tm.want[a] + tm.slack[a]
      BY <1>17, <3>2, <3>4
    <3>6. /\ tm'.want[a] = tm.want[a] /\ slack[a] = tm.slack[a] + j
          /\ tm.age[a] \in Nat /\ tm.want[a] \in Nat /\ tm.slack[a] \in Nat
      BY <1>11, <1>12, <1>13, <3>5
    <3>7. PICK n : n = TM!Ends(L)[i]
      OBVIOUS
    <3>8. PICK m0 : m0 = TM!Ends(list)[m]
      OBVIOUS
    <3>9. PICK age : age = tm.age[a]
      OBVIOUS
    <3>10. PICK aim : aim = tm.want[a]
      OBVIOUS
    <3>11. PICK late : late = tm.slack[a]
      OBVIOUS
    <3>12. age + n >= aim /\ age + n <= aim + (late + j)
      <4>1. /\ n \in Nat /\ m0 \in Nat /\ age \in Nat /\ aim \in Nat /\ late \in Nat
            /\ n >= m0 /\ n <= m0 + j /\ age + m0 >= aim /\ age + m0 <= aim + late
        BY <3>2, <3>3, <3>5, <3>6, <3>7, <3>8, <3>9, <3>10, <3>11
      <4>2. QED  BY <1>2, <4>1
    <3>13. QED  BY <3>2, <3>4, <3>6, <3>7, <3>9, <3>10, <3>11, <3>12
  <2>4. QED  BY <2>2, <2>3
<1>21. TM!Waits(tm')
  <2>1. L # <<>> => L[1].left >= 1
    <3>1. CASE k = 0
      <4>1. PICK e : e = [id |-> id, left |-> x]
        OBVIOUS
      <4>2. e \in TM!Entry /\ e.left = x
        BY <1>5, <1>25, <4>1 DEF TM!Entry
      <4>3. TM!Inserted(list, k, e)[k + 1] = e
        BY <1>3, <4>2, InsertedAt
      <4>4. L[1] = e
        BY <1>25, <3>1, <4>1, <4>3
      <4>5. QED  BY <1>25, <4>2, <4>4
    <3>2. CASE k # 0
      <4>1. 1 \in 1..k /\ list # <<>>
        BY <1>3, <3>2
      <4>2. L[1] = list[1]
        BY <1>15, <4>1
      <4>3. QED  BY <1>0, <1>1, <4>1, <4>2 DEF TM!Waits
    <3>3. QED  BY <3>1, <3>2
  <2>2. ASSUME NEW i \in 1..Len(L) PROVE L[i].id <= id /\ L[i].id \notin tm.fired
    <3>1. CASE i = k + 1
      <4>1. id \notin tm.fired
        BY <1>1, <1>3, <1>4 DEF TM!Called
      <4>2. QED  BY <1>5, <1>15, <3>1, <4>1
    <3>2. CASE i # k + 1
      <4>1. from(i) \in 1..Len(list) /\ L[i] = list[from(i)]
        BY <1>16, <3>2
      <4>2. QED  BY <1>3, <1>4, <1>17, <4>1
    <3>3. QED  BY <3>1, <3>2
  <2>3. ASSUME NEW i \in 1..Len(L), NEW l \in 1..Len(L), L[i].id = L[l].id PROVE i = l
    <3>1. CASE i = k + 1 /\ l # k + 1
      BY <1>15, <1>16, <1>17, <2>3, <3>1
    <3>2. CASE l = k + 1 /\ i # k + 1
      BY <1>15, <1>16, <1>17, <2>3, <3>2
    <3>3. CASE i # k + 1 /\ l # k + 1
      <4>1. from(i) \in 1..Len(list) /\ L[i] = list[from(i)] /\ from(l) \in 1..Len(list) /\ L[l] = list[from(l)]
        BY <1>16, <3>3
      <4>2. list[from(i)].id = list[from(l)].id
        BY <2>3, <4>1
      <4>3. from(i) = from(l)
        BY <1>0, <1>1, <4>1, <4>2 DEF TM!Waits
      <4>4. i \in Nat /\ l \in Nat /\ k \in Nat
        BY <1>3
      <4>5. QED  BY <3>3, <4>3, <4>4 DEF from
    <3>4. QED  BY <3>1, <3>2, <3>3
  <2>4. QED  BY <1>10, <1>15, <2>1, <2>2, <2>3 DEF TM!Waits
<1>22. TM!Called(tm')
  <2>1. tm.fired \subseteq 1..id
    BY <1>1, <1>3, <1>4 DEF TM!Called
  <2>2. ASSUME NEW i \in TM!Id, i > id PROVE tm.age[i] = 0
    <3>1. i > tm.nr
      BY <1>2, <1>3, <1>4, <2>2 DEF TM!Id
    <3>2. QED  BY <1>1, <3>1 DEF TM!Called
  <2>3. ASSUME NEW i \in 1..id
        PROVE  (i \in tm.fired => tm.age[i] >= tm'.want[i]) /\ tm.age[i] <= tm'.want[i] + slack[i]
    <3>1. i \in TM!Id
      BY <1>2, <1>5 DEF TM!Id
    <3>2. tm.age[i] \in Nat /\ tm.want[i] \in Nat /\ tm.slack[i] \in Nat /\ slack[i] \in Nat /\ slack[i] >= tm.slack[i]
      BY <1>11, <1>12, <3>1
    <3>3. CASE i = id
      <4>1. id \notin tm.fired
        BY <1>1, <1>3, <1>4 DEF TM!Called
      <4>2. QED  BY <1>2, <1>13, <1>18, <3>2, <3>3, <4>1
    <3>4. CASE i # id
      <4>1. i \in 1..tm.nr
        BY <1>3, <1>4, <3>4
      <4>2. (i \in tm.fired => tm.age[i] >= tm.want[i]) /\ tm.age[i] <= tm.want[i] + tm.slack[i]
        BY <1>1, <4>1 DEF TM!Called
      <4>3. PICK aim \in Nat : aim = tm.want[i] /\ aim = tm'.want[i]
        BY <1>13, <3>1, <3>2, <3>4
      <4>4. PICK age \in Nat : age = tm.age[i]
        BY <3>2
      <4>5. PICK late \in Nat : late = tm.slack[i]
        BY <3>2
      <4>6. PICK later \in Nat : later = slack[i] /\ later >= late
        BY <3>2, <4>5
      <4>7. age <= aim + late
        BY <4>2, <4>3, <4>4, <4>5
      <4>8. age <= aim + later
        BY <4>6, <4>7
      <4>9. QED  BY <4>2, <4>3, <4>4, <4>6, <4>8
    <3>5. QED  BY <3>3, <3>4
  <2>4. QED  BY <1>10, <2>1, <2>2, <2>3 DEF TM!Called
<1>23. QED  BY <1>19, <1>20, <1>21, <1>22 DEF TM!IInv

-----------------------------------------------------------------------------
(* The first entry of the list has counted down. *)
Down(list) == [list EXCEPT ![1].left = @ - 1]

LEMMA DownCounts ==
  ASSUME NEW list \in Seq(TM!Entry), list # <<>>, list[1].left >= 1
  PROVE  /\ Down(list) \in Seq(TM!Entry) /\ Len(Down(list)) = Len(list)
         /\ Down(list)[1].left = list[1].left - 1
         /\ \A i \in 1..Len(list) : Down(list)[i].id = list[i].id
         /\ \A i \in 2..Len(list) : Down(list)[i] = list[i]
<1>1. 1 \in 1..Len(list) /\ Len(list) \in Nat
  OBVIOUS
<1>2. list[1] \in TM!Entry
  BY <1>1
<1>3. PICK e : e = [list[1] EXCEPT !.left = @ - 1]
  OBVIOUS
<1>4. e \in TM!Entry /\ e.left = list[1].left - 1 /\ e.id = list[1].id
  BY <1>2, <1>3 DEF TM!Entry
<1>5. PICK d : d = [list EXCEPT ![1] = e]
  OBVIOUS
<1>6. d = Down(list)
  BY <1>3, <1>5 DEF Down
<1>7. d \in Seq(TM!Entry) /\ Len(d) = Len(list)
  BY <1>1, <1>4, <1>5, ExceptSeq
<1>8. d[1] = e
  BY <1>1, <1>5
<1>9. \A i \in 2..Len(list) : d[i] = list[i]
  BY <1>1, <1>5
<1>10. ASSUME NEW i \in 1..Len(list) PROVE d[i].id = list[i].id
  <2>1. CASE i = 1
    BY <1>4, <1>8, <2>1
  <2>2. CASE i # 1
    <3>1. i \in 2..Len(list)
      BY <1>1, <2>2
    <3>2. QED  BY <1>9, <3>1
  <2>3. QED  BY <2>1, <2>2
<1>11. QED  BY <1>4, <1>6, <1>7, <1>8, <1>9, <1>10

(* The first n are at 0 and the next is not. *)
AtZero(list, n) ==
  /\ \A i \in 1..n : Down(list)[i].left <= 0
  /\ n < Len(Down(list)) => Down(list)[n + 1].left > 0

(* Those that are called end with this tick. *)
LEMMA CalledEndNow ==
  ASSUME NEW list \in Seq(TM!Entry), list # <<>>, list[1].left >= 1,
         NEW n \in 0..Len(list), AtZero(list, n)
  PROVE  \A i \in 1..n : TM!Ends(list)[i] = 1
<1>1. PICK S : S = {m \in 1..n : TM!Ends(list)[m] # 1}
  OBVIOUS
<1>2. Len(list) \in Nat /\ n \in Nat /\ n <= Len(list) /\ TM!Ends(list)[0] = 0
  BY EndsAreSums DEF Sums
<1>3. S = {}
  <2>1. SUFFICES ASSUME S # {} PROVE FALSE
    OBVIOUS
  <2>2. S \in SUBSET Nat
    BY <1>1, <1>2
  <2>3. PICK m \in S : \A j \in S : m <= j
    BY <2>1, <2>2, LeastOne
  <2>4. m \in 1..n /\ m \in 1..Len(list) /\ TM!Ends(list)[m] # 1
    BY <1>1, <1>2, <2>3
  <2>5. /\ TM!Ends(list)[m] = TM!Ends(list)[m - 1] + list[m].left /\ list[m].left \in Nat
        /\ TM!Ends(list)[m - 1] \in Nat
    BY <2>4, OneOfTheList
  <2>6. Down(list)[m].left <= 0
    BY <2>4 DEF AtZero
  <2>7. CASE m = 1
    <3>1. Down(list)[1].left = list[1].left - 1
      BY DownCounts
    <3>2. QED  BY <1>2, <2>4, <2>5, <2>6, <2>7, <3>1
  <2>8. CASE m # 1
    <3>1. m \in 2..Len(list) /\ m - 1 \in 1..n /\ ~(m <= m - 1)
      BY <1>2, <2>4, <2>8
    <3>2. Down(list)[m] = list[m]
      BY <3>1, DownCounts
    <3>3. m - 1 \notin S
      BY <2>3, <3>1
    <3>4. TM!Ends(list)[m - 1] = 1
      BY <1>1, <3>1, <3>3
    <3>5. QED  BY <2>4, <2>5, <2>6, <3>2, <3>4
  <2>9. QED  BY <2>7, <2>8
<1>4. QED  BY <1>1, <1>3

(* What the list is when the first n are taken off. *)
Counted(list, n, L) ==
  /\ L \in Seq(TM!Entry) /\ Len(L) = Len(list) - n
  /\ \A i \in 1..Len(L) : /\ n + i \in 1..Len(list) /\ L[i].id = list[n + i].id
                          /\ TM!Ends(L)[i] = TM!Ends(list)[n + i] - 1
  /\ L # <<>> => L[1].left >= 1

(* The others are each a tick nearer its end. *)
LEMMA OthersCount ==
  ASSUME NEW list \in Seq(TM!Entry), list # <<>>, list[1].left >= 1,
         NEW n \in 0..Len(list), AtZero(list, n),
         NEW L, L = SubSeq(Down(list), n + 1, Len(list))
  PROVE  Counted(list, n, L)
<1>1. Len(list) \in Nat /\ n \in Nat /\ n <= Len(list)
  OBVIOUS
<1>2. PICK d : d = Down(list)
  OBVIOUS
<1>3. /\ d \in Seq(TM!Entry) /\ Len(d) = Len(list) /\ d[1].left = list[1].left - 1
      /\ (\A i \in 1..Len(list) : d[i].id = list[i].id) /\ \A i \in 2..Len(list) : d[i] = list[i]
  BY <1>2, DownCounts
<1>4. L = SubSeq(d, n + 1, Len(d))
  BY <1>2, <1>3
<1>5. L \in Seq(TM!Entry) /\ Len(L) = Len(list) - n /\ \A i \in 1..(Len(list) - n) : L[i] = d[n + i]
  BY <1>1, <1>3, <1>4
<1>6. ASSUME NEW i \in 1..Len(L) PROVE n + i \in 1..Len(list) /\ L[i] = d[n + i] /\ L[i].id = list[n + i].id
  <2>1. n + i \in 1..Len(list) /\ i \in 1..(Len(list) - n)
    BY <1>1, <1>5
  <2>2. QED  BY <1>3, <1>5, <2>1
<1>7. PICK t : t = TM!Ends(list)
  OBVIOUS
<1>8. t \in [0..Len(list) -> Nat] /\ t[0] = 0 /\ \A i \in 1..Len(list) : t[i] = t[i - 1] + list[i].left
  BY <1>7, EndsAreSums DEF Sums
<1>9. \A i \in 1..n : t[i] = 1
  BY <1>7, CalledEndNow
<1>10. PICK s : s = [i \in 0..(Len(list) - n) |-> IF i = 0 THEN 0 ELSE t[n + i] - 1]
  OBVIOUS
<1>11. s[0] = 0 /\ \A i \in 1..(Len(list) - n) : s[i] = t[n + i] - 1
  BY <1>1, <1>10
<1>12. ASSUME NEW i \in 1..Len(L) PROVE s[i] = s[i - 1] + L[i].left
  <2>1. i \in 1..(Len(list) - n)
    BY <1>5
  <2>2. PICK m : m = n + i
    OBVIOUS
  <2>3. m \in 1..Len(list) /\ m - 1 \in 0..Len(list) /\ L[i] = d[m]
    <3>1. m \in 1..Len(list) /\ L[i] = d[m]
      BY <1>6, <2>2
    <3>2. \A q \in 1..Len(list) : q - 1 \in 0..Len(list)
      BY <1>1
    <3>3. m - 1 \in 0..Len(list)
      BY <3>1, <3>2
    <3>4. QED  BY <3>1, <3>3
  <2>4. PICK v \in Nat : v = list[m].left
    BY <2>3, OneOfTheList
  <2>5. PICK u \in Nat : u = t[m - 1]
    BY <1>8, <2>3
  <2>6. s[i] = (u + v) - 1
    BY <1>8, <1>11, <2>1, <2>2, <2>3, <2>4, <2>5
  <2>7. CASE i = 1
    <3>1. s[i - 1] = 0 /\ m - 1 = n
      BY <1>1, <1>11, <2>2, <2>7
    <3>2. CASE n = 0
      <4>1. m = 1 /\ u = 0
        BY <1>8, <2>2, <2>5, <2>7, <3>2
      <4>2. L[i].left = v - 1
        BY <1>3, <2>3, <2>4, <4>1
      <4>3. QED  BY <2>6, <3>1, <4>1, <4>2
    <3>3. CASE n # 0
      <4>1. n \in 1..n /\ m \in 2..Len(list)
        BY <1>1, <2>2, <2>3, <2>7, <3>3
      <4>2. u = 1 /\ L[i].left = v
        BY <1>3, <1>9, <2>3, <2>4, <2>5, <3>1, <4>1
      <4>3. QED  BY <2>6, <3>1, <4>2
    <3>4. QED  BY <3>2, <3>3
  <2>8. CASE i # 1
    <3>1. i - 1 \in 1..(Len(list) - n) /\ n + (i - 1) = m - 1 /\ m \in 2..Len(list)
      BY <1>1, <2>1, <2>2, <2>8
    <3>2. s[i - 1] = u - 1
      BY <1>11, <2>5, <3>1
    <3>3. L[i].left = v
      BY <1>3, <2>3, <2>4, <3>1
    <3>4. (u + v) - 1 = (u - 1) + v
      OBVIOUS
    <3>5. QED  BY <2>6, <3>2, <3>3, <3>4
  <2>9. QED  BY <2>7, <2>8
<1>13. Sums(L, s, Len(L))
  BY <1>11, <1>12 DEF Sums
<1>14. \A i \in 0..Len(L) : TM!Ends(L)[i] = s[i]
  BY <1>5, <1>13, EndsUnique
<1>15. ASSUME NEW i \in 1..Len(L) PROVE TM!Ends(L)[i] = TM!Ends(list)[n + i] - 1
  <2>1. i \in 0..Len(L) /\ i \in 1..(Len(list) - n)
    BY <1>5
  <2>2. QED  BY <1>7, <1>11, <1>14, <2>1
<1>16. ASSUME L # <<>> PROVE L[1].left >= 1
  <2>1. 1 \in 1..Len(L) /\ n < Len(list)
    BY <1>1, <1>5, <1>16
  <2>2. L[1] = d[n + 1] /\ L[1] \in TM!Entry
    BY <1>5, <1>6, <2>1
  <2>3. d[n + 1].left > 0
    BY <1>2, <1>3, <2>1 DEF AtZero
  <2>4. L[1].left \in Nat /\ L[1].left > 0
    <3>1. L[1].left \in Nat
      BY <2>2 DEF TM!Entry
    <3>2. QED  BY <2>2, <2>3, <3>1
  <2>5. \A v \in Nat : v > 0 => v >= 1
    OBVIOUS
  <2>6. QED  BY <2>4, <2>5
<1>17. QED  BY <1>5, <1>6, <1>15, <1>16 DEF Counted

LEMMA TickDoes ==
  ASSUME TM!Tick, NEW n, n = CHOOSE m \in 0..Len(Down(tm.list)) : AtZero(tm.list, m)
  PROVE  tm' = [tm EXCEPT !.list = SubSeq(Down(tm.list), n + 1, Len(Down(tm.list))),
                          !.fired = tm.fired \cup {Down(tm.list)[i].id : i \in 1..n},
                          !.age = [i \in 1..TIME_REQUESTS |->
                                     IF i \in {tm.list[k].id : k \in 1..Len(tm.list)}
                                     THEN tm.age[i] + 1 ELSE tm.age[i]]]
  BY DEF TM!Tick, AtZero, Down

(* The clock ticks. *)
LEMMA TickFits ==
  ASSUME TM!IInv, TM!Tick
  PROVE  TM!IInv'
<1>1. PICK list : list = tm.list
  OBVIOUS
<1>2. /\ tm \in [list : Seq(TM!Entry), nr : 0..TIME_REQUESTS, fired : SUBSET TM!Id,
                  want : [TM!Id -> Nat], age : [TM!Id -> Nat], slack : [TM!Id -> Nat]]
      /\ TM!OnTime(tm) /\ TM!Waits(tm) /\ TM!Called(tm)
  BY DEF TM!IInv
<1>3. TIME_REQUESTS \in Nat /\ tm.nr \in Nat /\ tm.nr <= TIME_REQUESTS
  BY <1>2, TimerListAssumption DEF TM!TimersAssumption
<1>4. list \in Seq(TM!Entry) /\ list # <<>> /\ list[1].left >= 1 /\ Len(list) \in Nat
  BY <1>1, <1>2 DEF TM!Tick, TM!Waits
<1>5. Down(list) \in Seq(TM!Entry) /\ Len(Down(list)) = Len(list) /\ \A i \in 1..Len(list) : Down(list)[i].id = list[i].id
  BY <1>4, DownCounts
<1>6. \E n \in 0..Len(list) : AtZero(list, n)
  <2>1. PICK S : S = {i \in 1..Len(list) : Down(list)[i].left <= 0}
    OBVIOUS
  <2>2. PICK n \in 0..Len(list) : (\A i \in 1..n : i \in S) /\ (n < Len(list) => n + 1 \notin S)
    BY <1>4, LongestRun
  <2>3. \A i \in 1..n : Down(list)[i].left <= 0
    BY <2>1, <2>2
  <2>4. ASSUME n < Len(list) PROVE Down(list)[n + 1].left > 0
    <3>1. n + 1 \in 1..Len(list) /\ n + 1 \notin S
      BY <1>4, <2>2, <2>4
    <3>2. Down(list)[n + 1] \in TM!Entry /\ ~(Down(list)[n + 1].left <= 0)
      BY <1>5, <2>1, <3>1
    <3>3. Down(list)[n + 1].left \in Nat
      BY <3>2 DEF TM!Entry
    <3>4. QED  BY <3>2, <3>3
  <2>5. QED  BY <1>5, <2>3, <2>4 DEF AtZero
<1>7. PICK n : n = CHOOSE m \in 0..Len(Down(tm.list)) : AtZero(tm.list, m)
  OBVIOUS
<1>8. n \in 0..Len(list) /\ AtZero(list, n)
  BY <1>1, <1>5, <1>6, <1>7
<1>10. PICK waiting : waiting = {list[i].id : i \in 1..Len(list)}
  OBVIOUS
<1>11. PICK age : age = [i \in 1..TIME_REQUESTS |-> IF i \in waiting THEN tm.age[i] + 1 ELSE tm.age[i]]
  OBVIOUS
<1>12. PICK L : L = SubSeq(Down(list), n + 1, Len(list))
  OBVIOUS
<1>13. PICK due : due = {Down(list)[i].id : i \in 1..n}
  OBVIOUS
<1>14. tm' = [tm EXCEPT !.list = L, !.fired = tm.fired \cup due, !.age = age]
  <2>1. tm' = [tm EXCEPT !.list = SubSeq(Down(tm.list), n + 1, Len(Down(tm.list))),
                         !.fired = tm.fired \cup {Down(tm.list)[i].id : i \in 1..n},
                         !.age = [i \in 1..TIME_REQUESTS |->
                                    IF i \in {tm.list[k].id : k \in 1..Len(tm.list)}
                                    THEN tm.age[i] + 1 ELSE tm.age[i]]]
    BY <1>7, TickDoes
  <2>2. SubSeq(Down(tm.list), n + 1, Len(Down(tm.list))) = L
    BY <1>1, <1>5, <1>12
  <2>3. {Down(tm.list)[i].id : i \in 1..n} = due /\ {tm.list[k].id : k \in 1..Len(tm.list)} = waiting
    BY <1>1, <1>10, <1>13
  <2>4. [i \in 1..TIME_REQUESTS |-> IF i \in {tm.list[k].id : k \in 1..Len(tm.list)}
                                  THEN tm.age[i] + 1 ELSE tm.age[i]] = age
    BY <1>11, <2>3
  <2>5. QED  BY <2>1, <2>2, <2>3, <2>4
<1>15. /\ tm'.list = L /\ tm'.fired = tm.fired \cup due /\ tm'.age = age
       /\ tm'.nr = tm.nr /\ tm'.want = tm.want /\ tm'.slack = tm.slack
  BY <1>2, <1>14
<1>16. /\ L \in Seq(TM!Entry) /\ Len(L) = Len(list) - n
       /\ \A i \in 1..Len(L) : /\ n + i \in 1..Len(list) /\ L[i].id = list[n + i].id
                               /\ TM!Ends(L)[i] = TM!Ends(list)[n + i] - 1
       /\ L # <<>> => L[1].left >= 1
  <2>1. Counted(list, n, L)
    BY <1>4, <1>8, <1>12, OthersCount
  <2>2. QED  BY <2>1 DEF Counted
<1>17. \A i \in 1..n : TM!Ends(list)[i] = 1
  BY <1>4, <1>8, CalledEndNow
<1>18. tm.want \in [TM!Id -> Nat] /\ tm.age \in [TM!Id -> Nat] /\ tm.slack \in [TM!Id -> Nat] /\ tm.fired \subseteq TM!Id
  BY <1>2
<1>19. age \in [TM!Id -> Nat] /\ \A i \in TM!Id : age[i] = IF i \in waiting THEN tm.age[i] + 1 ELSE tm.age[i]
  <2>1. \A i \in TM!Id : age[i] = IF i \in waiting THEN tm.age[i] + 1 ELSE tm.age[i]
    BY <1>11 DEF TM!Id
  <2>2. \A i \in TM!Id : age[i] \in Nat
    BY <1>18, <2>1
  <2>3. age \in [TM!Id -> Nat]
    BY <1>11, <2>2 DEF TM!Id
  <2>4. QED  BY <2>1, <2>3
(* What is known of the timers in the list. *)
<1>20. ASSUME NEW m \in 1..Len(list), NEW a, a = list[m].id
       PROVE  /\ a \in TM!Id /\ a \in 1..tm.nr /\ a \notin tm.fired /\ a \in waiting
              /\ TM!Ends(list)[m] \in Nat /\ TM!Ends(list)[m] >= 1
              /\ tm.age[a] + TM!Ends(list)[m] >= tm.want[a] /\ tm.age[a] + TM!Ends(list)[m] <= tm.want[a] + tm.slack[a]
              /\ tm.age[a] \in Nat /\ tm.want[a] \in Nat /\ tm.slack[a] \in Nat /\ age[a] = tm.age[a] + 1
  <2>1. a \in TM!Id /\ TM!Ends(list)[m] \in Nat
    BY <1>4, <1>20, OneOfTheList
  <2>2. a \in 1..tm.nr /\ a \notin tm.fired
    BY <1>1, <1>2, <1>3, <1>20, <2>1 DEF TM!Waits, TM!Id
  <2>3. a \in waiting
    BY <1>10, <1>20
  <2>4. tm.age[a] + TM!Ends(list)[m] >= tm.want[a] /\ tm.age[a] + TM!Ends(list)[m] <= tm.want[a] + tm.slack[a]
    BY <1>1, <1>2, <1>20 DEF TM!OnTime
  <2>5. TM!Ends(list)[m] >= 1
    <3>1. TM!Ends(list)[m] >= list[1].left
      BY <1>4, FirstEndsFirst
    <3>2. 1 \in 1..Len(list)
      BY <1>4
    <3>3. list[1].left \in Nat
      BY <1>4, <3>2, OneOfTheList
    <3>4. QED  BY <1>4, <2>1, <3>1, <3>3
  <2>6. QED  BY <1>18, <1>19, <2>1, <2>2, <2>3, <2>4, <2>5
<1>21. ASSUME NEW a \in due PROVE \E m \in 1..n : m \in 1..Len(list) /\ a = list[m].id
  <2>1. PICK m \in 1..n : a = Down(list)[m].id
    BY <1>13
  <2>2. m \in 1..Len(list)
    BY <1>4, <1>8
  <2>3. QED  BY <1>5, <2>1, <2>2
<1>22. tm' \in [list : Seq(TM!Entry), nr : 0..TIME_REQUESTS, fired : SUBSET TM!Id,
               want : [TM!Id -> Nat], age : [TM!Id -> Nat], slack : [TM!Id -> Nat]]
  <2>1. due \subseteq TM!Id
    BY <1>20, <1>21
  <2>2. tm' = [list |-> L, nr |-> tm.nr, fired |-> tm.fired \cup due, want |-> tm.want, age |-> age, slack |-> tm.slack]
    BY <1>2, <1>14
  <2>3. QED  BY <1>2, <1>16, <1>18, <1>19, <2>1, <2>2
<1>23. TM!OnTime(tm')
  <2>1. SUFFICES ASSUME NEW i \in 1..Len(L), NEW a, a = L[i].id
                 PROVE  age[a] + TM!Ends(L)[i] >= tm.want[a] /\ age[a] + TM!Ends(L)[i] <= tm.want[a] + tm.slack[a]
    BY <1>15 DEF TM!OnTime
  <2>2. PICK m : m = n + i
    OBVIOUS
  <2>3. m \in 1..Len(list) /\ a = list[m].id /\ TM!Ends(L)[i] = TM!Ends(list)[m] - 1
    BY <1>16, <2>1, <2>2
  <2>4. /\ TM!Ends(list)[m] \in Nat
        /\ tm.age[a] + TM!Ends(list)[m] >= tm.want[a] /\ tm.age[a] + TM!Ends(list)[m] <= tm.want[a] + tm.slack[a]
        /\ tm.age[a] \in Nat /\ tm.want[a] \in Nat /\ tm.slack[a] \in Nat /\ age[a] = tm.age[a] + 1
    BY <1>20, <2>3
  <2>5. PICK e \in Nat : e = TM!Ends(list)[m]
    BY <2>4
  <2>6. PICK w \in Nat : w = tm.age[a]
    BY <2>4
  <2>7. age[a] = w + 1 /\ TM!Ends(L)[i] = e - 1
    BY <2>3, <2>4, <2>5, <2>6
  <2>8. (w + 1) + (e - 1) = w + e
    OBVIOUS
  <2>9. age[a] + TM!Ends(L)[i] = w + e
    BY <2>7, <2>8
  <2>10. QED  BY <2>4, <2>5, <2>6, <2>9
<1>24. TM!Waits(tm')
  <2>1. ASSUME NEW i \in 1..Len(L) PROVE L[i].id <= tm.nr /\ L[i].id \notin tm.fired \cup due
    <3>1. n + i \in 1..Len(list) /\ L[i].id = list[n + i].id
      BY <1>16
    <3>2. L[i].id \in 1..tm.nr /\ L[i].id \notin tm.fired
      BY <1>20, <3>1
    <3>3. L[i].id \notin due
      <4>1. SUFFICES ASSUME L[i].id \in due PROVE FALSE
        OBVIOUS
      <4>2. PICK m \in 1..n : m \in 1..Len(list) /\ L[i].id = list[m].id
        BY <1>21, <4>1
      <4>3. m = n + i
        BY <1>1, <1>2, <3>1, <4>2 DEF TM!Waits
      <4>4. QED  BY <1>8, <1>16, <4>2, <4>3
    <3>4. QED  BY <1>3, <3>2, <3>3
  <2>2. ASSUME NEW i \in 1..Len(L), NEW l \in 1..Len(L), L[i].id = L[l].id PROVE i = l
    <3>1. /\ n + i \in 1..Len(list) /\ L[i].id = list[n + i].id
          /\ n + l \in 1..Len(list) /\ L[l].id = list[n + l].id
      BY <1>16
    <3>2. n + i = n + l
      BY <1>1, <1>2, <2>2, <3>1 DEF TM!Waits
    <3>3. QED  BY <1>8, <3>2
  <2>3. QED  BY <1>15, <1>16, <2>1, <2>2 DEF TM!Waits
<1>25. TM!Called(tm')
  <2>1. tm.fired \cup due \subseteq 1..tm.nr
    <3>1. due \subseteq 1..tm.nr
      BY <1>20, <1>21
    <3>2. QED  BY <1>2, <3>1 DEF TM!Called
  <2>2. ASSUME NEW i \in TM!Id, i > tm.nr PROVE age[i] = 0
    <3>1. i \notin waiting
      <4>1. SUFFICES ASSUME i \in waiting PROVE FALSE
        OBVIOUS
      <4>2. PICK m \in 1..Len(list) : i = list[m].id
        BY <1>10, <4>1
      <4>3. i \in 1..tm.nr
        BY <1>20, <4>2
      <4>4. QED  BY <1>3, <2>2, <4>3
    <3>2. QED  BY <1>2, <1>19, <2>2, <3>1 DEF TM!Called
  <2>3. ASSUME NEW i \in 1..tm.nr
        PROVE  (i \in tm.fired \cup due => age[i] >= tm.want[i]) /\ age[i] <= tm.want[i] + tm.slack[i]
    <3>1. i \in TM!Id
      BY <1>3 DEF TM!Id
    <3>2. tm.age[i] \in Nat /\ tm.want[i] \in Nat /\ tm.slack[i] \in Nat /\ age[i] \in Nat
      BY <1>18, <1>19, <3>1
    <3>3. (i \in tm.fired => tm.age[i] >= tm.want[i]) /\ tm.age[i] <= tm.want[i] + tm.slack[i]
      BY <1>2 DEF TM!Called
    <3>4. CASE i \notin waiting
      <4>1. age[i] = tm.age[i]
        BY <1>19, <3>1, <3>4
      <4>2. i \notin due
        <5>1. SUFFICES ASSUME i \in due PROVE FALSE
          OBVIOUS
        <5>2. PICK m \in 1..n : m \in 1..Len(list) /\ i = list[m].id
          BY <1>21, <5>1
        <5>3. QED  BY <1>10, <3>4, <5>2
      <4>3. QED  BY <3>3, <4>1, <4>2
    <3>5. CASE i \in waiting
      <4>1. PICK m \in 1..Len(list) : i = list[m].id
        BY <1>10, <3>5
      <4>2. PICK e : e = TM!Ends(list)[m]
        OBVIOUS
      <4>3. /\ i \notin tm.fired /\ e \in Nat /\ e >= 1 /\ age[i] = tm.age[i] + 1
            /\ tm.age[i] + e >= tm.want[i] /\ tm.age[i] + e <= tm.want[i] + tm.slack[i]
        BY <1>20, <4>1, <4>2
      <4>4. age[i] <= tm.want[i] + tm.slack[i]
        <5>1. PICK w \in Nat : w = tm.age[i]
          BY <3>2
        <5>2. PICK z \in Nat : z = tm.want[i] + tm.slack[i]
          BY <3>2
        <5>3. w + 1 <= z
          BY <4>3, <5>1, <5>2
        <5>4. QED  BY <4>3, <5>1, <5>2, <5>3
      <4>5. ASSUME i \in due PROVE age[i] >= tm.want[i]
        <5>1. PICK l \in 1..n : l \in 1..Len(list) /\ i = list[l].id
          BY <1>21, <4>5
        <5>2. l = m
          BY <1>1, <1>2, <4>1, <5>1 DEF TM!Waits
        <5>3. e = 1
          BY <1>17, <4>2, <5>1, <5>2
        <5>4. QED  BY <3>2, <4>3, <5>3
      <4>6. QED  BY <4>3, <4>4, <4>5
    <3>6. QED  BY <3>4, <3>5
  <2>4. QED  BY <1>15, <2>1, <2>2, <2>3 DEF TM!Called
<1>26. QED  BY <1>22, <1>23, <1>24, <1>25 DEF TM!IInv

LEMMA NoTimerSet ==
  ASSUME TM!Init
  PROVE  TM!IInv
<1>1. TIME_REQUESTS \in Nat
  BY TimerListAssumption DEF TM!TimersAssumption
<1>2. tm = TM!Tm0
  BY DEF TM!Init
<1>3. /\ tm.list = <<>> /\ Len(tm.list) = 0 /\ tm.nr = 0 /\ tm.fired = {}
      /\ tm.want = [i \in TM!Id |-> 0] /\ tm.age = [i \in TM!Id |-> 0] /\ tm.slack = [i \in TM!Id |-> 0]
  BY <1>2 DEF TM!Tm0, TM!Id
<1>4. tm \in [list : Seq(TM!Entry), nr : 0..TIME_REQUESTS, fired : SUBSET TM!Id,
              want : [TM!Id -> Nat], age : [TM!Id -> Nat], slack : [TM!Id -> Nat]]
  <2>1. <<>> \in Seq(TM!Entry) /\ 0 \in 0..TIME_REQUESTS /\ [i \in TM!Id |-> 0] \in [TM!Id -> Nat]
    BY <1>1
  <2>2. QED  BY <1>2, <2>1 DEF TM!Tm0, TM!Id
<1>5. TM!OnTime(tm)
  BY <1>3 DEF TM!OnTime
<1>6. TM!Waits(tm)
  <2>1. tm.list \in Seq(TM!Entry) /\ 1..Len(tm.list) = {}
    BY <1>3
  <2>2. QED  BY <1>3, <2>1 DEF TM!Waits
<1>7. TM!Called(tm)
  BY <1>1, <1>3 DEF TM!Called
<1>8. QED  BY <1>4, <1>5, <1>6, <1>7 DEF TM!IInv

(* add_timer and do_timer, for any number of timers and any ticks: no timer is called before
   its own have passed, and none waits longer than they and those of the timers set after it
   while it waited, which add_timer does not take off the entry behind. *)
THEOREM TimersStayInBounds == TimerSpec => []TimersInBounds
<1>1. TM!Init => TM!IInv
  BY NoTimerSet
<1>2. TM!IInv /\ [TM!Next]_tm => TM!IInv'
  <2>1. SUFFICES ASSUME TM!IInv, [TM!Next]_tm PROVE TM!IInv'
    OBVIOUS
  <2>2. CASE TM!Tick
    BY <2>1, <2>2, TickFits
  <2>3. CASE \E j \in TimerTicks : TM!AddTimer(j)
    BY <2>1, <2>3, AddTimerFits
  <2>4. CASE UNCHANGED tm
    BY <2>1, <2>4 DEF TM!IInv, TM!OnTime, TM!Waits, TM!Called
  <2>5. QED  BY <2>1, <2>2, <2>3, <2>4 DEF TM!Next
<1>3. TM!IInv => TimersInBounds
  BY DEF TM!IInv, TM!Called, TM!TimersInBounds, TimersInBounds
<1>4. QED  BY <1>1, <1>2, <1>3, PTL DEF TimerSpec
=============================================================================
