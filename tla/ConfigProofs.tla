---------------------------- MODULE ConfigProofs ----------------------------
(***************************************************************************)
(* Proofs about Config, for any fields, parts, versions and storage        *)
(***************************************************************************)
EXTENDS Config, TLAPS

-----------------------------------------------------------------------------
(* What a walk finds for a field in a log of cells: the newest cell of the *)
(* field or, when there is none, Null.                                     *)

NoCell(s, f) == \A i \in DOMAIN s : s[i].id # f

Finds(s, f, c) ==
  \/ NoCell(s, f) /\ c = Null
  \/ \E i \in DOMAIN s :
       /\ s[i].id = f /\ s[i] = c
       /\ \A j \in DOMAIN s : j > i => s[j].id # f

LEMMA AppendFinds ==
  ASSUME NEW s \in Seq(Cells), NEW c \in Cells
  PROVE  LET t == Append(s, c)
         IN  /\ \A d : Finds(t, c.id, d) => d = c
             /\ \A g \in Fields \ {c.id} : \A d : Finds(t, g, d) => Finds(s, g, d)
             /\ \A g \in Fields \ {c.id} : NoCell(s, g) => NoCell(t, g)
<1> DEFINE t == Append(s, c)
<1>1. /\ DOMAIN t = 1 .. Len(s) + 1
      /\ DOMAIN s = 1 .. Len(s) /\ Len(s) \in Nat
      /\ \A i \in 1 .. Len(s) : t[i] = s[i]
      /\ t[Len(s) + 1] = c
  OBVIOUS
<1> HIDE DEF t
<1>3. ASSUME NEW d, Finds(t, c.id, d) PROVE d = c
  <2>1. ~NoCell(t, c.id)
    BY <1>1 DEF NoCell
  <2>2. PICK i \in DOMAIN t : t[i].id = c.id /\ t[i] = d /\ \A j \in DOMAIN t : j > i => t[j].id # c.id
    BY <1>3, <2>1 DEF Finds
  <2>3. i = Len(s) + 1
    BY <1>1, <2>2
  <2> QED
    BY <1>1, <2>2, <2>3
<1>4. ASSUME NEW g \in Fields \ {c.id}, NoCell(s, g) PROVE NoCell(t, g)
  BY <1>1, <1>4 DEF NoCell
<1>5. ASSUME NEW g \in Fields \ {c.id}, NEW d, Finds(t, g, d) PROVE Finds(s, g, d)
  <2>1. CASE NoCell(t, g) /\ d = Null
    BY <1>1, <2>1 DEF NoCell, Finds
  <2>2. CASE \E i \in DOMAIN t :
               t[i].id = g /\ t[i] = d /\ \A j \in DOMAIN t : j > i => t[j].id # g
    <3>1. PICK i \in DOMAIN t : t[i].id = g /\ t[i] = d /\ \A j \in DOMAIN t : j > i => t[j].id # g
      BY <2>2
    <3>2. i \in 1 .. Len(s)
      BY <1>1, <3>1
    <3>3. s[i].id = g /\ s[i] = d /\ \A j \in DOMAIN s : j > i => s[j].id # g
      BY <1>1, <3>1, <3>2
    <3> QED
      BY <1>1, <3>2, <3>3 DEF Finds
  <2> QED
    BY <1>5, <2>1, <2>2 DEF Finds
<1> QED
  BY <1>3, <1>4, <1>5 DEF t

(* The walk has come to a cell of a field it has not seen.                 *)
LEMMA VisitFinds ==
  ASSUME NEW s \in Seq(Cells), NEW i \in DOMAIN s,
         \A j \in DOMAIN s : j > i => s[j].id # s[i].id
  PROVE  /\ Finds(s, s[i].id, s[i])
         /\ \A c : Finds(s, s[i].id, c) => c = s[i]
<1>1. Finds(s, s[i].id, s[i])
  BY DEF Finds
<1>2. ASSUME NEW c, Finds(s, s[i].id, c) PROVE c = s[i]
  <2>1. PICK j \in DOMAIN s : s[j].id = s[i].id /\ s[j] = c
                              /\ \A k \in DOMAIN s : k > j => s[k].id # s[i].id
    BY <1>2 DEF Finds, NoCell
  <2>2. DOMAIN s = 1 .. Len(s) /\ Len(s) \in Nat
    OBVIOUS
  <2>3. j = i
    BY <2>1, <2>2
  <2> QED
    BY <2>1, <2>3
<1> QED
  BY <1>1, <1>2

LEMMA SeqElements ==
  ASSUME NEW S, NEW s \in Seq(S)
  PROVE  /\ DOMAIN s = 1 .. Len(s) /\ Len(s) \in Nat
         /\ \A i \in DOMAIN s : s[i] \in S
         /\ s # << >> => Len(s) \in DOMAIN s /\ s[Len(s)] \in S
OBVIOUS

LEMMA AppendElements ==
  ASSUME NEW S, NEW s \in Seq(S), NEW e \in S
  PROVE  /\ Append(s, e) \in Seq(S) /\ Append(s, e) # << >>
         /\ Append(s, e)[Len(Append(s, e))] = e
OBVIOUS

LEMMA RemoveType ==
  ASSUME NEW S, NEW s \in Seq(S), NEW i \in DOMAIN s
  PROVE  /\ Remove(s, i) \in Seq(S)
         /\ Len(Remove(s, i)) = Len(s) - 1
         /\ \A k \in DOMAIN Remove(s, i) : \E j \in DOMAIN s : Remove(s, i)[k] = s[j]
         /\ i # Len(s) => Remove(s, i) # << >> /\ Remove(s, i)[Len(s) - 1] = s[Len(s)]
<1>1. i \in 1 .. Len(s) /\ Len(s) \in Nat /\ DOMAIN s = 1 .. Len(s)
  OBVIOUS
<1>2. \A j \in 1 .. Len(s) : s[j] \in S
  OBVIOUS
<1>3. ASSUME NEW k \in 1 .. Len(s) - 1
      PROVE  (IF k < i THEN k ELSE k + 1) \in 1 .. Len(s)
  BY <1>1
<1>4. Len(s) - 1 \in Nat
  BY <1>1
<1> DEFINE r == [k \in 1 .. Len(s) - 1 |-> s[IF k < i THEN k ELSE k + 1]]
<1>5. r \in Seq(S) /\ Len(r) = Len(s) - 1
  <2>1. r \in [1 .. Len(s) - 1 -> S]
    BY <1>2, <1>3
  <2> QED
    BY <1>4, <2>1
<1>6. \A k \in DOMAIN r : \E j \in DOMAIN s : r[k] = s[j]
  BY <1>1, <1>3
<1>7. i # Len(s) => r # << >> /\ r[Len(s) - 1] = s[Len(s)]
  BY <1>1, <1>4, <1>5
<1> HIDE DEF r
<1>8. Remove(s, i) = r
  BY DEF Remove, r
<1> QED
  BY <1>5, <1>6, <1>7, <1>8

-----------------------------------------------------------------------------
(* The pages                                                               *)

LEMMA PageTypes ==
  ASSUME TypeOK
  PROVE  /\ store \in Seq(Cells) /\ Len(store) \in Nat /\ DOMAIN store = 1 .. Len(store)
         /\ Used \subseteq 1 .. Pages
         /\ NextPage \in 1 .. Pages
         /\ order # << >> => /\ order[Len(order)] \in Used /\ NextPage # order[Len(order)]
                             /\ Len(order) \in DOMAIN order /\ store = pages[order[Len(order)]]
<1>1. Pages \in Nat /\ Pages > 1
  BY ConfigAssumption
<1>2. pages \in [1 .. Pages -> Seq(Cells)] /\ order \in Seq(1 .. Pages)
  BY DEF TypeOK
<1>3. Used \subseteq 1 .. Pages
  BY <1>2, SeqElements DEF Used
<1>4. CASE order = << >>
  <2>1. store = << >> /\ NextPage = 1
    BY <1>4 DEF store, NextPage
  <2> QED
    BY <1>1, <1>3, <1>4, <2>1
<1>5. CASE order # << >>
  <2>1. Len(order) \in DOMAIN order /\ order[Len(order)] \in 1 .. Pages
    BY <1>2, <1>5, SeqElements
  <2>2. order[Len(order)] \in Used
    BY <2>1 DEF Used
  <2>3. store = pages[order[Len(order)]]
    BY <1>5 DEF store
  <2>4. store \in Seq(Cells)
    BY <1>2, <2>1, <2>3
  <2>5. NextPage \in 1 .. Pages /\ NextPage # order[Len(order)]
    BY <1>1, <1>5, <2>1 DEF NextPage
  <2> QED
    BY <1>3, <2>1, <2>2, <2>3, <2>4, <2>5
<1> QED
  BY <1>4, <1>5

(* To wipe a page brings no cell, and leaves the newest page but when it   *)
(* is the one that is wiped.                                               *)
LEMMA WipesStep ==
  ASSUME TypeOK, NEW p \in 1 .. Pages, Wipes(p)
  PROVE  /\ pages' \in [1 .. Pages -> Seq(Cells)] /\ order' \in Seq(1 .. Pages)
         /\ Stored' \subseteq Stored
         /\ order # << >> /\ p # order[Len(order)] => store' = store
<1>1. pages \in [1 .. Pages -> Seq(Cells)] /\ order \in Seq(1 .. Pages)
  BY DEF TypeOK
<1>2. CASE /\ \E i \in DOMAIN pages[p] : pages' = [pages EXCEPT ![p] = Remove(@, i)]
           /\ order' = order
  <2>1. PICK i \in DOMAIN pages[p] : pages' = [pages EXCEPT ![p] = Remove(pages[p], i)]
    BY <1>2
  <2>2. /\ Remove(pages[p], i) \in Seq(Cells)
        /\ \A k \in DOMAIN Remove(pages[p], i) : \E j \in DOMAIN pages[p] : Remove(pages[p], i)[k] = pages[p][j]
    <3>1. pages[p] \in Seq(Cells)
      BY <1>1
    <3> QED
      BY <3>1, RemoveType
  <2>3. pages' \in [1 .. Pages -> Seq(Cells)]
    BY <1>1, <2>1, <2>2
  <2>4. ASSUME NEW q \in Used', NEW k \in DOMAIN pages'[q]
        PROVE  q \in Used /\ \E j \in DOMAIN pages[q] : pages'[q][k] = pages[q][j]
    BY <1>1, <1>2, <2>1, <2>2 DEF Used
  <2>5. Stored' \subseteq Stored
    BY <2>4 DEF Stored
  <2>6. order # << >> /\ p # order[Len(order)] => store' = store
    BY <1>1, <1>2, <2>1 DEF store
  <2> QED
    BY <1>1, <1>2, <2>3, <2>5, <2>6
<1>3. CASE \E i \in DOMAIN order :
             /\ order[i] = p
             /\ order' = Remove(order, i)
             /\ pages' = [pages EXCEPT ![p] = << >>]
  <2>1. PICK i \in DOMAIN order :
          order[i] = p /\ order' = Remove(order, i) /\ pages' = [pages EXCEPT ![p] = << >>]
    BY <1>3
  <2>2. /\ order' \in Seq(1 .. Pages) /\ Len(order') = Len(order) - 1
        /\ \A k \in DOMAIN order' : \E j \in DOMAIN order : order'[k] = order[j]
        /\ i # Len(order) => order' # << >> /\ order'[Len(order) - 1] = order[Len(order)]
    BY <1>1, <2>1, RemoveType
  <2>3. pages' \in [1 .. Pages -> Seq(Cells)]
    BY <1>1, <2>1
  <2>4. ASSUME NEW q \in Used', NEW k \in DOMAIN pages'[q]
        PROVE  q \in Used /\ \E j \in DOMAIN pages[q] : pages'[q][k] = pages[q][j]
    <3>1. q \in Used
      BY <2>2 DEF Used
    <3>2. q \in 1 .. Pages
      BY <3>1, PageTypes
    <3>3. q # p
      BY <1>1, <2>1, <2>4, <3>2
    <3> QED
      BY <1>1, <2>1, <2>4, <3>1, <3>2, <3>3
  <2>5. Stored' \subseteq Stored
    BY <2>4 DEF Stored
  <2>6. order # << >> /\ p # order[Len(order)] => store' = store
    <3> SUFFICES ASSUME order # << >>, p # order[Len(order)] PROVE store' = store
      OBVIOUS
    <3>1. order' # << >> /\ order'[Len(order')] = order[Len(order)]
      BY <2>1, <2>2
    <3>2. order[Len(order)] \in 1 .. Pages
      BY PageTypes
    <3> QED
      BY <1>1, <2>1, <3>1, <3>2 DEF store
  <2> QED
    BY <2>2, <2>3, <2>5, <2>6
<1> QED
  BY <1>2, <1>3 DEF Wipes

LEMMA CellType ==
  ASSUME TypeOK, NEW f \in Fields
  PROVE  Cell(f) \in Cells /\ Cell(f).id = f /\ Cell(f).val = map[f] /\ Decodes(Cell(f))
<1>1. Type[ver][f] \in Types /\ map[f] \in Values
  BY ConfigAssumption DEF TypeOK
<1> QED
  BY <1>1 DEF Cell, Cells, Decodes

(* A commit writes a cell to the newest page.                              *)
LEMMA AppendsStep ==
  ASSUME TypeOK, NEW f \in Fields, Appends(f), order' = order
  PROVE  /\ pages' \in [1 .. Pages -> Seq(Cells)]
         /\ store' = Append(store, Cell(f))
         /\ Len(store') = Len(store) + 1
<1>1. /\ order # << >> /\ store = pages[order[Len(order)]] /\ store \in Seq(Cells)
      /\ order[Len(order)] \in 1 .. Pages
      /\ pages' = [pages EXCEPT ![order[Len(order)]] = Append(store, Cell(f))]
  BY PageTypes DEF Appends
<1>2. Cell(f) \in Cells /\ pages \in [1 .. Pages -> Seq(Cells)]
  BY CellType DEF TypeOK
<1>3. pages' \in [1 .. Pages -> Seq(Cells)] /\ pages'[order[Len(order)]] = Append(store, Cell(f))
  BY <1>1, <1>2
<1>4. store' = Append(store, Cell(f))
  BY <1>1, <1>3 DEF store
<1> QED
  BY <1>1, <1>2, <1>3, <1>4

-----------------------------------------------------------------------------
(* Types                                                                   *)

(* Only a load and a commit have cells before them, only a set has a field *)
(* to apply.                                                               *)
LoopInv ==
  /\ pc # "apply" => setting = {}
  /\ walk <= Len(store)
  /\ walk > 0 => pc \in {"load", "halted", "walk"}

LEMMA VisitTypes ==
  ASSUME TypeOK, LoopInv, NEW cell \in Cells, NEW counts \in BOOLEAN, Visits(cell, counts)
  PROVE  /\ walk \in DOMAIN store /\ cell = store[walk]
         /\ cell.id \in Fields /\ cell.val \in Values
         /\ walk' \in Nat /\ walk' = walk - 1 /\ seen' \subseteq Known
         /\ counts => cell.id \in Known \ seen /\ seen' = seen \cup {cell.id}
         /\ ~counts => cell.id \notin Known \ seen /\ seen' = seen
<1>1. walk \in Nat /\ walk > 0 /\ cell = store[walk] /\ walk' = walk - 1
  BY DEF TypeOK, Visits
<1>2. walk \in DOMAIN store
  BY <1>1, PageTypes DEF TypeOK, LoopInv
<1>3. cell.id \in Fields /\ cell.val \in Values
  BY DEF Cells
<1>c. counts <=> cell.id \in Known \ seen
  BY DEF Visits, check_seen
<1>d. seen' = IF counts THEN seen \cup {cell.id} ELSE seen
  BY DEF Visits
<1>e. seen \subseteq Known
  BY DEF TypeOK
<1>4. CASE counts
  BY <1>1, <1>2, <1>3, <1>4, <1>c, <1>d, <1>e
<1>5. CASE ~counts
  BY <1>1, <1>2, <1>3, <1>5, <1>c, <1>d, <1>e
<1> QED
  BY <1>4, <1>5

(* A part is computed from values of fields.                               *)
LEMMA FromType ==
  ASSUME NEW p \in Parts, NEW m \in [Fields -> Values]
  PROVE  From(p, m) \in [Inputs[p] -> Values] /\ \A f \in Inputs[p] : From(p, m)[f] = m[f]
<1>1. Inputs[p] \subseteq Fields
  BY ConfigAssumption
<1> QED
  BY <1>1 DEF From

USE DEF Known, vars

LEMMA TypeInit == Init => TypeOK /\ LoopInv
<1> SUFFICES ASSUME Init PROVE TypeOK /\ LoopInv
  OBVIOUS
<1>1. Default \in [Fields -> Values]
  BY ConfigAssumption
<1>2. \A p \in Parts : parts[p] \in [Inputs[p] -> Values]
  BY <1>1, FromType DEF Init
<1>3. /\ pages \in [1 .. Pages -> Seq(Cells)] /\ order \in Seq(1 .. Pages)
      /\ page \in Seq(Cells) /\ store = << >>
  BY DEF Init, store
<1>4. may \in [Fields -> SUBSET (Cells \cup {Null})]
  BY DEF Init
<1> QED
  BY <1>1, <1>2, <1>3, <1>4 DEF Init, TypeOK, LoopInv

(* With no walk the pages may be whatever they are.                        *)
LEMMA NoWalk ==
  ASSUME TypeOK, LoopInv, walk = 0,
         pages' \in [1 .. Pages -> Seq(Cells)], order' \in Seq(1 .. Pages),
         UNCHANGED <<ver, map, parts, pc, setting, todo, page, walk, seen, dirty, may>>
  PROVE  TypeOK' /\ LoopInv'
<1>1. TypeOK'
  BY DEF TypeOK
<1>2. Len(store') \in Nat
  <2>1. IF order' = << >> THEN store' = << >>
        ELSE order'[Len(order')] \in 1 .. Pages /\ store' = pages'[order'[Len(order')]]
    BY SeqElements DEF store
  <2> QED
    BY <2>1
<1> QED
  BY <1>1, <1>2 DEF LoopInv

LEMMA TypeStep == TypeOK /\ LoopInv /\ [Next]_vars => TypeOK' /\ LoopInv'
<1> SUFFICES ASSUME TypeOK, LoopInv, [Next]_vars PROVE TypeOK' /\ LoopInv'
  OBVIOUS
<1>a. Default \in [Fields -> Values] /\ Keys \in [Versions -> SUBSET Fields]
  BY ConfigAssumption
<1>b. Known \subseteq Fields
  BY <1>a DEF TypeOK
<1>c. Len(store) \in Nat
  BY PageTypes
<1>d. UNCHANGED <<pages, order>> => store' = store
  BY DEF store
<1>1. CASE power_on
  <2>1. setting = {} /\ setting' = {} /\ seen' = {} /\ dirty' = {}
    BY <1>1 DEF power_on, StartsWalk, reset_seen, LoopInv
  <2>2. ver' \in Versions /\ pc' = "load" /\ walk' = Len(store)
    BY <1>1 DEF power_on, StartsWalk
  <2>3. UNCHANGED <<map, parts, setting, todo, pages, order, page, may>>
    BY <1>1 DEF power_on
  <2> QED
    BY <1>a, <1>c, <1>d, <2>1, <2>2, <2>3 DEF TypeOK, LoopInv
<1>2. CASE load_cell
  <2>1. PICK cell \in Cells, counts \in BOOLEAN :
          /\ Visits(cell, counts)
          /\ map' = IF counts /\ Decodes(cell) THEN [map EXCEPT ![cell.id] = cell.val] ELSE map
    BY <1>2 DEF load_cell
  <2>2. /\ cell.id \in Fields /\ cell.val \in Values
        /\ walk' \in Nat /\ walk' = walk - 1 /\ seen' \subseteq Known
    BY <2>1, VisitTypes
  <2>3. map' \in [Fields -> Values]
    BY <2>1, <2>2 DEF TypeOK
  <2>4. UNCHANGED <<ver, parts, pc, setting, todo, pages, order, page, dirty, may>> /\ pc = "load"
    BY <1>2 DEF load_cell
  <2> QED
    BY <1>c, <1>d, <2>2, <2>3, <2>4 DEF TypeOK, LoopInv
<1>3. CASE load_done
  <2>1. \A p \in Parts : parts'[p] \in [Inputs[p] -> Values]
    BY <1>3, <1>a, FromType DEF load_done, apply_all, TypeOK
  <2>2. DOMAIN parts' = Parts
    BY <1>3 DEF load_done, apply_all
  <2> QED
    BY <1>3, <1>d, <2>1, <2>2 DEF load_done, TypeOK, LoopInv
<1>4. CASE load_fails
  BY <1>4, <1>d DEF load_fails, TypeOK, LoopInv
<1>5. CASE on_cmd_set
  <2>1. PICK f \in Known, val \in Values : map' = [map EXCEPT ![f] = val] /\ setting' = {f}
    BY <1>5 DEF on_cmd_set
  <2>2. map' \in [Fields -> Values] /\ setting' \subseteq Known
    BY <1>b, <2>1 DEF TypeOK
  <2> QED
    BY <1>5, <1>d, <2>2 DEF on_cmd_set, TypeOK, LoopInv
<1>6. CASE apply
  <2>1. PICK f \in setting :
          /\ todo < Len(Writes[f])
          /\ parts' = [parts EXCEPT ![Writes[f][todo + 1]] = From(Writes[f][todo + 1], map)]
    BY <1>6 DEF apply
  <2>2. Writes[f] \in Seq(Parts)
    BY <1>b, ConfigAssumption DEF TypeOK
  <2>3. Writes[f][todo + 1] \in Parts
    BY <2>1, <2>2 DEF TypeOK
  <2>4. \A p \in Parts : parts'[p] \in [Inputs[p] -> Values]
    BY <2>1, <2>3, FromType DEF TypeOK
  <2>5. DOMAIN parts' = Parts
    BY <2>1 DEF TypeOK
  <2> QED
    BY <1>6, <1>d, <2>4, <2>5 DEF apply, TypeOK, LoopInv
<1>7. CASE set_done
  BY <1>7, <1>d DEF set_done, TypeOK, LoopInv
<1>8. CASE store_cfg
  <2>1. may' \in [Fields -> SUBSET (Cells \cup {Null})]
    BY <1>8, CellType DEF store_cfg, TypeOK
  <2>2. /\ UNCHANGED <<ver, map, parts, setting, todo, pages, order, page>> /\ pc = "idle"
        /\ pc' = "walk" /\ walk' = Len(store) /\ seen' = {} /\ dirty' = {}
    BY <1>8 DEF store_cfg, StartsWalk, reset_seen
  <2> QED
    BY <1>c, <1>d, <2>1, <2>2 DEF TypeOK, LoopInv
<1>9. CASE value_changed
  <2>1. PICK cell \in Cells, counts \in BOOLEAN :
          /\ Visits(cell, counts)
          /\ dirty' = IF counts /\ Decodes(cell) /\ cell.val # map[cell.id]
                     THEN dirty \cup {cell.id} ELSE dirty
    BY <1>9 DEF value_changed
  <2>2. /\ walk' \in Nat /\ walk' = walk - 1 /\ seen' \subseteq Known
        /\ counts => cell.id \in Known
    BY <2>1, VisitTypes
  <2>3. dirty' \subseteq Known
    BY <2>1, <2>2 DEF TypeOK
  <2>4. UNCHANGED <<ver, map, parts, pc, setting, todo, pages, order, page, may>> /\ pc = "walk"
    BY <1>9 DEF value_changed
  <2> QED
    BY <1>c, <1>d, <2>2, <2>3, <2>4 DEF TypeOK, LoopInv
<1>10. CASE walk_done
  BY <1>10, <1>d DEF walk_done, TypeOK, LoopInv
<1>11. CASE write_changed
  <2>1. PICK f \in dirty : Appends(f) /\ dirty' = dirty \ {f}
    BY <1>11 DEF write_changed
  <2>2. UNCHANGED <<ver, map, parts, pc, setting, todo, order, page, walk, seen, may>> /\ pc = "write"
    BY <1>11 DEF write_changed
  <2>3. pages' \in [1 .. Pages -> Seq(Cells)] /\ Len(store') = Len(store) + 1
    BY <1>b, <2>1, <2>2, AppendsStep DEF TypeOK
  <2> QED
    BY <1>c, <2>1, <2>2, <2>3 DEF TypeOK, LoopInv
<1>12. CASE write_unseen
  <2>1. PICK f \in Fields : Takes(f) /\ Appends(f) /\ seen' = seen \cup {f}
    BY <1>12 DEF write_unseen
  <2>2. UNCHANGED <<ver, map, parts, pc, setting, todo, order, page, walk, dirty, may>> /\ pc = "write"
    BY <1>12 DEF write_unseen
  <2>3. pages' \in [1 .. Pages -> Seq(Cells)] /\ Len(store') = Len(store) + 1
    BY <2>1, <2>2, AppendsStep
  <2> QED
    BY <1>c, <2>1, <2>2, <2>3 DEF Takes, Unseen, TypeOK, LoopInv
<1>13. CASE next_page
  BY <1>13, <1>d DEF next_page, reset_seen, TypeOK, LoopInv
<1>14. CASE dump_unseen
  <2>1. PICK f \in Fields : Takes(f) /\ page' = Append(page, Cell(f)) /\ seen' = seen \cup {f}
    BY <1>14 DEF dump_unseen
  <2>2. page' \in Seq(Cells)
    BY <2>1, CellType DEF TypeOK
  <2> QED
    BY <1>14, <1>d, <2>1, <2>2 DEF dump_unseen, Takes, Unseen, TypeOK, LoopInv
<1>15. CASE store_done
  <2>1. may' \in [Fields -> SUBSET (Cells \cup {Null})]
    <3>1. \A f \in Fields :
            (IF f \in Known THEN {Cell(f)} \cup (IF Dumped THEN {} ELSE {c \in may[f] : Foreign(c)})
             ELSE IF Dumped THEN {Null} ELSE may[f]) \in SUBSET (Cells \cup {Null})
      BY CellType DEF TypeOK
    <3> QED
      BY <1>15, <3>1 DEF store_done
  <2>2. walk = 0 /\ pc # "apply" /\ setting = {}
    BY <1>15 DEF store_done, Written, Dumped, TypeOK, LoopInv
  <2>3. pages' \in [1 .. Pages -> Seq(Cells)] /\ order' \in Seq(1 .. Pages) /\ page' \in Seq(Cells)
    <3>1. /\ pages \in [1 .. Pages -> Seq(Cells)] /\ order \in Seq(1 .. Pages) /\ page \in Seq(Cells)
          /\ NextPage \in 1 .. Pages
      BY PageTypes DEF TypeOK
    <3>2. Append(order, NextPage) \in Seq(1 .. Pages)
      BY <3>1, AppendElements
    <3> QED
      <4>1. CASE Dumped
        BY <1>15, <3>1, <3>2, <4>1 DEF store_done
      <4>2. CASE ~Dumped
        <5>1. pages' = pages /\ order' = order /\ page' = << >>
          BY <1>15, <4>2 DEF store_done
        <5> QED
          BY <3>1, <5>1
      <4> QED
        BY <4>1, <4>2
  <2>4. UNCHANGED <<ver, map, parts, setting, todo, walk, seen, dirty>> /\ pc' = "idle"
    BY <1>15 DEF store_done
  <2>5. TypeOK'
    BY <2>1, <2>3, <2>4 DEF TypeOK
  <2>6. Len(store') \in Nat
    <3>1. IF order' = << >> THEN store' = << >> ELSE order'[Len(order')] \in 1 .. Pages /\ store' = pages'[order'[Len(order')]]
      BY <2>3, SeqElements DEF store
    <3> QED
      BY <2>3, <3>1
  <2> QED
    BY <2>2, <2>4, <2>5, <2>6 DEF LoopInv
<1>16. CASE store_fails
  BY <1>16, <1>c, <1>d DEF store_fails, TypeOK, LoopInv
<1>17. CASE clear_cfg
  <2>1. may' \in [Fields -> SUBSET (Cells \cup {Null})]
    <3>1. Stored \subseteq Cells
      BY PageTypes DEF Stored, TypeOK
    <3> QED
      BY <1>17, <3>1 DEF clear_cfg, TypeOK
  <2> QED
    BY <1>17, <1>d, <2>1 DEF clear_cfg, TypeOK, LoopInv
<1>18. CASE clear_range
  <2>1. walk = 0 /\ pc = "clear"
    BY <1>18 DEF clear_range, TypeOK, LoopInv
  <2>2. PICK p \in Used : Wipes(p)
    BY <1>18 DEF clear_range
  <2>3. pages' \in [1 .. Pages -> Seq(Cells)] /\ order' \in Seq(1 .. Pages)
    BY <2>2, PageTypes, WipesStep
  <2>4. UNCHANGED <<ver, map, parts, pc, setting, todo, page, walk, seen, dirty, may>>
    BY <1>18 DEF clear_range
  <2> QED
    BY <2>1, <2>3, <2>4, NoWalk
<1>19. CASE clear_done
  <2>1. may' \in [Fields -> SUBSET (Cells \cup {Null})]
    BY <1>19 DEF clear_done
  <2> QED
    BY <1>19, <1>d, <2>1 DEF clear_done, TypeOK, LoopInv
<1>20. CASE clear_fails
  BY <1>20, <1>d DEF clear_fails, TypeOK, LoopInv
<1>21. CASE power_loss
  <2>1. \A p \in Parts : parts'[p] \in [Inputs[p] -> Values]
    BY <1>21, <1>a, FromType DEF power_loss
  <2> QED
    BY <1>21, <1>a, <1>c, <1>d, <2>1 DEF power_loss, TypeOK, LoopInv
<1>22. CASE UNCHANGED vars
  BY <1>22, <1>d DEF TypeOK, LoopInv
<1>23. CASE clear_page
  <2>1. walk = 0 /\ pc = "wipe"
    BY <1>23 DEF clear_page, TypeOK, LoopInv
  <2>2. pages' \in [1 .. Pages -> Seq(Cells)] /\ order' \in Seq(1 .. Pages)
    BY <1>23, PageTypes, WipesStep DEF clear_page
  <2>3. UNCHANGED <<ver, map, parts, pc, setting, todo, page, walk, seen, dirty, may>>
    BY <1>23 DEF clear_page
  <2> QED
    BY <2>1, <2>2, <2>3, NoWalk
<1>24. CASE page_wiped
  BY <1>24, <1>d DEF page_wiped, TypeOK, LoopInv
<1> QED
  BY <1>1, <1>2, <1>3, <1>4, <1>5, <1>6, <1>7, <1>8, <1>9, <1>10, <1>11, <1>12, <1>13, <1>14,
     <1>15, <1>16, <1>17, <1>18, <1>19, <1>20, <1>21, <1>22,
     <1>23, <1>24 DEF Next, boot, command

-----------------------------------------------------------------------------
(* Applied                                                                 *)

OneSet == \A f, g \in setting : f = g

LEMMA AppliedStep ==
  TypeOK /\ LoopInv /\ OneSet /\ Applied /\ [Next]_vars => OneSet' /\ Applied'
<1> SUFFICES ASSUME TypeOK, LoopInv, OneSet, Applied, [Next]_vars
             PROVE  OneSet' /\ Applied'
  OBVIOUS
<1>a. Known \subseteq Fields /\ Keys \in [Versions -> SUBSET Fields]
  BY ConfigAssumption DEF TypeOK
<1> DEFINE Commanded == {"idle", "apply", "walk", "write", "wipe", "dump", "clear"}
<1> DEFINE Behind(p, f) == parts[p][f] # map[f]
<1>b. ASSUME pc \in Commanded, NEW p \in Parts, NEW f \in Inputs[p] \cap Known, Behind(p, f)
      PROVE  f \in setting /\ Pending(p)
  BY <1>b DEF Applied
<1>1. CASE UNCHANGED <<ver, map, parts, setting, todo>> /\ (pc' \in Commanded => pc \in Commanded)
  BY <1>1 DEF OneSet, Applied, Pending
<1>2. CASE power_on
  BY <1>2 DEF power_on, StartsWalk, LoopInv, OneSet, Applied
<1>3. CASE load_cell
  BY <1>3 DEF load_cell, OneSet, Applied
<1>4. CASE load_done
  <2>1. ASSUME NEW p \in Parts, NEW f \in Inputs[p] \cap Known
        PROVE  parts'[p][f] = map[f]
    <3>1. \E i \in DOMAIN Writes[f] : Writes[f][i] = p
      <4>1. \E i \in 1 .. Len(Writes[f]) : Writes[f][i] = p
        BY <1>a, <2>1, ConfigAssumption
      <4>2. Writes[f] \in Seq(Parts)
        BY <1>a, <2>1, ConfigAssumption
      <4> QED
        BY <4>1, <4>2
    <3>2. parts'[p] = From(p, map)
      BY <1>4, <2>1, <3>1 DEF load_done, apply_all
    <3> QED
      BY <2>1, <3>2, FromType DEF TypeOK
  <2>2. UNCHANGED <<ver, map, setting>>
    BY <1>4 DEF load_done
  <2> QED
    BY <2>1, <2>2 DEF OneSet, Applied
<1>5. CASE on_cmd_set
  <2>1. PICK f \in Known, val \in Values : map' = [map EXCEPT ![f] = val] /\ setting' = {f}
    BY <1>5 DEF on_cmd_set
  <2>2. UNCHANGED <<ver, parts>> /\ pc = "idle" /\ setting = {} /\ todo' = 0
    BY <1>5 DEF on_cmd_set, LoopInv
  <2>3. ASSUME NEW p \in Parts, NEW g \in Inputs[p] \cap Known, parts'[p][g] # map'[g]
        PROVE  g \in setting' /\ Pending(p)'
    <3>1. parts[p][g] = map[g]
      BY <1>b, <2>2, <2>3
    <3>2. g = f
      BY <1>a, <2>1, <2>2, <2>3, <3>1 DEF TypeOK
    <3>3. \E i \in 1 .. Len(Writes[f]) : Writes[f][i] = p
      BY <1>a, <2>3, <3>2, ConfigAssumption
    <3>4. \E i \in todo' + 1 .. Len(Writes[f]) : Writes[f][i] = p
      BY <2>2, <3>3
    <3> QED
      BY <2>1, <3>2, <3>4 DEF Pending
  <2>4. Known' = Known
    BY <2>2
  <2> QED
    BY <2>1, <2>3, <2>4 DEF OneSet, Applied
<1>6. CASE apply
  <2>1. PICK f \in setting :
          /\ todo < Len(Writes[f])
          /\ parts' = [parts EXCEPT ![Writes[f][todo + 1]] = From(Writes[f][todo + 1], map)]
    BY <1>6 DEF apply
  <2>2. UNCHANGED <<ver, map, pc, setting>> /\ pc = "apply" /\ todo' = todo + 1
    BY <1>6 DEF apply
  <2>3. Writes[f] \in Seq(Parts) /\ Writes[f][todo + 1] \in Parts /\ setting = {f}
    <3>1. Writes[f] \in Seq(Parts)
      BY <1>a, ConfigAssumption DEF TypeOK
    <3> QED
      BY <2>1, <3>1 DEF TypeOK, OneSet
  <2>4. ASSUME NEW p \in Parts, NEW g \in Inputs[p] \cap Known, parts'[p][g] # map'[g]
        PROVE  g \in setting' /\ Pending(p)'
    <3>1. p # Writes[f][todo + 1]
      <4> SUFFICES ASSUME p = Writes[f][todo + 1] PROVE FALSE
        OBVIOUS
      <4>1. parts'[p] = From(p, map)
        BY <2>1, <2>4 DEF TypeOK
      <4> QED
        BY <2>2, <2>4, <4>1, FromType DEF TypeOK
    <3>2. parts'[p] = parts[p]
      BY <2>1, <3>1 DEF TypeOK
    <3>3. g \in setting /\ Pending(p)
      BY <1>b, <2>2, <2>4, <3>2
    <3>4. PICK i \in todo + 1 .. Len(Writes[f]) : Writes[f][i] = p
      BY <2>3, <3>3 DEF Pending
    <3>5. i \in todo' + 1 .. Len(Writes[f])
      BY <2>2, <2>3, <3>1, <3>4 DEF TypeOK
    <3> QED
      BY <2>2, <2>3, <3>3, <3>4, <3>5 DEF Pending
  <2>5. Known' = Known
    BY <2>2
  <2> QED
    BY <2>2, <2>4, <2>5 DEF OneSet, Applied
<1>7. CASE set_done
  <2>1. PICK f \in setting : todo = Len(Writes[f])
    BY <1>7 DEF set_done
  <2>2. setting = {f} /\ pc = "apply" /\ setting' = {} /\ UNCHANGED <<ver, map, parts>>
    BY <1>7, <2>1 DEF set_done, OneSet
  <2>3. \A p \in Parts : ~Pending(p)
    BY <2>1, <2>2 DEF Pending, TypeOK
  <2>4. \A p \in Parts : \A g \in Inputs[p] \cap Known : parts[p][g] = map[g]
    BY <1>b, <2>2, <2>3
  <2>5. Known' = Known
    BY <2>2
  <2> QED
    BY <2>2, <2>4, <2>5 DEF OneSet, Applied
<1>8. CASE power_loss
  BY <1>8 DEF power_loss, OneSet, Applied
<1>9. CASE UNCHANGED vars
  BY <1>1, <1>9
<1> QED
  <2>1. CASE load_fails \/ store_cfg \/ value_changed \/ walk_done \/ write_changed \/ write_unseen
    BY <1>1, <2>1 DEF load_fails, store_cfg, StartsWalk, value_changed, walk_done,
         write_changed, write_unseen
  <2>2. CASE next_page \/ clear_page \/ page_wiped \/ dump_unseen \/ store_done \/ store_fails
    BY <1>1, <2>2 DEF next_page, clear_page, page_wiped, dump_unseen, store_done, store_fails, Written, Dumped
  <2>3. CASE clear_cfg \/ clear_range \/ clear_done \/ clear_fails
    BY <1>1, <2>3 DEF clear_cfg, clear_range, clear_done, clear_fails
  <2> QED
    BY <1>2, <1>3, <1>4, <1>5, <1>6, <1>7, <1>8, <1>9, <2>1, <2>2, <2>3 DEF Next, boot, command

-----------------------------------------------------------------------------
(* The stored fields                                                       *)

(* Whatever a load finds now is what some commit or clear has left.        *)
StoredInv == \A f \in Fields : \A c : Finds(store, f, c) => c \in may[f]

(* The fields not seen have no cell among those the walk has passed.       *)
WalkedInv ==
  pc \in {"load", "walk"} =>
    \A f \in Known \ seen : \A i \in DOMAIN store : i > walk => store[i].id # f

LoadInv ==
  pc = "load" =>
    \A f \in Known :
      IF f \in seen THEN \E c : Finds(store, f, c) /\ map[f] = Loaded(f, c)
      ELSE map[f] = Default[f]

(* A commit has put right what it has seen and not found to be changed,    *)
(* but for the cells it cannot decode.                                     *)
CommitInv ==
  /\ pc \in {"walk", "write", "wipe", "dump"} => \A f \in Known : Cell(f) \in may[f]
  /\ pc \in {"walk", "write"} =>
       \A f \in seen \ dirty : \A c : Finds(store, f, c) => c = Cell(f) \/ Foreign(c)

DumpInv ==
  /\ pc = "wipe" => seen = {}
  /\ pc = "dump" =>
       /\ \A f \in seen : \A c : Finds(page, f, c) => c = Cell(f)
       /\ \A f \in Fields \ seen : NoCell(page, f)

ClearInv ==
  pc = "clear" =>
    /\ \A c \in Stored : c \in may[c.id]
    /\ \A f \in Fields : Null \in may[f]

OffInv == pc = "off" => map = Default

StoreInv ==
  StoredInv /\ WalkedInv /\ LoadInv /\ CommitInv /\ DumpInv /\ ClearInv /\ OffInv

LEMMA StoreInit == Init => StoreInv
<1> SUFFICES ASSUME Init PROVE StoreInv
  OBVIOUS
<1>1. store = << >>
  BY DEF Init, store
<1>2. \A f \in Fields : \A c : Finds(store, f, c) => c = Null
  BY <1>1 DEF Finds
<1>3. pc = "off" /\ map = Default /\ \A f \in Fields : may[f] = {Null}
  BY DEF Init
<1> QED
  BY <1>2, <1>3 DEF StoreInv, StoredInv, WalkedInv, LoadInv, CommitInv, DumpInv, ClearInv, OffInv

(* The cells found before the cell the walk has come to are of others.     *)
LEMMA WalkStep ==
  ASSUME TypeOK, LoopInv, WalkedInv, pc \in {"load", "walk"}, UNCHANGED <<ver, pages, order, pc>>,
         NEW cell \in Cells, NEW counts \in BOOLEAN, Visits(cell, counts)
  PROVE  /\ WalkedInv' /\ store' = store
         /\ counts => /\ Finds(store, cell.id, cell)
                      /\ \A c : Finds(store, cell.id, c) => c = cell
<1>1. /\ walk \in DOMAIN store /\ cell = store[walk] /\ cell.id \in Fields /\ walk' = walk - 1
      /\ counts => cell.id \in Known \ seen /\ seen' = seen \cup {cell.id}
      /\ ~counts => cell.id \notin Known \ seen /\ seen' = seen
  BY VisitTypes
<1>2. store' = store
  BY DEF store
<1>3. store \in Seq(Cells) /\ DOMAIN store = 1 .. Len(store) /\ Len(store) \in Nat
  BY PageTypes
<1>4. WalkedInv'
  <2> SUFFICES ASSUME NEW f \in Known \ seen', NEW i \in DOMAIN store, i > walk'
               PROVE  store[i].id # f
    BY <1>2 DEF WalkedInv
  <2>1. CASE i = walk
    BY <1>1, <2>1
  <2>2. CASE i # walk
    <3>1. i > walk /\ f \in Known \ seen
      BY <1>1, <1>3, <2>2 DEF TypeOK
    <3> QED
      BY <3>1 DEF WalkedInv
  <2> QED
    BY <2>1, <2>2
<1>5. ASSUME counts
      PROVE  Finds(store, cell.id, cell) /\ \A c : Finds(store, cell.id, c) => c = cell
  <2>1. \A j \in DOMAIN store : j > walk => store[j].id # cell.id
    BY <1>1, <1>5 DEF WalkedInv
  <2> QED
    BY <1>1, <1>3, <2>1, VisitFinds
<1> QED
  BY <1>2, <1>4, <1>5

(* What a commit writes is found, and nothing else changes.                *)
LEMMA WriteStep ==
  ASSUME TypeOK, StoreInv, pc = "write", NEW f \in Known, Appends(f),
         UNCHANGED <<ver, map, order, pc, may>>,
         seen' \ dirty' \subseteq (seen \ dirty) \cup {f}
  PROVE  StoreInv'
<1>1. Known \subseteq Fields /\ Known' = Known
  BY ConfigAssumption DEF TypeOK
<1>2. store \in Seq(Cells) /\ Cell(f) \in Cells /\ Cell(f).id = f /\ store' = Append(store, Cell(f))
  BY <1>1, CellType, PageTypes, AppendsStep
<1>3. /\ \A c : Finds(store', f, c) => c = Cell(f)
      /\ \A g \in Fields \ {f} : \A c : Finds(store', g, c) => Finds(store, g, c)
  <2> DEFINE d == Cell(f)
  <2>1. d \in Cells /\ d.id = f /\ store' = Append(store, d)
    BY <1>2
  <2> HIDE DEF d
  <2>2. /\ \A c : Finds(Append(store, d), d.id, c) => c = d
        /\ \A g \in Fields \ {d.id} : \A c : Finds(Append(store, d), g, c) => Finds(store, g, c)
    BY <1>2, <2>1, AppendFinds
  <2> QED
    BY <2>1, <2>2 DEF d
<1>4. Cell(f) \in may[f]
  BY DEF StoreInv, CommitInv
<1>5. StoredInv'
  BY <1>1, <1>3, <1>4 DEF StoreInv, StoredInv
<1>6. seen \ dirty \subseteq Fields
  BY <1>1 DEF TypeOK
<1>7. \A g : Cell(g)' = Cell(g) /\ \A c : Foreign(c)' = Foreign(c)
  BY DEF Cell, Foreign, Decodes
<1>8. CommitInv'
  <2>1. \A g \in Known : Cell(g) \in may[g]
    BY DEF StoreInv, CommitInv
  <2>2. ASSUME NEW g \in seen' \ dirty', NEW c, Finds(store', g, c) PROVE c = Cell(g) \/ Foreign(c)
    <3>1. CASE g = f
      BY <1>3, <2>2, <3>1
    <3>2. CASE g # f
      <4>1. g \in seen \ dirty /\ Finds(store, g, c)
        BY <1>3, <1>6, <2>2, <3>2
      <4> QED
        BY <4>1 DEF StoreInv, CommitInv
    <3> QED
      BY <3>1, <3>2
  <2> QED
    BY <1>1, <1>7, <2>1, <2>2 DEF CommitInv
<1> QED
  BY <1>5, <1>8 DEF StoreInv, WalkedInv, LoadInv, DumpInv, ClearInv, OffInv

LEMMA StoreStep ==
  TypeOK /\ LoopInv /\ StoreInv /\ [Next]_vars => StoreInv'
<1> SUFFICES ASSUME TypeOK, LoopInv, StoreInv, [Next]_vars PROVE StoreInv'
  OBVIOUS
<1> USE DEF StoreInv
<1>a. Known \subseteq Fields /\ Keys \in [Versions -> SUBSET Fields]
  BY ConfigAssumption DEF TypeOK
<1>b. store \in Seq(Cells) /\ Len(store) \in Nat /\ DOMAIN store = 1 .. Len(store)
  BY PageTypes
<1>c. UNCHANGED <<pages, order>> => store' = store /\ Stored' = Stored
  BY DEF store, Stored, Used
<1>d. UNCHANGED <<ver, map>> =>
        /\ Known' = Known
        /\ \A f : Cell(f)' = Cell(f)
        /\ \A c : Foreign(c)' = Foreign(c)
        /\ \A f, c : Loaded(f, c)' = Loaded(f, c)
  BY DEF Cell, Foreign, Loaded, Decodes
(* Nothing is stored, and neither a walk nor a dump or a clear is left.    *)
<1>1. CASE UNCHANGED <<pages, order, may>> /\ pc' \in {"idle", "apply", "halted"}
  BY <1>1, <1>c DEF StoredInv, WalkedInv, LoadInv, CommitInv, DumpInv, ClearInv, OffInv
<1>2. CASE power_loss
  BY <1>2, <1>c DEF power_loss, StoredInv, WalkedInv, LoadInv, CommitInv, DumpInv, ClearInv, OffInv
<1>3. CASE power_on
  <2>1. UNCHANGED <<pages, order, may, map>> /\ map = Default /\ pc' = "load"
        /\ seen' = {} /\ walk' = Len(store)
    BY <1>3 DEF power_on, StartsWalk, reset_seen, OffInv
  <2>2. WalkedInv'
    BY <1>b, <1>c, <2>1 DEF WalkedInv
  <2>3. LoadInv'
    BY <2>1 DEF LoadInv
  <2> QED
    BY <1>c, <2>1, <2>2, <2>3 DEF StoredInv, CommitInv, DumpInv, ClearInv, OffInv
<1>4. CASE load_cell
  <2>1. PICK cell \in Cells, counts \in BOOLEAN :
          /\ Visits(cell, counts)
          /\ map' = IF counts /\ Decodes(cell) THEN [map EXCEPT ![cell.id] = cell.val] ELSE map
    BY <1>4 DEF load_cell
  <2>2. UNCHANGED <<ver, pages, order, may, pc>> /\ pc = "load" /\ Known' = Known
    BY <1>4 DEF load_cell
  <2>3. /\ cell.id \in Fields
        /\ counts => cell.id \in Known \ seen /\ seen' = seen \cup {cell.id}
        /\ ~counts => cell.id \notin Known \ seen /\ seen' = seen
    BY <2>1, VisitTypes
  <2>4. /\ WalkedInv' /\ store' = store
        /\ counts => Finds(store, cell.id, cell)
    BY <2>1, <2>2, WalkStep
  <2>5. \A f, c : Loaded(f, c)' = Loaded(f, c)
    BY <2>2 DEF Loaded, Decodes
  <2>6. LoadInv'
    <3>1. CASE ~counts
      <4>1. map' = map
        BY <2>1, <3>1
      <4> QED
        BY <2>2, <2>3, <2>4, <2>5, <3>1, <4>1 DEF LoadInv
    <3>2. CASE counts
      <4>1. /\ \A f \in Fields \ {cell.id} : map'[f] = map[f]
            /\ Decodes(cell) => map'[cell.id] = cell.val
            /\ ~Decodes(cell) => map'[cell.id] = map[cell.id]
        BY <2>1, <2>3, <3>2 DEF TypeOK
      <4>2. map[cell.id] = Default[cell.id]
        BY <2>2, <2>3, <3>2 DEF LoadInv
      <4>3. cell # Null
        <5>1. cell \in Cells
          OBVIOUS
        <5> QED
          BY <5>1, NullAssumption
      <4>4. map'[cell.id] = Loaded(cell.id, cell)
        BY <4>1, <4>2, <4>3 DEF Loaded
      <4>5. ASSUME NEW f \in Known
            PROVE  IF f \in seen' THEN \E c : Finds(store, f, c) /\ map'[f] = Loaded(f, c)
                   ELSE map'[f] = Default[f]
        <5>1. CASE f = cell.id
          BY <2>3, <2>4, <3>2, <4>4, <5>1
        <5>2. CASE f # cell.id
          BY <1>a, <2>2, <2>3, <3>2, <4>1, <5>2 DEF LoadInv
        <5> QED
          BY <5>1, <5>2
      <4> QED
        BY <2>2, <2>4, <2>5, <4>5 DEF LoadInv
    <3> QED
      BY <3>1, <3>2
  <2> QED
    BY <2>2, <2>4, <2>6 DEF StoredInv, CommitInv, DumpInv, ClearInv, OffInv
<1>5. CASE store_cfg
  <2>1. /\ UNCHANGED <<ver, pages, order, map>> /\ pc' = "walk" /\ seen' = {} /\ walk' = Len(store)
        /\ \A f \in Fields : may[f] \subseteq may'[f]
        /\ \A f \in Known : Cell(f) \in may'[f]
    BY <1>5, <1>a DEF store_cfg, StartsWalk, reset_seen
  <2>2. WalkedInv'
    BY <1>b, <1>c, <2>1 DEF WalkedInv
  <2>3. StoredInv'
    BY <1>c, <2>1 DEF StoredInv
  <2>4. CommitInv'
    BY <1>d, <2>1 DEF CommitInv
  <2> QED
    BY <2>1, <2>2, <2>3, <2>4 DEF LoadInv, DumpInv, ClearInv, OffInv
<1>6. CASE value_changed
  <2>1. PICK cell \in Cells, counts \in BOOLEAN :
          /\ Visits(cell, counts)
          /\ dirty' = IF counts /\ Decodes(cell) /\ cell.val # map[cell.id]
                     THEN dirty \cup {cell.id} ELSE dirty
    BY <1>6 DEF value_changed
  <2>2. UNCHANGED <<ver, pages, order, map, may, pc>> /\ pc = "walk"
    BY <1>6 DEF value_changed
  <2>3. /\ walk \in DOMAIN store /\ cell = store[walk] /\ cell.id \in Fields
        /\ counts => cell.id \in Known \ seen /\ seen' = seen \cup {cell.id}
        /\ ~counts => cell.id \notin Known \ seen /\ seen' = seen
    BY <2>1, VisitTypes
  <2>4. /\ WalkedInv' /\ store' = store
        /\ counts => \A c : Finds(store, cell.id, c) => c = cell
    BY <2>1, <2>2, WalkStep
  <2>5. ASSUME NEW f \in seen' \ dirty', NEW c, Finds(store, f, c) PROVE c = Cell(f) \/ Foreign(c)
    <3>1. CASE f \in seen \ dirty
      BY <2>2, <2>5, <3>1 DEF CommitInv
    <3>2. CASE f \notin seen \ dirty
      <4>1. counts /\ f = cell.id /\ (~Decodes(cell) \/ cell.val = map[cell.id])
        BY <2>1, <2>3, <2>5, <3>2
      <4>2. c = cell /\ cell # Null
        BY <2>4, <2>5, <4>1, NullAssumption
      <4>3. CASE ~Decodes(cell)
        BY <4>2, <4>3 DEF Foreign
      <4>4. CASE Decodes(cell) /\ cell.val = map[cell.id]
        <5>1. cell = [id |-> cell.id, type |-> cell.type, val |-> cell.val]
          BY DEF Cells
        <5> QED
          BY <4>1, <4>2, <4>4, <5>1 DEF Decodes, Cell
      <4> QED
        BY <4>1, <4>3, <4>4
    <3> QED
      BY <3>1, <3>2
  <2>6. CommitInv'
    BY <1>d, <2>2, <2>4, <2>5 DEF CommitInv
  <2> QED
    BY <2>2, <2>4, <2>6 DEF StoredInv, LoadInv, DumpInv, ClearInv, OffInv
<1>7. CASE walk_done
  <2>1. UNCHANGED <<ver, map, pages, order, may, seen, dirty>> /\ pc = "walk" /\ pc' = "write"
    BY <1>7 DEF walk_done
  <2>2. CommitInv'
    BY <1>c, <1>d, <2>1 DEF CommitInv
  <2> QED
    BY <1>c, <2>1, <2>2 DEF StoredInv, WalkedInv, LoadInv, DumpInv, ClearInv, OffInv
<1>8. CASE write_changed
  <2>1. PICK f \in dirty : Appends(f) /\ dirty' = dirty \ {f}
    BY <1>8 DEF write_changed
  <2>2. f \in Known /\ pc = "write" /\ UNCHANGED <<ver, map, order, pc, may, seen>>
    BY <1>8 DEF write_changed, TypeOK
  <2> QED
    BY <2>1, <2>2, WriteStep
<1>9. CASE write_unseen
  <2>1. PICK f \in Fields : Takes(f) /\ Appends(f) /\ seen' = seen \cup {f}
    BY <1>9 DEF write_unseen
  <2>2. f \in Known /\ pc = "write" /\ UNCHANGED <<ver, map, order, pc, may, dirty>>
    BY <1>9, <2>1 DEF write_unseen, Takes, Unseen
  <2> QED
    BY <2>1, <2>2, WriteStep
<1>10. CASE next_page
  <2>1. UNCHANGED <<ver, pages, order, map, may>> /\ pc = "write" /\ pc' = "wipe" /\ seen' = {}
    BY <1>10 DEF next_page, reset_seen
  <2>2. CommitInv'
    BY <1>d, <2>1 DEF CommitInv
  <2> QED
    BY <1>c, <2>1, <2>2 DEF StoredInv, WalkedInv, LoadInv, DumpInv, ClearInv, OffInv
<1>11. CASE dump_unseen
  <2>1. PICK f \in Fields : Takes(f) /\ page' = Append(page, Cell(f)) /\ seen' = seen \cup {f}
    BY <1>11 DEF dump_unseen
  <2>2. UNCHANGED <<ver, pages, order, map, may, pc>> /\ pc = "dump"
    BY <1>11 DEF dump_unseen
  <2> DEFINE d == Cell(f)
  <2>3. page \in Seq(Cells) /\ d \in Cells /\ d.id = f /\ page' = Append(page, d)
    BY <2>1, CellType DEF TypeOK
  <2> HIDE DEF d
  <2>4. /\ \A c : Finds(page', f, c) => c = d
        /\ \A g \in Fields \ {f} : \A c : Finds(page', g, c) => Finds(page, g, c)
        /\ \A g \in Fields \ {f} : NoCell(page, g) => NoCell(page', g)
    BY <2>3, AppendFinds
  <2>5. seen' \subseteq Fields
    BY <1>a, <2>1 DEF TypeOK
  <2>6. ASSUME NEW g \in seen', NEW c, Finds(page', g, c) PROVE c = Cell(g)
    <3>1. CASE g = f
      BY <2>4, <2>6, <3>1 DEF d
    <3>2. CASE g # f
      BY <2>1, <2>2, <2>4, <2>5, <2>6, <3>2 DEF DumpInv
    <3> QED
      BY <3>1, <3>2
  <2>7. \A g \in Fields \ seen' : NoCell(page', g)
    BY <2>1, <2>2, <2>4 DEF DumpInv
  <2>8. DumpInv'
    BY <1>d, <2>2, <2>6, <2>7 DEF DumpInv
  <2>9. CommitInv'
    BY <1>d, <2>2 DEF CommitInv
  <2> QED
    BY <1>c, <2>2, <2>8, <2>9 DEF StoredInv, WalkedInv, LoadInv, ClearInv, OffInv
<1>12. CASE store_done
  <2>1. pc' = "idle" /\ UNCHANGED <<ver, map>>
    BY <1>12 DEF store_done
  <2>2. ASSUME NEW f \in Fields, NEW c, Finds(store', f, c) PROVE c \in may'[f]
    <3>1. CASE Dumped
      <4>1. /\ pc = "dump" /\ Known \subseteq seen /\ seen \subseteq Known
            /\ pages' = [pages EXCEPT ![NextPage] = page] /\ order' = Append(order, NextPage)
            /\ may'[f] = IF f \in Known THEN {Cell(f)} ELSE {Null}
        BY <1>12, <3>1 DEF store_done, Dumped, Unseen, TypeOK
      <4>2. store' = page
        <5>1. order' # << >> /\ order'[Len(order')] = NextPage
          <6>1. order \in Seq(1 .. Pages) /\ NextPage \in 1 .. Pages
            BY PageTypes DEF TypeOK
          <6> QED
            BY <4>1, <6>1, AppendElements
        <5>2. pages'[NextPage] = page
          BY <4>1, PageTypes DEF TypeOK
        <5> QED
          BY <5>1, <5>2 DEF store
      <4>3. CASE f \in Known
        BY <2>2, <4>1, <4>2, <4>3 DEF DumpInv
      <4>4. CASE f \notin Known
        <5>1. NoCell(page, f)
          BY <4>1, <4>4 DEF DumpInv
        <5> QED
          BY <2>2, <4>1, <4>2, <4>4, <5>1 DEF Finds, NoCell
      <4> QED
        BY <4>3, <4>4
    <3>2. CASE ~Dumped
      <4>1. /\ UNCHANGED <<pages, order>> /\ pc = "write" /\ Known \subseteq seen \ dirty
            /\ may'[f] = IF f \in Known THEN {Cell(f)} \cup {d \in may[f] : Foreign(d)} ELSE may[f]
        BY <1>12, <3>2 DEF store_done, Written, Unseen, TypeOK
      <4>2. Finds(store, f, c) /\ c \in may[f]
        BY <1>c, <2>2, <4>1 DEF StoredInv
      <4>3. f \in Known => c = Cell(f) \/ Foreign(c)
        BY <4>1, <4>2 DEF CommitInv
      <4> QED
        BY <4>1, <4>2, <4>3
    <3> QED
      BY <3>1, <3>2
  <2> QED
    BY <2>1, <2>2 DEF StoredInv, WalkedInv, LoadInv, CommitInv, DumpInv, ClearInv, OffInv
<1>13. CASE clear_cfg
  <2>1. UNCHANGED <<pages, order>> /\ pc' = "clear"
    BY <1>13 DEF clear_cfg
  <2>2. \A f \in Fields : may'[f] = may[f] \cup {Null} \cup {c \in Stored : c.id = f}
    BY <1>13 DEF clear_cfg
  <2>3. \A c \in Stored : c.id \in Fields
    <3>1. \A p \in Used : \A i \in DOMAIN pages[p] : pages[p][i] \in Cells
      <4> SUFFICES ASSUME NEW p \in Used, NEW i \in DOMAIN pages[p] PROVE pages[p][i] \in Cells
        OBVIOUS
      <4>1. pages[p] \in Seq(Cells)
        BY PageTypes DEF TypeOK
      <4> QED
        BY <4>1, SeqElements
    <3> QED
      BY <3>1 DEF Stored, Cells
  <2>4. StoredInv'
    BY <1>c, <2>1, <2>2 DEF StoredInv
  <2>5. ClearInv'
    BY <1>c, <2>1, <2>2, <2>3 DEF ClearInv
  <2> QED
    BY <2>1, <2>4, <2>5 DEF WalkedInv, LoadInv, CommitInv, DumpInv, OffInv
<1>14. CASE clear_range
  <2>1. PICK p \in Used : Wipes(p)
    BY <1>14 DEF clear_range
  <2>2. UNCHANGED <<may, pc>> /\ pc = "clear"
    BY <1>14 DEF clear_range
  <2>3. /\ pages' \in [1 .. Pages -> Seq(Cells)] /\ order' \in Seq(1 .. Pages)
        /\ Stored' \subseteq Stored
    BY <2>1, PageTypes, WipesStep
  <2>4. \A c \in Stored' : c \in may[c.id]
    BY <2>2, <2>3 DEF ClearInv
  <2>5. \A i \in DOMAIN store' : store'[i] \in Stored'
    <3>1. CASE order' = << >>
      BY <3>1 DEF store
    <3>2. CASE order' # << >>
      <4>1. Len(order') \in DOMAIN order'
        BY <2>3, <3>2
      <4>2. order'[Len(order')] \in Used' /\ store' = pages'[order'[Len(order')]]
        BY <3>2, <4>1 DEF Used, store
      <4> QED
        BY <4>2 DEF Stored
    <3> QED
      BY <3>1, <3>2
  <2>6. \A f \in Fields : \A c : Finds(store', f, c) => c \in may[f]
    BY <2>2, <2>4, <2>5 DEF ClearInv, Finds
  <2> QED
    BY <2>2, <2>4, <2>6 DEF StoredInv, WalkedInv, LoadInv, CommitInv, DumpInv, ClearInv, OffInv
<1>15. CASE clear_done
  <2>1. /\ UNCHANGED <<pages, order>> /\ order = << >> /\ pc' = "idle"
        /\ \A f \in Fields : may'[f] = {Null}
    BY <1>15 DEF clear_done
  <2>2. \A f \in Fields : \A c : Finds(store', f, c) => c = Null
    BY <2>1 DEF Finds, store
  <2> QED
    BY <2>1, <2>2 DEF StoredInv, WalkedInv, LoadInv, CommitInv, DumpInv, ClearInv, OffInv
<1>16. CASE UNCHANGED vars
  BY <1>16, <1>c, <1>d DEF StoredInv, WalkedInv, LoadInv, CommitInv, DumpInv, ClearInv, OffInv
<1>17. CASE apply
  BY <1>17, <1>1 DEF apply
<1>18. CASE clear_page
  <2>1. UNCHANGED <<ver, map, may, pc, seen>> /\ pc = "wipe" /\ NextPage \in Used /\ Wipes(NextPage)
    BY <1>18 DEF clear_page
  <2>2. order # << >>
    BY <2>1 DEF Used
  <2>3. store' = store
    BY <2>1, <2>2, PageTypes, WipesStep
  <2>4. CommitInv'
    BY <1>d, <2>1 DEF CommitInv
  <2> QED
    BY <2>1, <2>3, <2>4 DEF StoredInv, WalkedInv, LoadInv, DumpInv, ClearInv, OffInv
<1>19. CASE page_wiped
  <2>1. UNCHANGED <<ver, map, may, pages, order, seen>> /\ pc = "wipe" /\ pc' = "dump" /\ page' = << >>
    BY <1>19 DEF page_wiped
  <2>2. seen' = {}
    BY <2>1 DEF DumpInv
  <2>3. CommitInv'
    BY <1>d, <2>1 DEF CommitInv
  <2>4. DumpInv'
    BY <2>1, <2>2 DEF DumpInv, NoCell
  <2> QED
    BY <1>c, <2>1, <2>3, <2>4 DEF StoredInv, WalkedInv, LoadInv, ClearInv, OffInv
<1> QED
  <2>1. CASE load_done \/ load_fails \/ on_cmd_set \/ set_done \/ store_fails \/ clear_fails
    BY <1>1, <2>1 DEF load_done, load_fails, on_cmd_set, set_done, store_fails, clear_fails
  <2> QED
    BY <1>2, <1>3, <1>4, <1>5, <1>6, <1>7, <1>8, <1>9, <1>10, <1>11, <1>12, <1>13, <1>14, <1>15,
       <1>16, <1>17, <1>18, <1>19, <2>1 DEF Next, boot, command

-----------------------------------------------------------------------------
(* Theorems                                                                *)

IInv == TypeOK /\ LoopInv /\ OneSet /\ Applied /\ StoreInv

LEMMA Invariance == Spec => []IInv
<1>1. Init => IInv
  BY TypeInit, StoreInit DEF Init, IInv, OneSet, Applied
<1>2. IInv /\ [Next]_vars => IInv'
  BY TypeStep, AppliedStep, StoreStep DEF IInv
<1> QED
  BY <1>1, <1>2, PTL DEF Spec

(* Every variable keeps its type; a walk never leaves the log (Config,     *)
(* paged_i2c_eeprom.cpp:95-101).                                           *)
THEOREM TypeCorrect == Spec => []TypeOK
<1>1. IInv => TypeOK
  BY DEF IInv
<1> QED
  BY <1>1, Invariance, PTL

(* Whatever the fields and parts, a part is behind a field only while that *)
(* field is set and the part's turn has not come (dispatcher.cpp:8-55).    *)
THEOREM PartsFollow == Spec => []Applied
<1>1. IInv => Applied
  BY DEF IInv
<1> QED
  BY <1>1, Invariance, PTL

(* Whatever fails, whichever versions run and however many pages there     *)
(* are, a boot finds what the commits and clears have left, a value of     *)
(* another type and what a failed clear uncovers included                  *)
(* (handler.hpp:79-155, paged_i2c_eeprom.cpp:50-79).                       *)
THEOREM BootFindsCommitted == Spec => []BootsAsCommitted
<1>1. IInv => BootsAsCommitted
  <2> SUFFICES ASSUME IInv, pc = "load", walk = 0, NEW f \in Known
               PROVE  \E c \in may[f] : map[f] = Loaded(f, c)
    BY DEF BootsAsCommitted
  <2>1. f \in Fields
    BY ConfigAssumption DEF IInv, TypeOK
  <2>2. CASE f \in seen
    BY <2>1, <2>2 DEF IInv, StoreInv, LoadInv, StoredInv
  <2>3. CASE f \notin seen
    <3>1. NoCell(store, f)
      <4>1. store \in Seq(Cells) /\ DOMAIN store = 1 .. Len(store)
        BY PageTypes DEF IInv
      <4> QED
        BY <2>3, <4>1 DEF IInv, StoreInv, WalkedInv, NoCell
    <3>2. map[f] = Default[f]
      BY <2>3 DEF IInv, StoreInv, LoadInv
    <3>3. Null \in may[f] /\ map[f] = Loaded(f, Null)
      BY <2>1, <3>1, <3>2 DEF IInv, StoreInv, StoredInv, Finds, Loaded
    <3> QED
      BY <3>3
  <2> QED
    BY <2>2, <2>3
<1> QED
  BY <1>1, Invariance, PTL
=============================================================================
