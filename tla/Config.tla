------------------------------- MODULE Config -------------------------------
(***************************************************************************)
(* The configuration of the servo: the fields the main loop keeps in       *)
(* memory, the parts of the firmware they are applied to, and their copy   *)
(* in the EEPROM, across commands, bus errors, losses of power and changes *)
(* of the firmware's version.                                              *)
(*                                                                         *)
(* cfg set writes the field and applies it part by part, while interrupts  *)
(* use the parts.  cfg commit and the load at boot walk the stored cells   *)
(* from the newest and mark each key they meet as seen, so that an older   *)
(* cell of the same key has no say.  The walk itself, em::cfg::update and  *)
(* em::cfg::load, belongs to a library: it is modelled by the calls it     *)
(* makes.  The EEPROM is a ring of pages and a page is a log of cells.     *)
(* When the newest page is full, the next one is wiped and every key is    *)
(* written to it; once whole it is the newest, and the others are left as  *)
(* they are.  That much is asked of the library.                           *)
(***************************************************************************)
EXTENDS Naturals, Sequences, FiniteSets

CONSTANTS
  Fields,    \* the fields of all versions of the firmware, by their ids
  Values,
  Default,   \* get_default_config: a value for each field
  Versions,  \* versions of the firmware
  Keys,      \* T::ids: the fields of each version
  Types,     \* types of values, none of which decodes as another
  Type,      \* the type each version gives a field
  Parts,     \* the variables other components keep copies in
  Inputs,    \* the fields each part is computed from
  Writes,    \* apply: the parts a field is applied to, in order
  Pages,     \* mem_size_ / page_size_
  MaxCells,  \* cells a page has room for
  Null       \* no cell

ASSUME ConfigAssumption ==
  /\ Fields \subseteq Nat
  /\ Default \in [Fields -> Values]
  /\ Keys \in [Versions -> SUBSET Fields]
  /\ Type \in [Versions -> [Fields -> Types]]
  /\ Inputs \in [Parts -> SUBSET Fields]
  /\ Writes \in [Fields -> Seq(Parts)]
  /\ \A f \in Fields, p \in Parts :
       f \in Inputs[p] => \E i \in 1 .. Len(Writes[f]) : Writes[f][i] = p
  /\ Pages \in Nat /\ Pages > 1
  /\ MaxCells \in Nat /\ IsFiniteSet(Fields) /\ Cardinality(Fields) <= MaxCells

VARIABLES
  ver,     \* the version of the firmware that runs
  map,     \* cfg::map
  parts,   \* what each part was last computed from
  pc,      \* what the main loop does
  setting, \* cfg set: the field, as a set, until it is applied
  todo,    \* cfg set: how many of its parts are written
  pages,   \* the cells of each page, oldest first
  order,   \* the pages that are whole, oldest first
  page,    \* commit: cells of the page that is to be the newest
  walk,    \* the cell the walk has come to; the ones after it are done
  seen,    \* handler::_seen, of all sections
  dirty,   \* commit: seen fields whose stored value is not the one in map
  may      \* history: the newest cell each field may have, or Null

vars == <<ver, map, parts, pc, setting, todo, pages, order, page, walk, seen, dirty, may>>

Known == Keys[ver]

Cells == [id : Fields, type : Types, val : Values]

ASSUME NullAssumption == Null \notin Cells

Used == {order[i] : i \in DOMAIN order}

(* The cells of the newest page, the only one a walk sees.                 *)
store == IF order = << >> THEN << >> ELSE pages[order[Len(order)]]

NextPage ==
  IF order = << >> \/ order[Len(order)] = Pages THEN 1 ELSE order[Len(order)] + 1

TypeOK ==
  /\ ver \in Versions
  /\ map \in [Fields -> Values]
  /\ DOMAIN parts = Parts /\ \A p \in Parts : parts[p] \in [Inputs[p] -> Values]
  /\ pc \in {"off", "load", "halted", "idle", "apply", "walk", "write", "wipe", "dump", "clear"}
  /\ setting \subseteq Known /\ todo \in Nat
  /\ pages \in [1 .. Pages -> Seq(Cells)] /\ order \in Seq(1 .. Pages)
  /\ page \in Seq(Cells) /\ walk \in Nat
  /\ seen \subseteq Known /\ dirty \subseteq Known
  /\ may \in [Fields -> SUBSET (Cells \cup {Null})]

(* What the part is computed from.                                         *)
From(p, m) == [f \in Inputs[p] |-> m[f]]

(* A device that has left the factory, without power.                      *)
Init ==
  /\ ver \in Versions
  /\ map = Default
  /\ parts = [p \in Parts |-> From(p, Default)]
  /\ pc = "off"
  /\ setting = {} /\ todo = 0
  /\ pages = [p \in 1 .. Pages |-> << >>] /\ order = << >>
  /\ page = << >> /\ walk = 0
  /\ seen = {} /\ dirty = {}
  /\ may = [f \in Fields |-> {Null}]

-----------------------------------------------------------------------------
(* The walk over the stored cells.                                         *)

(* Mutant: a walk goes by the marks the last one has left.                 *)
reset_seen_never == seen

reset_seen == {}

StartsWalk(state) ==
  /\ pc' = state
  /\ walk' = Len(store)
  /\ seen' = reset_seen
  /\ dirty' = {}

(* check_key_cache answers NOT_SEEN: a key this version has, not met yet.  *)
check_seen(id) == id \in Known \ seen

(* get_val: the value is of the type this version gives the field.         *)
Decodes(cell) == cell.type = Type[ver][cell.id]

(* Marks the key of the cell the walk has come to, and whether it counts.  *)
Visits(cell, counts) ==
  /\ walk > 0
  /\ cell = store[walk]
  /\ counts = check_seen(cell.id)
  /\ walk' = walk - 1
  /\ seen' = IF counts THEN seen \cup {cell.id} ELSE seen

-----------------------------------------------------------------------------
(* Boot: setup_core_drivers and context::setup.                            *)

(* The user may have put another version on the device.                    *)
power_on ==
  /\ pc = "off"
  /\ ver' \in Versions
  /\ StartsWalk("load")
  /\ UNCHANGED <<map, parts, setting, todo, pages, order, page, may>>

(* Of a value that does not decode the library is told, and either goes on *)
(* or gives up.                                                            *)
load_cell ==
  /\ pc = "load"
  /\ \E cell \in Cells, counts \in BOOLEAN :
       /\ Visits(cell, counts)
       /\ map' = IF counts /\ Decodes(cell) THEN [map EXCEPT ![cell.id] = cell.val] ELSE map
  /\ UNCHANGED <<ver, parts, pc, setting, todo, pages, order, page, dirty, may>>

(* Mutant: only the field a user sets is applied.                          *)
apply_all_none == parts

(* handler::apply_all of every section, before the interrupts start.       *)
apply_all ==
  [p \in Parts |->
    From(p, IF \E f \in Known : \E i \in DOMAIN Writes[f] : Writes[f][i] = p THEN map ELSE Default)]

load_done ==
  /\ pc = "load" /\ walk = 0
  /\ parts' = apply_all
  /\ pc' = "idle"
  /\ UNCHANGED <<ver, map, setting, todo, pages, order, page, walk, seen, dirty, may>>

(* Without its configuration the board stops in stop_exec.                 *)
load_fails ==
  /\ pc = "load"
  /\ pc' = "halted"
  /\ UNCHANGED <<ver, map, parts, setting, todo, pages, order, page, walk, seen, dirty, may>>

-----------------------------------------------------------------------------
(* cfg set: the field is written, then applied part by part.               *)

on_cmd_set ==
  /\ pc = "idle"
  /\ \E f \in Known, val \in Values : map' = [map EXCEPT ![f] = val] /\ setting' = {f}
  /\ pc' = "apply" /\ todo' = 0
  /\ UNCHANGED <<ver, parts, pages, order, page, walk, seen, dirty, may>>

apply ==
  /\ pc = "apply"
  /\ \E f \in setting :
       /\ todo < Len(Writes[f])
       /\ parts' = [parts EXCEPT ![Writes[f][todo + 1]] = From(Writes[f][todo + 1], map)]
  /\ todo' = todo + 1
  /\ UNCHANGED <<ver, map, pc, setting, pages, order, page, walk, seen, dirty, may>>

set_done ==
  /\ pc = "apply"
  /\ \E f \in setting : todo = Len(Writes[f])
  /\ pc' = "idle" /\ setting' = {} /\ todo' = 0
  /\ UNCHANGED <<ver, map, parts, pages, order, page, walk, seen, dirty, may>>

-----------------------------------------------------------------------------
(* cfg commit.                                                             *)

Cell(f) == [id |-> f, type |-> Type[ver][f], val |-> map[f]]

store_cfg ==
  /\ pc = "idle"
  /\ StartsWalk("walk")
  /\ may' = [f \in Fields |-> IF f \in Known THEN may[f] \cup {Cell(f)} ELSE may[f]]
  /\ UNCHANGED <<ver, map, parts, setting, todo, pages, order, page>>

(* A value that does not decode counts as unchanged.                       *)
value_changed ==
  /\ pc = "walk"
  /\ \E cell \in Cells, counts \in BOOLEAN :
       /\ Visits(cell, counts)
       /\ dirty' = IF counts /\ Decodes(cell) /\ cell.val # map[cell.id]
                   THEN dirty \cup {cell.id} ELSE dirty
  /\ UNCHANGED <<ver, map, parts, pc, setting, todo, pages, order, page, may>>

walk_done ==
  /\ pc = "walk" /\ walk = 0
  /\ pc' = "write"
  /\ UNCHANGED <<ver, map, parts, setting, todo, pages, order, page, walk, seen, dirty, may>>

Appends(f) ==
  /\ order # << >> /\ Len(store) < MaxCells
  /\ pages' = [pages EXCEPT ![order[Len(order)]] = Append(@, Cell(f))]

write_changed ==
  /\ pc = "write"
  /\ \E f \in dirty : Appends(f) /\ dirty' = dirty \ {f}
  /\ UNCHANGED <<ver, map, parts, pc, setting, todo, order, page, walk, seen, may>>

Unseen == Known \ seen

(* take_unseen_key: ids are in ascending order.                            *)
Takes(f) == f \in Unseen /\ \A g \in Unseen : f <= g

(* The keys of which nothing is stored.                                    *)
write_unseen ==
  /\ pc = "write" /\ dirty = {}
  /\ \E f \in Fields : Takes(f) /\ Appends(f) /\ seen' = seen \cup {f}
  /\ UNCHANGED <<ver, map, parts, pc, setting, todo, order, page, walk, dirty, may>>

Written == pc = "write" /\ dirty = {} /\ Unseen = {}

(* There is no room, or no page: reset_keys.                               *)
next_page ==
  /\ pc = "write" /\ ~Written
  /\ order = << >> \/ Len(store) = MaxCells
  /\ pc' = "wipe"
  /\ seen' = reset_seen /\ dirty' = {}
  /\ UNCHANGED <<ver, map, parts, setting, todo, pages, order, page, walk, may>>

Remove(s, i) == [k \in 1 .. Len(s) - 1 |-> s[IF k < i THEN k ELSE k + 1]]

(* clear_range writes a batch of zeros to the page: a cell is gone, in no  *)
(* known order, or what makes it a page, and nothing reads its cells.      *)
Wipes(p) ==
  \/ /\ \E i \in DOMAIN pages[p] : pages' = [pages EXCEPT ![p] = Remove(@, i)]
     /\ order' = order
  \/ \E i \in DOMAIN order :
       /\ order[i] = p
       /\ order' = Remove(order, i)
       /\ pages' = [pages EXCEPT ![p] = << >>]

clear_page ==
  /\ pc = "wipe"
  /\ NextPage \in Used /\ Wipes(NextPage)
  /\ UNCHANGED <<ver, map, parts, pc, setting, todo, page, walk, seen, dirty, may>>

page_wiped ==
  /\ pc = "wipe" /\ NextPage \notin Used
  /\ pc' = "dump" /\ page' = << >>
  /\ UNCHANGED <<ver, map, parts, setting, todo, pages, order, walk, seen, dirty, may>>

dump_unseen ==
  /\ pc = "dump"
  /\ \E f \in Fields : Takes(f) /\ page' = Append(page, Cell(f)) /\ seen' = seen \cup {f}
  /\ UNCHANGED <<ver, map, parts, pc, setting, todo, pages, order, walk, dirty, may>>

Dumped == pc = "dump" /\ Unseen = {}

Foreign(cell) == cell # Null /\ ~Decodes(cell)

(* The reply is OK, though a cell of another type has been left.           *)
store_done ==
  /\ Written \/ Dumped
  /\ pages' = IF Dumped THEN [pages EXCEPT ![NextPage] = page] ELSE pages
  /\ order' = IF Dumped THEN Append(order, NextPage) ELSE order
  /\ page' = << >>
  /\ pc' = "idle"
  /\ may' = [f \in Fields |->
       IF f \in Known THEN {Cell(f)} \cup (IF Dumped THEN {} ELSE {c \in may[f] : Foreign(c)})
       ELSE IF Dumped THEN {Null} ELSE may[f]]
  /\ UNCHANGED <<ver, map, parts, setting, todo, walk, seen, dirty>>

(* A read or a write on the bus fails: the reply is NO.                    *)
store_fails ==
  /\ pc \in {"walk", "write", "wipe", "dump"}
  /\ pc' = "idle"
  /\ page' = << >> /\ walk' = 0 /\ dirty' = {}
  /\ UNCHANGED <<ver, map, parts, setting, todo, pages, order, seen, may>>

-----------------------------------------------------------------------------
(* cfg clear, which leaves the fields in memory as they are.               *)

Stored == UNION {{pages[p][i] : i \in DOMAIN pages[p]} : p \in Used}

clear_cfg ==
  /\ pc = "idle"
  /\ pc' = "clear"
  /\ may' = [f \in Fields |-> may[f] \cup {Null} \cup {c \in Stored : c.id = f}]
  /\ UNCHANGED <<ver, map, parts, setting, todo, pages, order, page, walk, seen, dirty>>

(* From address 0 on, whichever of the pages is the newest.                *)
clear_range ==
  /\ pc = "clear"
  /\ \E p \in Used : (\A q \in Used : p <= q) /\ Wipes(p)
  /\ UNCHANGED <<ver, map, parts, pc, setting, todo, page, walk, seen, dirty, may>>

clear_done ==
  /\ pc = "clear" /\ order = << >>
  /\ pc' = "idle"
  /\ may' = [f \in Fields |-> {Null}]
  /\ UNCHANGED <<ver, map, parts, setting, todo, pages, order, page, walk, seen, dirty>>

clear_fails ==
  /\ pc = "clear"
  /\ pc' = "idle"
  /\ UNCHANGED <<ver, map, parts, setting, todo, pages, order, page, walk, seen, dirty, may>>

-----------------------------------------------------------------------------

power_loss ==
  /\ pc # "off"
  /\ pc' = "off"
  /\ map' = Default
  /\ parts' = [p \in Parts |-> From(p, Default)]
  /\ page' = << >> /\ setting' = {} /\ todo' = 0 /\ walk' = 0
  /\ seen' = {} /\ dirty' = {}
  /\ UNCHANGED <<ver, pages, order, may>>

boot == load_cell \/ load_done
command ==
  \/ apply \/ set_done
  \/ value_changed \/ walk_done \/ write_changed \/ write_unseen
  \/ next_page \/ clear_page \/ page_wiped \/ dump_unseen \/ store_done
  \/ clear_range \/ clear_done

Next ==
  \/ power_on \/ boot \/ command
  \/ on_cmd_set \/ store_cfg \/ clear_cfg
  \/ load_fails \/ store_fails \/ clear_fails \/ power_loss

Spec == Init /\ [][Next]_vars

-----------------------------------------------------------------------------
(* Properties                                                              *)

(* Once booted, a part is behind a field only while that field is being    *)
(* set and the part's turn has not come: so an interrupt can find the      *)
(* parts mixed, the new scale with the old offset, in one field only, and  *)
(* no part stays behind (context.cpp:15-17, cfg/dispatcher.cpp:8-55,       *)
(* cnv/converter.hpp:14-17).                                               *)
Pending(p) ==
  \E f \in setting : \E i \in todo + 1 .. Len(Writes[f]) : Writes[f][i] = p

Applied ==
  pc \in {"idle", "apply", "walk", "write", "wipe", "dump", "clear"} =>
    \A p \in Parts : \A f \in Inputs[p] \cap Known :
      parts[p][f] # map[f] => f \in setting /\ Pending(p)

(* What a boot finds for a field is what the last commit that replied OK   *)
(* stored, or what a commit that failed since then has got to; after a     *)
(* clear that failed it may also be nothing, or any value an older commit  *)
(* has left on a page that is not wiped yet.  A value that was only set is *)
(* never found, nor one that was replaced without such a clear.  The       *)
(* exception is a value of a type this version cannot decode: a boot does  *)
(* without it, and a commit that moves to no other page replies OK and     *)
(* leaves it in place (paged_i2c_eeprom.cpp:95-101, handler.hpp:79-155).   *)
Loaded(f, cell) == IF cell # Null /\ Decodes(cell) THEN cell.val ELSE Default[f]

BootsAsCommitted ==
  pc = "load" /\ walk = 0 => \A f \in Known : \E c \in may[f] : map[f] = Loaded(f, c)
=============================================================================
