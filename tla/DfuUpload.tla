----------------------------- MODULE DfuUpload -----------------------------
(***************************************************************************)
(* The upload of a firmware image by the host tool: scmdio flash and       *)
(* scmdio dfu upload, against the bootloader of the chip, over a line that *)
(* may lose what it carries and on which an answer may come too late.  A   *)
(* user runs the tool again and again, with or without a power cycle of    *)
(* the device in between.                                                  *)
(*                                                                         *)
(* The tool writes a frame and waits for its answer; a read that takes too *)
(* long throws and ends the run (port.cpp:48-57).  The bootloader is the   *)
(* one the tool expects: an INIT that is not its first is the first byte   *)
(* of a command, as init_comm has it.  A frame is one item on the line; a  *)
(* command is its byte and the complement.                                 *)
(***************************************************************************)
EXTENDS Integers, Sequences

CONSTANTS
  Images,      \* files the user may name
  Size,        \* their lengths in bytes
  Missing,     \* a file that cannot be opened: it reads as empty
  Word,        \* bytes the chip writes at once
  Step,        \* mem_step
  Blocks,      \* blocks of mem_step bytes in the flash
  ByteValues,  \* values of the byte that announces a length
  Adrift,      \* frames that may have left the host when the port is opened
  MaxRuns      \* bound of the runs of the tool

ASSUME DfuAssumption ==
  /\ {Word, Step, Blocks, ByteValues} \subseteq Nat \ {0}
  /\ {Adrift, MaxRuns} \subseteq Nat
  /\ {"erased", "junk"} \cap Images = {}
  /\ Step % Word = 0 /\ Step < ByteValues
  /\ Size \in [Images -> Nat]
  /\ Missing \in Images => Size[Missing] = 0

VARIABLES
  mode,      \* the command the user runs: "flash" or "upload"
  img,       \* the file it was given
  pc,        \* the answer the tool waits for, or how its last run ended
  block,     \* (addr - flash.min) / mem_step
  line,      \* frames on their way to the bootloader
  replies,   \* answers on their way back
  boot,      \* the frame the bootloader waits for
  at,        \* bootloader: the block of the last address it took
  mem,       \* contents of the flash, by blocks
  runs,      \* runs of the tool so far
  fresh,     \* history: the run met a bootloader that had just started
  met        \* history: the run met a loss, a late answer or a power cycle

run_vars  == <<mode, img, runs, fresh>>
boot_vars == <<boot, at, mem>>
vars == <<run_vars, pc, block, line, replies, boot_vars, met>>

Ended   == {"idle", "done", "failed"}
Reading == {"init", "id", "erase_cmd", "erase", "write_cmd", "addr", "data",
            "special_cmd", "special", "reset"}
Frames  == {"erase", "addr", "data", "special", "reset"}

-----------------------------------------------------------------------------
(* The image, as is.read hands it out by blocks of mem_step bytes.         *)

gcount(i, k) ==
  LET rest == Size[i] - k * Step
  IN  IF rest < 0 THEN 0 ELSE IF rest < Step THEN rest ELSE Step

Erased == <<"erased", 0>>
Junk   == <<"junk", 0>>
Part(i, k) == IF gcount(i, k) = 0 THEN Erased ELSE <<i, k>>

(* What the flash should hold once image i is written.                     *)
Written(i) == [k \in 0 .. Blocks - 1 |-> Part(i, k)]

Contents == (Images \X (0 .. Blocks - 1)) \cup {Erased, Junk}

Items ==
  [kind : {"INIT", "erase", "special", "reset"}]
    \cup [kind : {"cmd"}, c : {"GET_ID", "EXTENDED_ERASE", "WRITE_MEMORY", "SPECIAL"}]
    \cup [kind : {"addr"}, to : 0 .. Blocks - 1]
    \cup [kind : {"data"}, missing : Nat, part : Contents]

TypeOK ==
  /\ mode \in {"flash", "upload"} /\ img \in Images /\ runs \in 0 .. MaxRuns
  /\ pc \in Ended \cup Reading
  /\ block \in 0 .. Blocks
  /\ line \in Seq(Items)
  /\ replies \in Seq({"ACK", "NACK", "id", "reset"})
  /\ boot \in {"start", "cmd", "half", "rest", "firmware"} \cup Frames
  /\ at \in 0 .. Blocks - 1
  /\ mem \in [0 .. Blocks - 1 -> Contents]
  /\ fresh \in BOOLEAN /\ met \in BOOLEAN

Init ==
  /\ mode = "flash" /\ img \in Images /\ pc = "idle" /\ block = 0
  /\ line = << >> /\ replies = << >>
  /\ boot = "start" /\ at = 0
  /\ mem \in {Written(i) : i \in Images}
  /\ runs = 0 /\ fresh = FALSE /\ met = FALSE

-----------------------------------------------------------------------------
(* The tool.                                                               *)

Cmd(c) == [kind |-> "cmd", c |-> c]

(* A run opens the port, which drops what has come and what is not yet     *)
(* sent (flush_port: TCIOFLUSH), and sends INIT.  Frames of an earlier run *)
(* that have left the host still come, ahead of it.                        *)
run_tool ==
  /\ pc \in Ended
  /\ runs < MaxRuns
  /\ runs' = runs + 1
  /\ mode' \in {"flash", "upload"}
  /\ img' \in Images
  /\ pc' = "init"
  /\ replies' = << >>
  /\ \E sent \in 0 .. Len(line) :
       /\ sent <= Adrift
       /\ line' = Append(SubSeq(line, 1, sent), [kind |-> "INIT"])
  /\ fresh' = (boot = "start" /\ line = << >>)
  /\ met' = FALSE
  /\ UNCHANGED <<block, boot_vars>>

(* dfu_try_init takes either answer.                                       *)
InitAnswers == IF mode = "flash" THEN {"ACK", "NACK"} ELSE {"ACK"}

Answers == {"ACK", "NACK", "id", "reset"}

(* Mutant: the value of an answer is not looked at.                        *)
Wanted_any == Answers

Wanted == IF pc = "init" THEN InitAnswers
          ELSE IF pc = "id" THEN {"id"} ELSE IF pc = "reset" THEN {"reset"} ELSE {"ACK"}

Takes(answers) ==
  /\ replies # << >>
  /\ Head(replies) \in answers
  /\ replies' = Tail(replies)
  /\ UNCHANGED <<run_vars, boot_vars, met>>

(* co_await port.read(), and the answer is the one asked for.              *)
Reads(where) == pc = where /\ Takes(Wanted)

Sends(item, awaits) == line' = Append(line, item) /\ pc' = awaits /\ UNCHANGED block
Ends(how) == pc' = how /\ UNCHANGED <<line, block>>

(* flash opens its file only when the bootloader has answered.             *)
FileOpens == ~(mode = "flash" /\ img = Missing)

(* init_comm's second INIT, for a bootloader that does not answer the      *)
(* first, is never sent: the read before it has thrown.                    *)
open_session == Reads("init") /\ FileOpens /\ Sends(Cmd("GET_ID"), "id")

no_file == Reads("init") /\ ~FileOpens /\ Ends("failed")

get_id == Reads("id") /\ Sends(Cmd("EXTENDED_ERASE"), "erase_cmd")

full_erase == Reads("erase_cmd") /\ Sends([kind |-> "erase"], "erase")

(* After dfu_upload_raw, flash goes on with dfu_reset.                     *)
flash_done == IF mode = "flash" THEN Sends(Cmd("SPECIAL"), "special_cmd") ELSE Ends("done")

write_at(k) == line' = Append(line, Cmd("WRITE_MEMORY")) /\ pc' = "write_cmd" /\ block' = k

(* Mutant: the loop goes one block past the flash.                         *)
write_block_over(k) == IF k > Blocks THEN flash_done ELSE write_at(k)

(* The loop of dfu_upload_raw goes on with block k.                        *)
write_block(k) == IF k = Blocks THEN flash_done ELSE write_at(k)

first_block == Reads("erase") /\ write_block(0)

write_address ==
  Reads("write_cmd") /\ Sends([kind |-> "addr", to |-> block], "addr")

Writable(n) == n % Word = 0 /\ n < ByteValues

(* Bytes the frame lacks of what its first byte, size - 1, announces.      *)
Short(n) == ((n - 1) % ByteValues) + 1 - n

write_data ==
  /\ Reads("addr")
  /\ LET n == gcount(img, block)
     IN  IF Writable(n)
         THEN Sends([kind |-> "data", missing |-> Short(n), part |-> Part(img, block)], "data")
         ELSE Ends("failed")

(* Mutant: only a block with nothing in it is the last one.                *)
LastBlock_empty == gcount(img, block) = 0

(* !is: less was read than was asked for.                                  *)
LastBlock == gcount(img, block) < Step

next_block ==
  /\ Reads("data")
  /\ IF LastBlock THEN flash_done ELSE write_block(block + 1)

dfu_reset == Reads("special_cmd") /\ Sends([kind |-> "special"], "special")

dfu_reset_data == Reads("special") /\ Sends([kind |-> "reset"], "reset")

dfu_reset_end == Reads("reset") /\ Ends("done")

(* Any other answer ends the run, and so does one that takes too long.     *)
wait_for_ack == pc \in Reading /\ Takes(Answers \ Wanted) /\ Ends("failed")

(* Mutant: a read waits for its answer.                                    *)
timeout_never == FALSE

timeout ==
  /\ pc \in Reading
  /\ replies = << >>
  /\ met' = (met \/ line # << >>)
  /\ Ends("failed")
  /\ UNCHANGED <<run_vars, replies, boot_vars>>

tool ==
  \/ open_session \/ no_file \/ get_id \/ full_erase
  \/ first_block \/ write_address \/ write_data \/ next_block
  \/ dfu_reset \/ dfu_reset_data \/ dfu_reset_end
  \/ wait_for_ack \/ timeout

-----------------------------------------------------------------------------
(* The bootloader.                                                         *)

Receives(state, kind) ==
  /\ boot = state
  /\ line # << >>
  /\ Head(line).kind = kind
  /\ line' = Tail(line)
  /\ UNCHANGED <<run_vars, pc, block, met>>

Replies(answer, next) == replies' = Append(replies, answer) /\ boot' = next

boot_start == Receives("start", "INIT") /\ Replies("ACK", "cmd") /\ UNCHANGED <<at, mem>>

boot_command ==
  /\ Receives("cmd", "cmd")
  /\ LET c == Head(line).c
     IN  \/ c = "GET_ID" /\ Replies("id", "cmd")
         \/ c = "EXTENDED_ERASE" /\ Replies("ACK", "erase")
         \/ c = "WRITE_MEMORY" /\ Replies("ACK", "addr")
         \/ c = "SPECIAL" /\ Replies("ACK", "special")
  /\ UNCHANGED <<at, mem>>

(* An INIT is the first byte of a command; the next one is not its         *)
(* complement, and what follows that is out of step by one.                *)
boot_half ==
  /\ \/ Receives("cmd", "INIT") /\ boot' = "half" /\ UNCHANGED replies
     \/ Receives("half", "INIT") /\ Replies("NACK", "cmd")
     \/ Receives("half", "cmd") /\ Replies("NACK", "half")
  /\ UNCHANGED <<at, mem>>

(* Mutant: the command is acknowledged and nothing is erased.              *)
Erase_skipped == mem

Erase == [k \in 0 .. Blocks - 1 |-> Erased]

boot_erase ==
  /\ Receives("erase", "erase")
  /\ mem' = Erase
  /\ Replies("ACK", "cmd")
  /\ UNCHANGED at

boot_addr ==
  /\ Receives("addr", "addr")
  /\ at' = Head(line).to
  /\ Replies("ACK", "data")
  /\ UNCHANGED mem

(* A frame that is short of what it announces leaves the bootloader        *)
(* waiting, its check byte taken for one of the data.                      *)
boot_data ==
  /\ Receives("data", "data")
  /\ IF Head(line).missing = 0
     THEN mem' = [mem EXCEPT ![at] = Head(line).part] /\ Replies("ACK", "cmd")
     ELSE mem' = [mem EXCEPT ![at] = Junk] /\ boot' = "rest" /\ UNCHANGED replies
  /\ UNCHANGED at

boot_special == Receives("special", "special") /\ Replies("ACK", "reset") /\ UNCHANGED <<at, mem>>

(* The device leaves the bootloader for the new firmware.                  *)
boot_reset == Receives("reset", "reset") /\ Replies("reset", "firmware") /\ UNCHANGED <<at, mem>>

(* Bytes of another run fall into a frame: it goes on, or its check fails. *)
boot_stray ==
  /\ \E state \in Frames \cup {"rest"}, kind \in {"INIT", "cmd"} : Receives(state, kind)
  /\ \/ UNCHANGED <<boot, replies>>
     \/ Replies("NACK", "cmd")
  /\ UNCHANGED <<at, mem>>

(* Frames for which the bootloader or the firmware has no use.             *)
boot_ignore ==
  /\ line # << >>
  /\ LET kind == Head(line).kind
     IN  \/ boot = "firmware"
         \/ boot = "start" /\ kind # "INIT"
         \/ boot \notin {"firmware", "start"} /\ kind \notin {"INIT", "cmd", boot}
  /\ line' = Tail(line)
  /\ UNCHANGED <<run_vars, pc, block, met, replies, boot_vars>>

bootloader ==
  \/ boot_start \/ boot_command \/ boot_half
  \/ boot_erase \/ boot_addr \/ boot_data \/ boot_special \/ boot_reset
  \/ boot_stray \/ boot_ignore

-----------------------------------------------------------------------------
(* What may go wrong, and the user who starts over.                        *)

lose_frame ==
  /\ pc \in Reading
  /\ line # << >>
  /\ line' = Tail(line)
  /\ met' = TRUE
  /\ UNCHANGED <<run_vars, pc, block, replies, boot_vars>>

lose_reply ==
  /\ pc \in Reading
  /\ replies # << >>
  /\ replies' = Tail(replies)
  /\ met' = TRUE
  /\ UNCHANGED <<run_vars, pc, block, line, boot_vars>>

power_cycle ==
  /\ boot # "start"
  /\ boot' = "start"
  /\ line' = << >> /\ replies' = << >>
  /\ met' = TRUE
  /\ UNCHANGED <<run_vars, pc, block, at, mem>>

Next == run_tool \/ tool \/ bootloader \/ lose_frame \/ lose_reply \/ power_cycle

(* The tool does not stop between two reads.                               *)
Spec == Init /\ [][Next]_vars /\ WF_vars(tool)

-----------------------------------------------------------------------------
(* Properties                                                              *)

(* A run that goes on to the reset, or says it is done, has left the whole *)
(* image in the flash, as far as the flash reaches, and nothing else: no   *)
(* loss, late answer or leftover of an earlier run makes it claim more     *)
(* (dfu_flash.cpp:237-253).                                                *)
Claims == pc \in {"special_cmd", "special", "reset", "done"}

UploadComplete == Claims => mem = Written(img)

(* Without a loss, a late answer or a power cycle, a run that meets a      *)
(* bootloader just started fails only for what the user gave it: no file,  *)
(* a length that is not whole words, or one that is whole blocks and less  *)
(* than the flash, after whose last block an empty one is still written    *)
(* (dfu_flash.cpp:172-175, 241-251).                                       *)
Uploadable ==
  \/ Size[img] >= Blocks * Step
  \/ Size[img] % Word = 0 /\ Size[img] % Step # 0

FailsForCause == pc = "failed" /\ fresh /\ ~met => ~Uploadable

(* Parts of two images are never side by side in the flash, whatever ends  *)
(* a run early and however the tool is run again (dfu_flash.cpp:240).      *)
NeverMixed ==
  \A j, k \in 0 .. Blocks - 1 :
    mem[j][1] \in Images /\ mem[k][1] \in Images => mem[j][1] = mem[k][1]

(* Every run ends: no answer that fails to come keeps it                   *)
(* (port.cpp:50-55).                                                       *)
RunEnds == pc \in Reading ~> pc \in Ended
=============================================================================
