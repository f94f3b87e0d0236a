-------------------------- MODULE DfuUploadProofs --------------------------
(***************************************************************************)
(* Proofs about DfuUpload, for every set of files, every flash, every      *)
(* number of runs and any losses.  A run that meets nothing fails only for *)
(* its cause.  As long as two frames at most are still on their way when a *)
(* run opens the port, what the tool claims is true and no two images are  *)
(* ever mixed; with three, a run may claim too much.                       *)
(*                                                                         *)
(* The argument: an answer cannot tell which frame it is the answer to.    *)
(* But "id" is the answer to one command only.  A run that reads the "id"  *)
(* told to itself has every earlier frame and answer behind it, and from   *)
(* there on one frame or one answer at most is under way: each ACK is the  *)
(* one of the frame the tool has just sent.  A run that reads the "id"     *)
(* told to an earlier run has an INIT or a GET_ID still ahead of its next  *)
(* command, and neither brings the ACK that it waits for.                  *)
(***************************************************************************)
EXTENDS DfuUpload, TLAPS

INIT == [kind |-> "INIT"]
Either == {"ACK", "NACK"}
ERASE == Cmd("EXTENDED_ERASE")
ID == Cmd("GET_ID")

(* The first k blocks are written, and the others erased.                  *)
Filled(k) == [b \in 0 .. Blocks - 1 |-> IF b < k THEN Part(img, b) ELSE Erased]

Writing == {"write_cmd", "addr", "data"}
Late == {"erase_cmd", "erase", "special_cmd", "special", "reset"} \cup Writing

-----------------------------------------------------------------------------
(* Before the bootloader has told its id, answers may be those of frames   *)
(* of earlier runs, an "id" among them; but the last one is the answer to  *)
(* the last frame.                                                         *)
InitPending ==
  \/ Len(line) = 3 /\ line[3] = INIT /\ replies = << >>
  \/ Len(line) = 2 /\ line[2] = INIT /\ Len(replies) <= 1
  \/ /\ line = <<INIT>> /\ Len(replies) <= 2
     /\ Len(replies) = 2 /\ replies[2] = "id" => boot = "cmd"
  \/ /\ line = << >> /\ Len(replies) <= 3
     /\ Len(replies) = 2 /\ replies[2] = "id" => boot \in {"cmd", "half"}
     /\ Len(replies) = 3 => replies[2] # "id" /\ replies[3] # "id"

IdPending ==
  \/ Len(line) = 3 /\ line[2] = INIT /\ line[3] = ID /\ replies = << >>
  \/ /\ line = <<INIT, ID>> /\ Len(replies) <= 1
     /\ \A n \in DOMAIN replies : replies[n] = "id" => boot = "cmd"
  \/ /\ line = <<ID>> /\ Len(replies) <= 2
     /\ \A n \in DOMAIN replies : replies[n] = "id" => Len(replies) = 1 /\ boot \in {"cmd", "half"}
  \/ /\ line = << >>
     /\ \/ \A n \in DOMAIN replies : replies[n] = "id" => n = Len(replies) /\ boot = "cmd"
        \/ replies = <<"id">> /\ boot = "half"
        \/ replies = <<"id", "NACK">> /\ boot = "half"
        \/ replies = <<"id", "id">> /\ boot = "cmd"

(* The frame the tool waits on is alone under way, and the bootloader      *)
(* waits for it ...                                                        *)
Coming ==
  /\ replies = << >>
  /\ \/ pc = "init" /\ line = <<INIT>> /\ boot = "start"
     \/ pc = "id" /\ line = <<ID>> /\ boot = "cmd"
     \/ pc = "erase_cmd" /\ line = <<ERASE>> /\ boot = "cmd"
     \/ pc = "erase" /\ line = <<[kind |-> "erase"]>> /\ boot = "erase"
     \/ pc = "write_cmd" /\ line = <<Cmd("WRITE_MEMORY")>> /\ boot = "cmd"
     \/ pc = "addr" /\ line = <<[kind |-> "addr", to |-> block]>> /\ boot = "addr"
     \/ /\ pc = "data" /\ boot = "data" /\ at = block
        /\ line = <<[kind |-> "data", missing |-> Short(gcount(img, block)),
                     part |-> Part(img, block)]>>
     \/ pc = "special_cmd" /\ line = <<Cmd("SPECIAL")>> /\ boot = "cmd"
     \/ pc = "special" /\ line = <<[kind |-> "special"]>> /\ boot = "special"
     \/ pc = "reset" /\ line = <<[kind |-> "reset"]>> /\ boot = "reset"

(* ... or its answer is, and the bootloader has gone on.                   *)
Answered ==
  /\ line = << >>
  /\ \/ pc = "init" /\ replies = <<"ACK">> /\ boot = "cmd"
     \/ pc = "id" /\ replies = <<"id">> /\ boot = "cmd"
     \/ pc = "erase_cmd" /\ replies = <<"ACK">> /\ boot = "erase"
     \/ pc = "erase" /\ replies = <<"ACK">> /\ boot = "cmd"
     \/ pc = "write_cmd" /\ replies = <<"ACK">> /\ boot = "addr"
     \/ pc = "addr" /\ replies = <<"ACK">> /\ boot = "data" /\ at = block
     \/ pc = "data" /\ replies = <<"ACK">> /\ boot = "cmd"
     \/ pc = "special_cmd" /\ replies = <<"ACK">> /\ boot = "special"
     \/ pc = "special" /\ replies = <<"ACK">> /\ boot = "reset"
     \/ pc = "reset" /\ replies = <<"reset">> /\ boot = "firmware"

(* Nothing is under way any more: the read runs into its time limit.       *)
Silent == line = << >> /\ replies = << >>

(* The bootloader has taken a frame that announced more than it held.      *)
Stuck == pc = "data" /\ boot = "rest" /\ gcount(img, block) = 0 /\ Silent

(* A run that took the id told to an earlier one: what comes next is not   *)
(* the ACK it waits for.                                                   *)
Behind ==
  /\ pc = "erase_cmd"
  /\ \/ line = <<INIT, ID, ERASE>> /\ replies = << >> /\ boot = "cmd"
     \/ line = <<ID, ERASE>> /\ replies = << >> /\ boot \in {"cmd", "half"}
     \/ /\ line = <<ERASE>>
        /\ \/ replies = << >> /\ boot = "half"
           \/ replies = <<"id">> /\ boot = "cmd"
           \/ replies = <<"NACK">> /\ boot = "half"
     \/ /\ line = << >>
        /\ \/ replies \in {<<"id">>, <<"NACK">>, <<"NACK", "NACK">>}
           \/ replies = <<"id", "ACK">> /\ boot = "erase"

InStep == pc \in Late => Coming \/ Answered \/ Silent \/ Behind

(* What the flash holds.                                                   *)
FlashKnown ==
  /\ pc = "erase" /\ replies # << >> => mem = Erase
  /\ pc \in {"write_cmd", "addr"} \/ (pc = "data" /\ line # << >>) => mem = Filled(block)
  /\ pc = "data" /\ replies # << >> => mem = Filled(block + 1)
  /\ Claims => mem = Written(img)
  /\ pc = "done" => line = << >>

(* Where the tool is in its image.                                         *)
InImage ==
  /\ pc \in Writing => block < Blocks /\ block * Step <= Size[img]
  /\ pc = "data" => Writable(gcount(img, block))

(* A run that met nothing: a frame that announces more than it holds is    *)
(* all that can stop it.                                                   *)
Undisturbed == fresh /\ ~met /\ pc \in Reading => Coming \/ Answered \/ Stuck

(* A data frame is ahead of every other, and the flash holds parts of its  *)
(* image only.                                                             *)
DataAhead ==
  \A n \in DOMAIN line : line[n].kind = "data" =>
    /\ n = 1
    /\ line[n].part[1] \in Images =>
         \A k \in 0 .. Blocks - 1 : mem[k][1] \in Images => mem[k][1] = line[n].part[1]

(* What holds of one run, however many frames are adrift when it starts.   *)
RunInv == TypeOK /\ InImage /\ Undisturbed /\ FailsForCause

(* What holds across runs.                                                 *)
IInv ==
  /\ RunInv
  /\ pc = "init" => InitPending
  /\ pc = "id" => IdPending
  /\ InStep
  /\ FlashKnown
  /\ DataAhead
  /\ NeverMixed
-----------------------------------------------------------------------------
(* Queues of one, two and three items.                                     *)
LEMMA LengthOne ==
  ASSUME NEW S, NEW s \in Seq(S), Len(s) = 1
  PROVE  s = <<s[1]>> /\ s # << >>
OBVIOUS

LEMMA LengthTwo ==
  ASSUME NEW S, NEW s \in Seq(S), Len(s) = 2
  PROVE  s = <<s[1], s[2]>> /\ s # << >>
OBVIOUS

LEMMA LengthThree ==
  ASSUME NEW S, NEW s \in Seq(S), Len(s) = 3
  PROVE  s = <<s[1], s[2], s[3]>>
OBVIOUS

LEMMA One ==
  ASSUME NEW x
  PROVE  /\ Head(<<x>>) = x /\ Tail(<<x>>) = << >> /\ Len(<<x>>) = 1
         /\ Append(<< >>, x) = <<x>> /\ <<x>> # << >>
OBVIOUS

LEMMA Two ==
  ASSUME NEW x, NEW y
  PROVE  /\ Head(<<x, y>>) = x /\ Tail(<<x, y>>) = <<y>> /\ Len(<<x, y>>) = 2
         /\ Append(<<x>>, y) = <<x, y>> /\ <<x, y>> # << >>
<1>1. Head(<<x, y>>) = x /\ Tail(<<x, y>>) = <<y>> /\ Len(<<x, y>>) = 2 /\ <<x, y>> # << >>
  OBVIOUS
<1>2. Append(<<x>>, y) = <<x, y>>
  <2> DEFINE S == {x, y}
  <2>1. <<x>> \in Seq(S) /\ y \in S /\ <<x, y>> \in Seq(S)
    OBVIOUS
  <2>2. Len(Append(<<x>>, y)) = 2 /\ Append(<<x>>, y) \in Seq(S)
    BY <2>1
  <2>3. Append(<<x>>, y)[1] = x /\ Append(<<x>>, y)[2] = y
    BY <2>1
  <2> HIDE DEF S
  <2> QED
    BY <2>2, <2>3, LengthTwo
<1> QED  BY <1>1, <1>2

LEMMA Appended ==
  ASSUME NEW S, NEW s \in Seq(S), NEW x \in S
  PROVE  /\ Len(s) \in Nat /\ Len(Append(s, x)) = Len(s) + 1
         /\ Append(s, x)[Len(s) + 1] = x
         /\ \A n \in 1 .. Len(s) : Append(s, x)[n] = s[n]
OBVIOUS

LEMMA Third ==
  ASSUME NEW S, NEW s \in Seq(S), NEW x \in S
  PROVE  Len(s) = 2 =>
           /\ Append(s, x) \in Seq(S) /\ Len(Append(s, x)) = 3
           /\ Append(s, x)[1] = s[1] /\ Append(s, x)[2] = s[2] /\ Append(s, x)[3] = x
<1> DEFINE a == Append(s, x)
           n == Len(s)
<1>1. a \in Seq(S)
  OBVIOUS
<1>2. Len(a) = n + 1 /\ a[n + 1] = x /\ \A k \in 1 .. n : a[k] = s[k]
  BY Appended
<1> HIDE DEF a, n
<1>3. ASSUME n = 2 PROVE n + 1 = 3 /\ 1 \in 1 .. n /\ 2 \in 1 .. n
  BY <1>3
<1> QED
  BY <1>1, <1>2, <1>3, Zenon DEF a, n

LEMMA Three ==
  ASSUME NEW x, NEW y, NEW z
  PROVE  /\ Head(<<x, y, z>>) = x /\ Tail(<<x, y, z>>) = <<y, z>>
         /\ Append(<<x, y>>, z) = <<x, y, z>> /\ <<x, y, z>> # << >>
<1>1. Head(<<x, y, z>>) = x /\ <<x, y, z>> # << >>
  OBVIOUS
<1>2. Tail(<<x, y, z>>) = <<y, z>>
  <2> DEFINE S == {x, y, z}
             t == Tail(<<x, y, z>>)
  <2>1. t \in Seq(S) /\ Len(t) = 2 /\ t[1] = y /\ t[2] = z
    OBVIOUS
  <2> HIDE DEF S, t
  <2> QED  BY <2>1, LengthTwo DEF t
<1>3. Append(<<x, y>>, z) = <<x, y, z>>
  <2> DEFINE S == {x, y, z}
             a == Append(<<x, y>>, z)
  <2>1. <<x, y>> \in Seq(S) /\ Len(<<x, y>>) = 2 /\ z \in S
    OBVIOUS
  <2>2. a \in Seq(S) /\ Len(a) = 3 /\ a[1] = x /\ a[2] = y /\ a[3] = z
    BY <2>1, Third
  <2> HIDE DEF S, a
  <2> QED  BY <2>2, LengthThree DEF a
<1> QED  BY <1>1, <1>2, <1>3

LEMMA Queue ==
  ASSUME NEW S, NEW s \in Seq(S), s # << >>
  PROVE  /\ Head(s) \in S /\ Head(s) = s[1]
         /\ Tail(s) \in Seq(S) /\ Len(s) \in Nat /\ Len(Tail(s)) = Len(s) - 1
         /\ \A n \in DOMAIN Tail(s) : n + 1 \in DOMAIN s /\ Tail(s)[n] = s[n + 1]
OBVIOUS

LEMMA Queued ==
  ASSUME NEW S, NEW s \in Seq(S), NEW x \in S
  PROVE  /\ Append(s, x) \in Seq(S) /\ Len(Append(s, x)) = Len(s) + 1
         /\ \A n \in DOMAIN Append(s, x) :
              \/ n \in DOMAIN s /\ Append(s, x)[n] = s[n]
              \/ n = Len(s) + 1 /\ Append(s, x)[n] = x
OBVIOUS

LEMMA Domains ==
  ASSUME NEW S, NEW s \in Seq(S)
  PROVE  DOMAIN s = 1 .. Len(s) /\ Len(s) \in Nat /\ (Len(s) = 0 <=> s = << >>)
OBVIOUS

(* The arithmetic of the image.                                            *)
LEMMA Mod ==
  ASSUME NEW b \in Nat, b > 0, NEW a \in 0 .. b - 1
  PROVE  a % b = a /\ (-1) % b = b - 1
OBVIOUS

LEMMA Constants ==
  /\ Word \in Nat /\ Word > 0 /\ Step \in Nat /\ Step > 0
  /\ Blocks \in Nat /\ Blocks > 0 /\ ByteValues \in Nat /\ Step < ByteValues
  /\ Step % Word = 0 /\ Adrift \in Nat /\ MaxRuns \in Nat
  /\ "erased" \notin Images /\ "junk" \notin Images
  /\ \A i \in Images : Size[i] \in Nat
BY DfuAssumption

LEMMA GcountType ==
  ASSUME NEW i \in Images, NEW k \in Nat
  PROVE  gcount(i, k) \in 0 .. Step /\ k * Step \in Nat
<1>1. Size[i] \in Nat /\ Step \in Nat /\ Step > 0
  BY Constants
<1>2. k * Step \in Nat
  BY <1>1
<1> QED
  BY <1>1, <1>2 DEF gcount

LEMMA ShortType ==
  ASSUME NEW n \in 0 .. Step
  PROVE  Short(n) \in Nat /\ (Short(n) = 0 <=> n # 0)
<1>1. ByteValues \in Nat /\ ByteValues > 0 /\ n < ByteValues
  BY Constants
<1>2. CASE n = 0
  <2>1. (n - 1) % ByteValues = ByteValues - 1
    BY <1>1, <1>2, Mod
  <2> QED  BY <1>1, <1>2, <2>1 DEF Short
<1>3. CASE n # 0
  <2>1. n - 1 \in 0 .. ByteValues - 1
    BY <1>1, <1>3
  <2>2. (n - 1) % ByteValues = n - 1
    BY <1>1, <2>1, Mod
  <2> QED  BY <1>1, <1>3, <2>2 DEF Short
<1> QED  BY <1>2, <1>3
LEMMA Multiples ==
  ASSUME NEW s \in Nat, NEW j \in Nat, NEW k \in Nat, j < k
  PROVE  /\ j * s \in Nat /\ k * s \in Nat
         /\ (j + 1) * s = j * s + s /\ j * s + s <= k * s
<1>1. PICK d \in Nat : k = j + 1 + d
  <2>1. k - j - 1 \in Nat /\ k = j + 1 + (k - j - 1)
    OBVIOUS
  <2> QED  BY <2>1
<1>2. d * s \in Nat /\ j * s \in Nat
  OBVIOUS
<1>3. k * s = j * s + s + d * s /\ (j + 1) * s = j * s + s
  BY <1>1
<1> QED
  BY <1>2, <1>3

LEMMA Division ==
  ASSUME NEW w \in Nat, w > 0, NEW b \in Nat
  PROVE  /\ b \div w \in Nat /\ b % w \in 0 .. w - 1
         /\ b = (b \div w) * w + (b % w)
<1>1. b \div w \in Nat
  OBVIOUS
<1>2. b % w \in 0 .. w - 1
  OBVIOUS
<1>3. b = w * (b \div w) + (b % w)
  OBVIOUS
<1>4. w * (b \div w) = (b \div w) * w
  BY <1>1
<1> QED
  BY <1>1, <1>2, <1>3, <1>4

LEMMA Remainder ==
  ASSUME NEW w \in Nat, w > 0, NEW x \in Nat, NEW y \in Nat,
         NEW r \in 0 .. w - 1, NEW t \in 0 .. w - 1, x * w + r = y * w + t
  PROVE  r = t
<1>1. x * w \in Nat /\ y * w \in Nat
  OBVIOUS
<1>2. CASE x < y
  <2>1. x * w + w <= y * w
    BY <1>2, Multiples
  <2> QED  BY <1>1, <2>1
<1>3. CASE y < x
  <2>1. y * w + w <= x * w
    BY <1>3, Multiples
  <2> QED  BY <1>1, <2>1
<1>4. CASE x = y
  BY <1>1, <1>4
<1> QED  BY <1>2, <1>3, <1>4

(* Whole words do not change what a length is modulo a word.               *)
LEMMA SameRemainder ==
  ASSUME NEW w \in Nat, w > 0, NEW q \in Nat, NEW b \in Nat
  PROVE  (q * w + b) % w = b % w
<1> DEFINE a == q * w + b
<1>1. a \in Nat
  OBVIOUS
<1>2. a \div w \in Nat /\ a % w \in 0 .. w - 1 /\ a = (a \div w) * w + (a % w)
  BY <1>1, Division
<1>3. b \div w \in Nat /\ b % w \in 0 .. w - 1 /\ b = (b \div w) * w + (b % w)
  BY Division
<1>4. q + (b \div w) \in Nat /\ (q + (b \div w)) * w = q * w + (b \div w) * w
  BY <1>3
<1>5. (q + (b \div w)) * w + (b % w) = (a \div w) * w + (a % w)
  <2> q * w \in Nat /\ (b \div w) * w \in Nat
    BY <1>3
  <2> QED  BY <1>2, <1>3, <1>4
<1> HIDE DEF a
<1> QED
  BY <1>2, <1>3, <1>4, <1>5, Remainder DEF a

LEMMA WholeWords ==
  ASSUME NEW k \in Nat
  PROVE  \E q \in Nat : k * Step = q * Word
<1> DEFINE d == Step \div Word
<1>1. Step \in Nat /\ Word \in Nat /\ Word > 0 /\ Step % Word = 0
  BY Constants
<1>2. d \in Nat /\ Step = d * Word + (Step % Word)
  BY <1>1, Division
<1> HIDE DEF d
<1>3. k * Step = (k * d) * Word /\ k * d \in Nat
  BY <1>1, <1>2
<1> QED
  BY <1>3

(* The whole blocks before block k leave the rest of the image.            *)
LEMMA Rest ==
  ASSUME NEW i \in Images, NEW k \in Nat, k < Blocks
  PROVE  /\ gcount(i, k) = Step => (k + 1) * Step <= Size[i]
         /\ gcount(i, k) < Step => \A j \in Nat : k < j => gcount(i, j) = 0
<1>1. Size[i] \in Nat /\ Step \in Nat /\ Step > 0
  BY Constants
<1>2. k * Step \in Nat /\ (k + 1) * Step = k * Step + Step
  BY <1>1, Multiples
<1>3. ASSUME gcount(i, k) = Step PROVE (k + 1) * Step <= Size[i]
  BY <1>1, <1>2, <1>3 DEF gcount
<1>4. ASSUME gcount(i, k) < Step, NEW j \in Nat, k < j PROVE gcount(i, j) = 0
  <2>1. k * Step + Step <= j * Step /\ j * Step \in Nat
    BY <1>1, <1>4, Multiples
  <2>2. Size[i] - k * Step < Step
    BY <1>1, <1>2, <1>4 DEF gcount
  <2> DEFINE x == k * Step
             y == j * Step
  <2>3. x \in Nat /\ y \in Nat /\ x + Step <= y /\ Size[i] - x < Step
    BY <1>2, <2>1, <2>2
  <2>4. gcount(i, j) = IF Size[i] - y < 0 THEN 0
                       ELSE IF Size[i] - y < Step THEN Size[i] - y ELSE Step
    BY DEF gcount
  <2> HIDE DEF x, y
  <2> QED  BY <1>1, <2>3, <2>4
<1> QED  BY <1>3, <1>4

(* A length that stops an upload is one of those that Uploadable names.    *)
LEMMA LengthIsCause ==
  ASSUME img \in Images, NEW k \in Nat, k < Blocks, k * Step <= Size[img],
         ~Writable(gcount(img, k)) \/ gcount(img, k) = 0
  PROVE  ~Uploadable
<1> DEFINE x == k * Step
           r == Size[img] - x
<1>1. Size[img] \in Nat /\ Step \in Nat /\ Step > 0 /\ Word \in Nat /\ Word > 0
  BY Constants
<1>2. x \in Nat /\ r \in Nat /\ Size[img] = x + r
  BY <1>1
<1>3. gcount(img, k) = IF r < Step THEN r ELSE Step
  BY <1>2 DEF gcount
<1>4. r < Step
  <2>1. Writable(Step) /\ Step # 0
    BY Constants DEF Writable
  <2> HIDE DEF r
  <2> QED  BY <2>1, <1>3
<1>5. Size[img] < Blocks * Step
  <2>1. x + Step <= Blocks * Step /\ Blocks * Step \in Nat
    BY <1>1, Multiples, Constants
  <2> HIDE DEF x, r
  <2> DEFINE y == Blocks * Step
  <2> HIDE DEF y
  <2> QED  BY <1>1, <1>2, <1>4, <2>1 DEF y
<1>6. Size[img] % Word = r % Word
  <2>1. (k * Step + r) % Word = r % Word
    <3>1. PICK q \in Nat : k * Step = q * Word
      BY WholeWords
    <3> HIDE DEF r
    <3>2. (q * Word + r) % Word = r % Word
      BY <1>1, <1>2, SameRemainder
    <3> QED  BY <3>1, <3>2
  <2> HIDE DEF r
  <2> QED  BY <1>2, <2>1 DEF x
<1>7. Size[img] % Step = r % Step
  <2> HIDE DEF r
  <2>1. (k * Step + r) % Step = r % Step
    BY <1>1, <1>2, SameRemainder
  <2> QED  BY <1>2, <2>1 DEF x
<1>8. Size[img] % Word # 0 \/ Size[img] % Step = 0
  <2> HIDE DEF r, x
  <2>1. r = gcount(img, k)
    BY <1>3, <1>4
  <2>2. CASE r = 0
    <3>1. 0 % Step = 0
      BY <1>1, Mod
    <3> QED  BY <1>7, <2>2, <3>1
  <2>3. CASE r % Word # 0
    BY <1>6, <2>3
  <2>4. r < ByteValues
    BY <1>1, <1>2, <1>4, Constants
  <2> QED  BY <2>1, <2>2, <2>3, <2>4 DEF Writable
<1> HIDE DEF x, r
<1>9. Blocks * Step \in Nat
  BY Constants
<1> QED
  BY <1>1, <1>5, <1>8, <1>9 DEF Uploadable

(* No file, or an empty one, is not uploadable either.                     *)
LEMMA NoFileIsCause ==
  ASSUME img \in Images, ~FileOpens
  PROVE  ~Uploadable
<1>1. img = Missing /\ Size[img] = 0
  BY DfuAssumption DEF FileOpens
<1>2. gcount(img, 0) = 0
  <2>1. Step \in Nat /\ Step > 0 /\ 0 * Step = 0
    BY Constants
  <2> QED  BY <1>1, <2>1 DEF gcount
<1>3. 0 * Step <= Size[img] /\ 0 < Blocks
  BY <1>1, Constants
<1> QED
  BY <1>2, <1>3, LengthIsCause

(* What the flash holds.                                                   *)
LEMMA PartType ==
  ASSUME NEW i \in Images, NEW k \in 0 .. Blocks - 1
  PROVE  Part(i, k) \in Contents /\ (Part(i, k)[1] \in Images => Part(i, k)[1] = i)
BY Constants DEF Part, Contents, Erased

LEMMA FilledType ==
  ASSUME img \in Images, NEW k \in Nat
  PROVE  /\ Filled(k) \in [0 .. Blocks - 1 -> Contents]
         /\ \A b \in 0 .. Blocks - 1 : Filled(k)[b][1] \in Images => Filled(k)[b][1] = img
BY PartType, Constants DEF Filled, Contents, Erased

LEMMA FilledNext ==
  ASSUME NEW k \in 0 .. Blocks - 1
  PROVE  [Filled(k) EXCEPT ![k] = Part(img, k)] = Filled(k + 1)
<1>1. \A b \in 0 .. Blocks - 1 : b < k + 1 <=> b < k \/ b = k
  BY Constants
<1> QED
  BY <1>1 DEF Filled

LEMMA FilledEnds ==
  /\ Filled(0) = Erase
  /\ Filled(Blocks) = Written(img)
BY Constants DEF Filled, Erase, Written

LEMMA FilledRest ==
  ASSUME img \in Images, NEW k \in 0 .. Blocks - 1, LastBlock, block = k
  PROVE  Filled(k + 1) = Written(img)
<1>1. \A j \in Nat : k < j => Part(img, j) = Erased
  BY Rest, Constants DEF LastBlock, Part
<1>2. ASSUME NEW b \in 0 .. Blocks - 1
      PROVE  (IF b < k + 1 THEN Part(img, b) ELSE Erased) = Part(img, b)
  BY <1>1
<1> QED
  BY <1>2 DEF Filled, Written
LEMMA ItemTypes ==
  /\ INIT \in Items
  /\ \A c \in {"GET_ID", "EXTENDED_ERASE", "WRITE_MEMORY", "SPECIAL"} : Cmd(c) \in Items
  /\ \A kind \in {"erase", "special", "reset"} : [kind |-> kind] \in Items
  /\ \A b \in 0 .. Blocks - 1 : [kind |-> "addr", to |-> b] \in Items
  /\ \A m \in Nat, p \in Contents : [kind |-> "data", missing |-> m, part |-> p] \in Items
BY DEF Items, INIT, Cmd

LEMMA DataType ==
  ASSUME NEW x \in Items
  PROVE  /\ x.kind = "addr" => x.to \in 0 .. Blocks - 1
         /\ x.kind = "data" => x.missing \in Nat /\ x.part \in Contents
BY DEF Items

-----------------------------------------------------------------------------
(***************************************************************************)
(* A run by itself: RunInv, however many frames are adrift.                *)
(***************************************************************************)
LEMMA InitRun == Init => RunInv
<1> SUFFICES ASSUME Init PROVE RunInv
  OBVIOUS
<1>1. \A i \in Images : Written(i) \in [0 .. Blocks - 1 -> Contents]
  BY PartType DEF Written
<1>2. TypeOK
  <2>1. 0 \in 0 .. Blocks /\ 0 \in 0 .. Blocks - 1 /\ 0 \in 0 .. MaxRuns
    BY Constants
  <2>2. line \in Seq(Items) /\ replies \in Seq({"ACK", "NACK", "id", "reset"})
    BY DEF Init
  <2> QED  BY <1>1, <2>1, <2>2 DEF Init, TypeOK, Ended
<1> QED
  BY <1>2 DEF Init, RunInv, InImage, Writing, Undisturbed, Reading, FailsForCause

LEMMA Sequences == RunInv => line \in Seq(Items) /\ replies \in Seq(Answers)
BY DEF RunInv, TypeOK, Answers

(* What a run that met nothing reads is the answer to its frame.           *)
LEMMA AnswerIsOwn ==
  ASSUME Answered
  PROVE  /\ line = << >> /\ replies # << >> /\ Tail(replies) = << >> /\ Head(replies) \in Wanted
         /\ pc \in Reading
<1>1. /\ line = << >>
      /\ \/ pc = "id" /\ replies = <<"id">>
         \/ pc = "reset" /\ replies = <<"reset">>
         \/ pc \in Reading \ {"id", "reset"} /\ replies = <<"ACK">>
  BY DEF Answered, Reading
<1> QED
  BY <1>1, One DEF Wanted, InitAnswers, Reading

LEMMA ReadsTypes ==
  ASSUME RunInv, replies # << >>, replies' = Tail(replies),
         UNCHANGED <<run_vars, boot_vars, met>>,
         line' \in Seq(Items), pc' \in Ended \cup Reading, block' \in 0 .. Blocks
  PROVE  TypeOK'
<1>1. replies' \in Seq({"ACK", "NACK", "id", "reset"})
  BY Queue DEF RunInv, TypeOK
<1> QED
  BY <1>1 DEF RunInv, TypeOK, run_vars, boot_vars

(* A step that reads an answer and sends the next frame ...                *)
LEMMA SendRun ==
  ASSUME RunInv, pc \in Reading, Takes(Wanted), NEW x \in Items, line' = Append(line, x),
         pc' \in Reading, block' \in 0 .. Blocks, InImage',
         Answered /\ line' = <<x>> /\ replies' = << >> /\ UNCHANGED <<run_vars, boot_vars, met>> =>
           Coming'
  PROVE  RunInv' /\ (Answered => Coming')
<1>1. replies # << >> /\ replies' = Tail(replies) /\ UNCHANGED <<run_vars, boot_vars, met>>
  BY DEF Takes
<1>2. Answered => Coming'
  BY <1>1, AnswerIsOwn, One
<1>3. TypeOK'
  <2>1. line' \in Seq(Items)
    BY Sequences, Queued
  <2> QED  BY <1>1, <2>1, ReadsTypes
<1>4. Undisturbed'
  BY <1>1, <1>2 DEF RunInv, Undisturbed, Coming, Stuck, Silent, run_vars
<1>5. FailsForCause'
  BY DEF FailsForCause, Reading
<1> QED
  BY <1>2, <1>3, <1>4, <1>5 DEF RunInv

(* ... or that ends the run.                                               *)
LEMMA EndRun ==
  ASSUME RunInv, TypeOK', pc' \in Ended, FailsForCause'
  PROVE  RunInv'
<1>1. pc' \notin Reading /\ pc' \notin Writing /\ pc' # "data"
  BY DEF Ended, Reading, Writing
<1> QED
  BY <1>1 DEF RunInv, InImage, Undisturbed

LEMMA OpenRun ==
  ASSUME RunInv, open_session PROVE RunInv' /\ (Answered => Coming')
<1>1. /\ pc = "init" /\ Takes(Wanted) /\ pc' = "id" /\ line' = Append(line, ID) /\ block' = block
  BY DEF open_session, Reads, Sends, ID
<1>2. ID \in Items /\ block' \in 0 .. Blocks
  BY <1>1, ItemTypes DEF ID, RunInv, TypeOK
<1>3. Answered /\ line' = <<ID>> /\ replies' = << >> /\ UNCHANGED <<run_vars, boot_vars, met>> => Coming'
  BY <1>1 DEF Answered, Coming, boot_vars
<1>4. InImage'
  BY <1>1 DEF InImage, Writing
<1> QED
  BY <1>1, <1>2, <1>3, <1>4, SendRun DEF Reading

LEMMA NoFileRun == ASSUME RunInv, no_file PROVE RunInv'
<1>1. /\ pc' = "failed" /\ UNCHANGED <<line, block, run_vars, boot_vars, met>>
      /\ replies # << >> /\ replies' = Tail(replies) /\ ~FileOpens
  BY DEF no_file, Reads, Takes, Ends
<1>2. TypeOK'
  BY <1>1, ReadsTypes DEF RunInv, TypeOK, Ended
<1>3. FailsForCause'
  BY <1>1, NoFileIsCause DEF RunInv, TypeOK, FailsForCause, Uploadable, run_vars
<1> QED
  BY <1>1, <1>2, <1>3, EndRun DEF Ended

LEMMA GetIdRun ==
  ASSUME RunInv, get_id PROVE RunInv' /\ (Answered => Coming')
<1>1. /\ pc = "id" /\ Takes(Wanted) /\ pc' = "erase_cmd" /\ line' = Append(line, ERASE) /\ block' = block
  BY DEF get_id, Reads, Sends, ERASE
<1>2. ERASE \in Items /\ block' \in 0 .. Blocks
  BY <1>1, ItemTypes DEF ERASE, RunInv, TypeOK
<1>3. Answered /\ line' = <<ERASE>> /\ replies' = << >> /\ UNCHANGED <<run_vars, boot_vars, met>> => Coming'
  BY <1>1 DEF Answered, Coming, boot_vars
<1>4. InImage'
  BY <1>1 DEF InImage, Writing
<1> QED
  BY <1>1, <1>2, <1>3, <1>4, SendRun DEF Reading

LEMMA FullEraseRun ==
  ASSUME RunInv, full_erase PROVE RunInv' /\ (Answered => Coming')
<1> DEFINE x == [kind |-> "erase"]
<1>1. /\ pc = "erase_cmd" /\ Takes(Wanted) /\ pc' = "erase" /\ line' = Append(line, x) /\ block' = block
  BY DEF full_erase, Reads, Sends
<1>2. x \in Items /\ block' \in 0 .. Blocks
  BY <1>1, ItemTypes DEF RunInv, TypeOK
<1>3. Answered /\ line' = <<x>> /\ replies' = << >> /\ UNCHANGED <<run_vars, boot_vars, met>> => Coming'
  BY <1>1 DEF Answered, Coming, boot_vars
<1>4. InImage'
  BY <1>1 DEF InImage, Writing
<1> QED
  BY <1>1, <1>2, <1>3, <1>4, SendRun DEF Reading

(* The loop of the blocks goes on with block k ...                         *)
LEMMA WriteAtRun ==
  ASSUME RunInv, pc \in Reading, Takes(Wanted), NEW k \in 0 .. Blocks - 1, write_at(k),
         k * Step <= Size[img], Answered => boot = "cmd"
  PROVE  RunInv' /\ (Answered => Coming')
<1> DEFINE x == Cmd("WRITE_MEMORY")
<1>1. pc' = "write_cmd" /\ line' = Append(line, x) /\ block' = k
  BY DEF write_at
<1>2. x \in Items /\ block' \in 0 .. Blocks /\ k < Blocks
  BY <1>1, ItemTypes, Constants
<1>3. Answered /\ line' = <<x>> /\ replies' = << >> /\ UNCHANGED <<run_vars, boot_vars, met>> => Coming'
  BY <1>1 DEF Coming, boot_vars
<1>4. InImage'
  BY <1>1, <1>2 DEF InImage, Writing, Takes, run_vars
<1> QED
  BY <1>1, <1>2, <1>3, <1>4, SendRun DEF Reading

(* ... or is over.                                                         *)
LEMMA FlashDoneRun ==
  ASSUME RunInv, pc \in Reading, Takes(Wanted), flash_done, Answered => boot = "cmd"
  PROVE  RunInv' /\ (Answered => Coming' \/ pc' \in Ended)
<1> DEFINE x == Cmd("SPECIAL")
<1>1. CASE Sends(x, "special_cmd")
  <2>1. pc' = "special_cmd" /\ line' = Append(line, x) /\ block' = block
    BY <1>1 DEF Sends
  <2>2. x \in Items /\ block' \in 0 .. Blocks
    BY <2>1, ItemTypes DEF RunInv, TypeOK
  <2>3. Answered /\ line' = <<x>> /\ replies' = << >> /\ UNCHANGED <<run_vars, boot_vars, met>> => Coming'
    BY <2>1 DEF Coming, boot_vars
  <2>4. InImage'
    BY <2>1 DEF InImage, Writing
  <2> QED
    BY <2>1, <2>2, <2>3, <2>4, SendRun DEF Reading
<1>2. CASE Ends("done")
  <2>1. pc' = "done" /\ line' = line /\ block' = block
    BY <1>2 DEF Ends
  <2>2. TypeOK'
    BY <2>1, ReadsTypes DEF Takes, RunInv, TypeOK, Ended
  <2> QED
    BY <2>1, <2>2, EndRun DEF FailsForCause, Ended
<1> QED
  BY <1>1, <1>2 DEF flash_done

LEMMA FirstBlockRun ==
  ASSUME RunInv, first_block PROVE RunInv' /\ (Answered => Coming')
<1>1. pc = "erase" /\ Takes(Wanted) /\ write_block(0)
  BY DEF first_block, Reads
<1>2. 0 \in 0 .. Blocks - 1 /\ 0 # Blocks /\ 0 * Step <= Size[img]
  <2>1. Size[img] \in Nat /\ 0 * Step = 0
    BY Constants DEF RunInv, TypeOK
  <2> QED  BY <2>1, Constants
<1>3. write_at(0)
  BY <1>1, <1>2 DEF write_block
<1> QED
  BY <1>1, <1>2, <1>3, WriteAtRun DEF Reading, Answered

LEMMA WriteAddressRun ==
  ASSUME RunInv, write_address PROVE RunInv' /\ (Answered => Coming')
<1> DEFINE x == [kind |-> "addr", to |-> block]
<1>1. /\ pc = "write_cmd" /\ Takes(Wanted) /\ pc' = "addr" /\ line' = Append(line, x) /\ block' = block
  BY DEF write_address, Reads, Sends
<1>2. block < Blocks /\ block * Step <= Size[img]
  BY <1>1 DEF RunInv, InImage, Writing
<1>3. x \in Items /\ block' \in 0 .. Blocks
  <2>1. block \in 0 .. Blocks /\ block \in 0 .. Blocks - 1
    BY <1>2, Constants DEF RunInv, TypeOK
  <2> QED  BY <1>1, <2>1, ItemTypes
<1>4. Answered /\ line' = <<x>> /\ replies' = << >> /\ UNCHANGED <<run_vars, boot_vars, met>> => Coming'
  BY <1>1 DEF Answered, Coming, boot_vars
<1>5. InImage'
  BY <1>1, <1>2 DEF InImage, Takes, run_vars
<1> QED
  BY <1>1, <1>3, <1>4, <1>5, SendRun DEF Reading

LEMMA WriteDataRun ==
  ASSUME RunInv, write_data PROVE RunInv' /\ (Answered => Coming' \/ pc' \in Ended)
<1> DEFINE n == gcount(img, block)
           x == [kind |-> "data", missing |-> Short(n), part |-> Part(img, block)]
<1>1. pc = "addr" /\ Takes(Wanted)
  BY DEF write_data, Reads
<1>2. block < Blocks /\ block * Step <= Size[img]
  BY <1>1 DEF RunInv, InImage, Writing
<1>3. img \in Images /\ block \in 0 .. Blocks - 1 /\ block \in Nat
  BY <1>2, Constants DEF RunInv, TypeOK
<1>4. CASE Writable(n) /\ Sends(x, "data")
  <2>1. pc' = "data" /\ line' = Append(line, x) /\ block' = block
    BY <1>4 DEF Sends
  <2>2. x \in Items
    <3>1. Short(n) \in Nat
      BY <1>3, GcountType, ShortType
    <3>2. Part(img, block) \in Contents
      BY <1>3, PartType
    <3> QED  BY <3>1, <3>2, ItemTypes
  <2>3. Answered /\ line' = <<x>> /\ replies' = << >> /\ UNCHANGED <<run_vars, boot_vars, met>> => Coming'
    BY <1>1, <2>1 DEF Answered, Coming, boot_vars, run_vars
  <2>4. InImage'
    BY <1>1, <1>2, <1>4, <2>1 DEF InImage, Takes, run_vars
  <2>5. block' \in 0 .. Blocks
    BY <1>3, <2>1, Constants
  <2> HIDE DEF x
  <2> QED
    BY <1>1, <2>1, <2>2, <2>3, <2>4, <2>5, SendRun DEF Reading
<1>5. CASE ~Writable(n) /\ Ends("failed")
  <2>1. pc' = "failed" /\ line' = line /\ block' = block
    BY <1>5 DEF Ends
  <2>2. TypeOK'
    BY <1>1, <2>1, ReadsTypes DEF Takes, RunInv, TypeOK, Ended
  <2>3. ~Uploadable
    BY <1>2, <1>3, <1>5, LengthIsCause
  <2>4. FailsForCause'
    BY <1>1, <2>3 DEF FailsForCause, Uploadable, Takes, run_vars
  <2> QED
    BY <2>1, <2>2, <2>4, EndRun DEF Ended
<1> QED
  BY <1>4, <1>5 DEF write_data

LEMMA NextBlockRun ==
  ASSUME RunInv, next_block PROVE RunInv' /\ (Answered => Coming' \/ pc' \in Ended)
<1>1. pc = "data" /\ Takes(Wanted) /\ pc \in Reading /\ (Answered => boot = "cmd")
  BY DEF next_block, Reads, Reading, Answered
<1>2. CASE flash_done
  BY <1>1, <1>2, FlashDoneRun
<1>3. CASE ~LastBlock /\ block + 1 # Blocks /\ write_at(block + 1)
  <2>1. block < Blocks /\ img \in Images /\ block \in Nat
    BY <1>1, Constants DEF RunInv, InImage, Writing, TypeOK
  <2>2. block + 1 \in 0 .. Blocks - 1
    BY <1>3, <2>1, Constants
  <2>3. gcount(img, block) = Step
    BY <1>3, <2>1, GcountType, Constants DEF LastBlock
  <2>4. (block + 1) * Step <= Size[img]
    BY <2>1, <2>3, Rest
  <2> QED  BY <1>1, <1>3, <2>2, <2>4, WriteAtRun
<1> QED
  BY <1>2, <1>3 DEF next_block, write_block

LEMMA ResetRun ==
  ASSUME RunInv, dfu_reset \/ dfu_reset_data PROVE RunInv' /\ (Answered => Coming')
<1>1. PICK x \in {[kind |-> "special"], [kind |-> "reset"]} :
        /\ \/ dfu_reset /\ pc = "special_cmd" /\ pc' = "special" /\ x = [kind |-> "special"]
           \/ dfu_reset_data /\ pc = "special" /\ pc' = "reset" /\ x = [kind |-> "reset"]
        /\ Takes(Wanted) /\ line' = Append(line, x) /\ block' = block
  BY DEF dfu_reset, dfu_reset_data, Reads, Sends
<1>2. x \in Items /\ block' \in 0 .. Blocks
  BY <1>1, ItemTypes DEF RunInv, TypeOK
<1>3. Answered /\ line' = <<x>> /\ replies' = << >> /\ UNCHANGED <<run_vars, boot_vars, met>> => Coming'
  BY <1>1 DEF Answered, Coming, boot_vars
<1>4. InImage'
  BY <1>1 DEF InImage, Writing
<1> QED
  BY <1>1, <1>2, <1>3, <1>4, SendRun DEF Reading

LEMMA ResetEndRun == ASSUME RunInv, dfu_reset_end PROVE RunInv'
<1>1. Takes(Wanted) /\ pc' = "done" /\ line' = line /\ block' = block
  BY DEF dfu_reset_end, Reads, Ends
<1>2. TypeOK'
  BY <1>1, ReadsTypes DEF Takes, RunInv, TypeOK, Ended
<1> QED
  BY <1>1, <1>2, EndRun DEF FailsForCause, Ended

(* A run that met nothing has no wrong answer to read, and waits in vain   *)
(* only for the answer to a frame that announced more than it held.        *)
LEMMA WrongAnswerRun == ASSUME RunInv, wait_for_ack PROVE RunInv'
<1>1. /\ pc \in Reading /\ pc' = "failed" /\ UNCHANGED <<line, block, run_vars, boot_vars, met>>
      /\ replies # << >> /\ replies' = Tail(replies) /\ Head(replies) \notin Wanted
  BY DEF wait_for_ack, Takes, Ends
<1>2. TypeOK'
  BY <1>1, ReadsTypes DEF RunInv, TypeOK, Ended
<1>3. ~(fresh /\ ~met)
  BY <1>1, AnswerIsOwn DEF RunInv, Undisturbed, Coming, Stuck, Silent
<1>4. FailsForCause'
  BY <1>1, <1>3 DEF FailsForCause, run_vars
<1> QED
  BY <1>1, <1>2, <1>4, EndRun DEF Ended

LEMMA TimeoutRun == ASSUME RunInv, timeout PROVE RunInv'
<1>1. /\ pc \in Reading /\ pc' = "failed" /\ UNCHANGED <<line, block, run_vars, boot_vars, replies>>
      /\ replies = << >> /\ met' = (met \/ line # << >>)
  BY DEF timeout, Ends
<1>2. TypeOK'
  BY <1>1 DEF RunInv, TypeOK, Ended, run_vars, boot_vars
<1>3. FailsForCause'
  <2> SUFFICES ASSUME fresh, ~met, line = << >> PROVE ~Uploadable
    BY <1>1 DEF FailsForCause, Uploadable, run_vars
  <2>1. ~Coming /\ ~Answered
    BY <1>1 DEF Coming, Answered
  <2>2. pc = "data" /\ gcount(img, block) = 0
    BY <1>1, <2>1 DEF RunInv, Undisturbed, Stuck
  <2>3. block < Blocks /\ block * Step <= Size[img] /\ img \in Images /\ block \in Nat
    BY <2>2, Constants DEF RunInv, TypeOK, InImage, Writing
  <2> QED
    BY <2>2, <2>3, LengthIsCause
<1> QED
  BY <1>1, <1>2, <1>3, EndRun DEF Ended

LEMMA ToolRun ==
  ASSUME RunInv, tool PROVE RunInv' /\ (Answered => Coming' \/ pc' \in Ended)
<1>1. CASE open_session \/ get_id \/ full_erase \/ first_block \/ write_address \/ dfu_reset \/ dfu_reset_data
  BY <1>1, OpenRun, GetIdRun, FullEraseRun, FirstBlockRun, WriteAddressRun, ResetRun
<1>2. CASE write_data \/ next_block
  BY <1>2, WriteDataRun, NextBlockRun
<1>3. CASE no_file \/ dfu_reset_end \/ wait_for_ack \/ timeout
  <2>1. pc' \in Ended
    BY <1>3 DEF no_file, dfu_reset_end, wait_for_ack, timeout, Ends, Ended
  <2> QED  BY <1>3, <2>1, NoFileRun, ResetEndRun, WrongAnswerRun, TimeoutRun
<1> QED
  BY <1>1, <1>2, <1>3 DEF tool

(* The bootloader takes the first frame.  How it answers an INIT and the   *)
(* commands, when it waits for one, is all that matters across runs.       *)
LEMMA BootAnswers ==
  ASSUME RunInv, bootloader
  PROVE  /\ line # << >> /\ line' = Tail(line) /\ UNCHANGED <<run_vars, pc, block, met>>
         /\ boot' \in {"start", "cmd", "half", "rest", "firmware"} \cup Frames
         /\ \/ replies' = replies
            \/ \E a \in Answers :
                 /\ replies' = Append(replies, a)
                 /\ Head(line).kind = "INIT" => a \in Either
                 /\ a = "id" => boot' = "cmd"
         /\ boot = "cmd" /\ Head(line) = INIT => boot' = "half" /\ replies' = replies
         /\ boot = "cmd" /\ Head(line) = ID => boot' = "cmd" /\ replies' = Append(replies, "id")
         /\ boot = "cmd" /\ Head(line) = ERASE => boot' = "erase" /\ replies' = Append(replies, "ACK")
         /\ boot = "half" /\ Head(line) \in {ID, ERASE} =>
              boot' = "half" /\ replies' = Append(replies, "NACK")
<1> USE DEF Receives, Replies, Answers, Either, Frames
<1>1. INIT.kind = "INIT" /\ ID.kind = "cmd" /\ ID.c = "GET_ID" /\ ERASE.kind = "cmd" /\ ERASE.c = "EXTENDED_ERASE"
  BY DEF INIT, ID, ERASE, Cmd
<1>2. boot \in {"start", "cmd", "half", "rest", "firmware"} \cup Frames
  BY DEF RunInv, TypeOK
<1>3. CASE boot_start
  BY <1>1, <1>3 DEF boot_start
<1>4. CASE boot_command
  BY <1>1, <1>4 DEF boot_command
<1>5. CASE boot_half
  BY <1>1, <1>5 DEF boot_half
<1>6. CASE boot_erase \/ boot_addr \/ boot_special \/ boot_reset
  BY <1>1, <1>6 DEF boot_erase, boot_addr, boot_special, boot_reset
<1>7. CASE boot_data
  BY <1>1, <1>7 DEF boot_data
<1>8. CASE boot_stray
  BY <1>1, <1>2, <1>8 DEF boot_stray
<1>9. CASE boot_ignore
  BY <1>1, <1>2, <1>9 DEF boot_ignore, boot_vars
<1> QED
  BY <1>3, <1>4, <1>5, <1>6, <1>7, <1>8, <1>9 DEF bootloader

(* The frame on its way to a bootloader in step is the one its state is    *)
(* for.                                                                    *)
LEMMA ComingHead ==
  ASSUME Coming
  PROVE  /\ Tail(line) = << >> /\ replies = << >>
         /\ \/ pc = "init" /\ Head(line) = INIT /\ boot = "start"
            \/ pc = "id" /\ Head(line) = ID /\ boot = "cmd"
            \/ pc = "erase_cmd" /\ Head(line) = ERASE /\ boot = "cmd"
            \/ pc = "erase" /\ Head(line) = [kind |-> "erase"] /\ boot = "erase"
            \/ pc = "write_cmd" /\ Head(line) = Cmd("WRITE_MEMORY") /\ boot = "cmd"
            \/ pc = "addr" /\ Head(line) = [kind |-> "addr", to |-> block] /\ boot = "addr"
            \/ /\ pc = "data" /\ boot = "data" /\ at = block
               /\ Head(line) = [kind |-> "data", missing |-> Short(gcount(img, block)),
                                part |-> Part(img, block)]
            \/ pc = "special_cmd" /\ Head(line) = Cmd("SPECIAL") /\ boot = "cmd"
            \/ pc = "special" /\ Head(line) = [kind |-> "special"] /\ boot = "special"
            \/ pc = "reset" /\ Head(line) = [kind |-> "reset"] /\ boot = "reset"
BY One DEF Coming

(* It answers the frame of a run in step, unless the frame announced more  *)
(* than it held.                                                           *)
LEMMA BootInStep ==
  ASSUME RunInv, bootloader, Coming
  PROVE  Answered' \/ Stuck'
<1> USE ComingHead DEF Receives, Replies, ID, ERASE, INIT, Cmd
<1>1. line' = << >> /\ UNCHANGED <<run_vars, pc, block, met>> /\ replies = << >>
  BY BootAnswers
<1>2. \A a : Append(replies, a) = <<a>>
  BY <1>1, One
<1>3. CASE boot_start
  BY <1>1, <1>2, <1>3 DEF boot_start, Answered
<1>4. CASE boot_command
  BY <1>1, <1>2, <1>4 DEF boot_command, Answered
<1>5. CASE boot_half
  BY <1>5 DEF boot_half
<1>6. CASE boot_erase
  BY <1>1, <1>2, <1>6 DEF boot_erase, Answered
<1>7. CASE boot_addr
  BY <1>1, <1>2, <1>7 DEF boot_addr, Answered
<1>8. CASE boot_data
  <2>1. pc = "data" /\ at = block /\ boot = "data" /\ Head(line).missing = Short(gcount(img, block))
    BY <1>8 DEF boot_data
  <2>2. CASE Head(line).missing = 0
    BY <1>1, <1>2, <1>8, <2>1, <2>2 DEF boot_data, Answered
  <2>3. CASE Head(line).missing # 0
    <3>1. img \in Images /\ block \in Nat
      BY Constants DEF RunInv, TypeOK
    <3>2. gcount(img, block) = 0
      BY <2>1, <2>3, <3>1, GcountType, ShortType
    <3> QED  BY <1>1, <1>8, <2>1, <2>3, <3>2 DEF boot_data, Stuck, Silent, run_vars
  <2> QED  BY <2>2, <2>3
<1>9. CASE boot_special \/ boot_reset
  BY <1>1, <1>2, <1>9 DEF boot_special, boot_reset, Answered
<1>10. CASE boot_stray
  BY <1>10 DEF boot_stray, Frames
<1>11. CASE boot_ignore
  BY <1>11 DEF boot_ignore
<1> QED
  BY <1>3, <1>4, <1>5, <1>6, <1>7, <1>8, <1>9, <1>10, <1>11 DEF bootloader

LEMMA BootTypes ==
  ASSUME RunInv, bootloader
  PROVE  at' \in 0 .. Blocks - 1 /\ mem' \in [0 .. Blocks - 1 -> Contents]
<1>1. at \in 0 .. Blocks - 1 /\ mem \in [0 .. Blocks - 1 -> Contents]
  BY DEF RunInv, TypeOK
<1>2. Head(line) \in Items
  BY BootAnswers, Sequences, Queue
<1>3. CASE boot_start \/ boot_command \/ boot_half \/ boot_special \/ boot_reset \/ boot_stray \/ boot_ignore
  BY <1>1, <1>3 DEF boot_start, boot_command, boot_half, boot_special, boot_reset, boot_stray,
     boot_ignore, boot_vars
<1>4. CASE boot_erase
  BY <1>1, <1>4 DEF boot_erase, Erase, Erased, Contents
<1>5. CASE boot_addr
  BY <1>1, <1>2, <1>5, DataType DEF boot_addr, Receives
<1>6. CASE boot_data
  <2>1. Head(line).part \in Contents /\ Junk \in Contents
    BY <1>2, <1>6, DataType DEF boot_data, Receives, Junk, Contents
  <2>2. PICK c \in Contents : mem' = [mem EXCEPT ![at] = c] /\ at' = at
    BY <1>6, <2>1 DEF boot_data
  <2> QED  BY <1>1, <2>2
<1> QED
  BY <1>3, <1>4, <1>5, <1>6 DEF bootloader

LEMMA BootRun == ASSUME RunInv, bootloader PROVE RunInv'
<1>1. /\ line # << >> /\ line' = Tail(line) /\ UNCHANGED <<run_vars, pc, block, met>>
      /\ boot' \in {"start", "cmd", "half", "rest", "firmware"} \cup Frames
      /\ replies' = replies \/ \E a \in Answers : replies' = Append(replies, a)
  BY BootAnswers
<1>2. line' \in Seq(Items) /\ replies' \in Seq(Answers)
  <2>1. line' \in Seq(Items)
    BY <1>1, Sequences, Queue
  <2>2. \A a \in Answers : Append(replies, a) \in Seq(Answers)
    BY Sequences, Queued
  <2> QED  BY <1>1, <2>1, <2>2, Sequences
<1>3. TypeOK'
  BY <1>1, <1>2, BootTypes DEF RunInv, TypeOK, Answers, run_vars
<1>4. Undisturbed'
  BY <1>1, BootInStep DEF RunInv, Undisturbed, Answered, Stuck, Silent, run_vars
<1>5. InImage' /\ FailsForCause'
  BY <1>1 DEF RunInv, InImage, FailsForCause, Uploadable, run_vars
<1> QED
  BY <1>3, <1>4, <1>5 DEF RunInv

LEMMA LossRun == ASSUME RunInv, lose_frame \/ lose_reply \/ power_cycle PROVE RunInv'
<1>1. /\ met' = TRUE /\ UNCHANGED <<run_vars, pc, block, at, mem>> /\ boot' \in {boot, "start"}
      /\ line' \in {line, << >>} \/ (line # << >> /\ line' = Tail(line))
      /\ replies' \in {replies, << >>} \/ (replies # << >> /\ replies' = Tail(replies))
  BY DEF lose_frame, lose_reply, power_cycle, boot_vars
<1>2. line' \in Seq(Items) /\ replies' \in Seq(Answers)
  <2>1. << >> \in Seq(Items) /\ << >> \in Seq(Answers)
    OBVIOUS
  <2>2. line' \in Seq(Items)
    BY <1>1, <2>1, Sequences, Queue
  <2>3. replies' \in Seq(Answers)
    BY <1>1, <2>1, Sequences, Queue
  <2> QED  BY <2>2, <2>3
<1>3. TypeOK'
  BY <1>1, <1>2 DEF RunInv, TypeOK, Answers, run_vars
<1> QED
  BY <1>1, <1>3 DEF RunInv, InImage, Undisturbed, FailsForCause, run_vars

(* What a run finds on the line when it opens the port, and the INIT.      *)
LEMMA Opening ==
  ASSUME RunInv, run_tool
  PROVE  \E sent \in 0 .. Len(line) :
           /\ sent <= Adrift
           /\ line' \in Seq(Items) /\ Len(line') = sent + 1 /\ line'[sent + 1] = INIT
           /\ \A n \in 1 .. sent : n \in DOMAIN line /\ line'[n] = line[n]
<1>1. PICK sent \in 0 .. Len(line) :
        sent <= Adrift /\ line' = Append(SubSeq(line, 1, sent), INIT)
  BY DEF run_tool, INIT
<1>2. line \in Seq(Items) /\ Len(line) \in Nat /\ INIT \in Items
  BY Sequences, Domains, ItemTypes
<1> DEFINE s == SubSeq(line, 1, sent)
<1>3. s \in Seq(Items) /\ Len(s) = sent /\ \A n \in 1 .. sent : n \in DOMAIN line /\ s[n] = line[n]
  BY <1>2
<1> HIDE DEF s
<1>4. /\ line' = Append(s, INIT) /\ line' \in Seq(Items) /\ Len(line') = sent + 1
      /\ line'[sent + 1] = INIT /\ \A n \in 1 .. sent : line'[n] = s[n]
  BY <1>1, <1>2, <1>3 DEF s
<1> QED
  BY <1>1, <1>3, <1>4

LEMMA OpeningRun == ASSUME RunInv, run_tool PROVE RunInv'
<1>1. /\ pc \in Ended /\ runs < MaxRuns /\ runs' = runs + 1 /\ mode' \in {"flash", "upload"}
      /\ img' \in Images /\ pc' = "init" /\ replies' = << >> /\ met' = FALSE
      /\ fresh' = (boot = "start" /\ line = << >>) /\ UNCHANGED <<block, boot_vars>>
  BY DEF run_tool
<1>2. PICK sent \in 0 .. Len(line) :
        line' \in Seq(Items) /\ Len(line') = sent + 1 /\ line'[sent + 1] = INIT
  BY Opening
<1>3. TypeOK'
  <2>1. runs' \in 0 .. MaxRuns
    BY <1>1, Constants DEF RunInv, TypeOK
  <2>2. replies' \in Seq({"ACK", "NACK", "id", "reset"})
    BY <1>1
  <2>3. fresh' \in BOOLEAN /\ met' \in BOOLEAN
    BY <1>1
  <2> QED  BY <1>1, <1>2, <2>1, <2>2, <2>3 DEF RunInv, TypeOK, Reading, boot_vars
<1>4. Undisturbed'
  <2> SUFFICES ASSUME line = << >>, boot = "start" PROVE Coming'
    BY <1>1 DEF Undisturbed
  <2>1. sent = 0
    BY <1>2
  <2>2. line' = <<INIT>>
    BY <1>2, <2>1, LengthOne
  <2> QED  BY <1>1, <2>2 DEF Coming, boot_vars
<1> QED
  BY <1>1, <1>3, <1>4 DEF RunInv, InImage, Writing, FailsForCause

LEMMA NextRun == RunInv /\ [Next]_vars => RunInv'
<1> SUFFICES ASSUME RunInv, [Next]_vars PROVE RunInv'
  OBVIOUS
<1>1. CASE Next
  BY <1>1, OpeningRun, ToolRun, BootRun, LossRun DEF Next
<1>2. CASE UNCHANGED vars
  <2>1. UNCHANGED <<mode, img, runs, fresh, pc, block, line, replies, boot, at, mem, met>>
    BY <1>2 DEF vars, run_vars, boot_vars
  <2> QED
    BY <2>1 DEF RunInv, TypeOK, InImage, Undisturbed, Coming, Answered, Stuck, Silent, FailsForCause,
       Uploadable
<1> QED
  BY <1>1, <1>2

LEMMA RunInvariance == Spec => []RunInv
BY InitRun, NextRun, PTL DEF Spec

-----------------------------------------------------------------------------
(***************************************************************************)
(* Run after run, with two frames adrift at most.                          *)
(***************************************************************************)
LEMMA InitInv == Init => IInv
<1> SUFFICES ASSUME Init PROVE IInv
  OBVIOUS
<1>1. ASSUME NEW i \in Images, NEW b \in 0 .. Blocks - 1, Written(i)[b][1] \in Images
      PROVE  Written(i)[b][1] = i
  BY <1>1, PartType DEF Written
<1>2. PICK i \in Images : mem = Written(i)
  BY DEF Init
<1>3. NeverMixed
  BY <1>1, <1>2 DEF NeverMixed
<1> QED
  BY <1>3, InitRun DEF Init, IInv, InStep, Late, Writing, FlashKnown, Claims, DataAhead

(* The frames and the flash.                                               *)
LEMMA AheadAppended ==
  ASSUME RunInv, DataAhead, mem' = mem,
         NEW x \in Items, x.kind # "data", line' = Append(line, x)
  PROVE  DataAhead'
BY Sequences, Queued DEF DataAhead

LEMMA AheadTaken ==
  ASSUME RunInv, DataAhead, line # << >>, line' = Tail(line)
  PROVE  DataAhead'
<1>1. \A n \in DOMAIN Tail(line) : n \in Nat /\ n > 0 /\ n + 1 \in DOMAIN line /\ Tail(line)[n] = line[n + 1]
  BY Sequences, Queue, Domains
<1>2. \A n \in DOMAIN Tail(line) : Tail(line)[n].kind # "data"
  BY <1>1 DEF DataAhead
<1> QED
  BY <1>2 DEF DataAhead

LEMMA Same ==
  ASSUME mem' = mem
  PROVE  (NeverMixed => NeverMixed') /\ (line' = line /\ DataAhead => DataAhead')
BY DEF NeverMixed, DataAhead

-----------------------------------------------------------------------------
(* The steps of the tool.                                                  *)

(* GET_ID is sent behind what came before it ...                           *)
LEMMA OpenInv == ASSUME IInv, open_session PROVE IInv'
<1>1. /\ pc = "init" /\ pc' = "id" /\ line' = Append(line, ID)
      /\ replies # << >> /\ replies' = Tail(replies) /\ Head(replies) \in Either
      /\ UNCHANGED <<run_vars, boot_vars, met, block>>
  BY DEF open_session, Reads, Takes, Sends, Wanted, InitAnswers, Either, ID
<1>2. RunInv' /\ line \in Seq(Items) /\ replies \in Seq(Answers) /\ ID \in Items /\ InitPending
  BY <1>1, OpenRun, Sequences, ItemTypes DEF IInv, ID
<1>3. /\ replies' \in Seq(Answers) /\ Len(replies) \in Nat /\ Len(replies') = Len(replies) - 1
      /\ \A n \in DOMAIN replies' : replies'[n] = replies[n + 1]
      /\ DOMAIN replies' = 1 .. Len(replies') /\ Len(replies') \in Nat
      /\ Len(replies') = 0 => replies' = << >>
  BY <1>1, <1>2, Queue, Domains
<1>4. IdPending'
  <2>1. boot' = boot
    BY <1>1 DEF boot_vars
  <2>2. CASE Len(line) = 2 /\ line[2] = INIT /\ Len(replies) <= 1
    <3>1. Len(line') = 3 /\ line'[2] = INIT /\ line'[3] = ID
      BY <1>1, <1>2, <2>2, Third
    <3>2. replies' = << >>
      BY <1>3, <2>2
    <3> QED  BY <3>1, <3>2 DEF IdPending
  <2>3. CASE line = <<INIT>> /\ Len(replies) <= 2 /\ (Len(replies) = 2 /\ replies[2] = "id" => boot = "cmd")
    <3>1. line' = <<INIT, ID>>
      BY <1>1, <2>3, Two
    <3>2. Len(replies') <= 1 /\ \A n \in DOMAIN replies' : replies'[n] = "id" => boot' = "cmd"
      BY <1>3, <2>1, <2>3
    <3> QED  BY <3>1, <3>2 DEF IdPending
  <2>4. CASE /\ line = << >> /\ Len(replies) <= 3
             /\ Len(replies) = 2 /\ replies[2] = "id" => boot \in {"cmd", "half"}
             /\ Len(replies) = 3 => replies[2] # "id" /\ replies[3] # "id"
    <3>1. line' = <<ID>>
      BY <1>1, <2>4, One
    <3>2. /\ Len(replies') <= 2
          /\ \A n \in DOMAIN replies' : replies'[n] = "id" => Len(replies') = 1 /\ boot' \in {"cmd", "half"}
      BY <1>3, <2>1, <2>4
    <3> QED  BY <3>1, <3>2 DEF IdPending
  <2> QED  BY <1>1, <1>2, <2>2, <2>3, <2>4 DEF InitPending
<1>5. DataAhead' /\ NeverMixed'
  BY <1>1, <1>2, AheadAppended, Same DEF IInv, boot_vars, ID, Cmd
<1> QED
  BY <1>1, <1>2, <1>4, <1>5 DEF IInv, InStep, Late, Writing, FlashKnown, Claims

(* ... and when "id" is read, nothing is left of that, or the run is       *)
(* behind.                                                                 *)
LEMMA GetIdInv == ASSUME IInv, get_id PROVE IInv'
<1>1. /\ pc = "id" /\ pc' = "erase_cmd" /\ line' = Append(line, ERASE)
      /\ replies # << >> /\ replies' = Tail(replies) /\ Head(replies) = "id"
      /\ UNCHANGED <<run_vars, boot_vars, met, block>>
  BY DEF get_id, Reads, Takes, Sends, Wanted, ERASE
<1>2. RunInv' /\ line \in Seq(Items) /\ replies \in Seq(Answers) /\ ERASE \in Items /\ IdPending
  BY <1>1, GetIdRun, Sequences, ItemTypes DEF IInv, ERASE
<1>3. replies[1] = "id" /\ DOMAIN replies = 1 .. Len(replies) /\ Len(replies) \in Nat /\ Len(replies) > 0
  BY <1>1, <1>2, Queue, Domains
<1>4. Len(replies) = 1 => replies' = << >>
  BY <1>1, <1>2, Queue, Domains
<1>5. boot' = boot
  BY <1>1 DEF boot_vars
<1>6. Coming' \/ Behind'
  <2>1. CASE Len(line) = 3 /\ replies = << >>
    BY <1>1, <2>1
  <2>2. CASE /\ line = <<INIT, ID>> /\ Len(replies) <= 1
             /\ \A n \in DOMAIN replies : replies[n] = "id" => boot = "cmd"
    <3>1. line' = <<INIT, ID, ERASE>>
      <4>1. Append(<<INIT, ID>>, ERASE) = <<INIT, ID, ERASE>>
        BY Three
      <4> QED  BY <1>1, <2>2, <4>1
    <3>2. replies' = << >> /\ boot = "cmd"
      BY <1>3, <1>4, <2>2
    <3> QED  BY <1>1, <1>5, <3>1, <3>2 DEF Behind
  <2>3. CASE /\ line = <<ID>>
             /\ \A n \in DOMAIN replies : replies[n] = "id" => Len(replies) = 1 /\ boot \in {"cmd", "half"}
    <3>1. line' = <<ID, ERASE>>
      BY <1>1, <2>3, Two
    <3>2. replies' = << >> /\ boot \in {"cmd", "half"}
      BY <1>3, <1>4, <2>3
    <3> QED  BY <1>1, <1>5, <3>1, <3>2 DEF Behind
  <2>4. CASE line = << >>
    <3>1. line' = <<ERASE>>
      BY <1>1, <2>4, One
    <3>2. CASE \A n \in DOMAIN replies : replies[n] = "id" => n = Len(replies) /\ boot = "cmd"
      <4>1. replies' = << >> /\ boot = "cmd"
        BY <1>3, <1>4, <3>2
      <4> QED  BY <1>1, <1>5, <3>1, <4>1 DEF Coming
    <3>3. CASE replies = <<"id">> /\ boot = "half"
      BY <1>1, <1>5, <3>1, <3>3, One DEF Behind
    <3>4. CASE replies = <<"id", "NACK">> /\ boot = "half"
      <4>1. replies' = <<"NACK">>
        BY <1>1, <3>4, Two
      <4> QED  BY <1>1, <1>5, <3>1, <3>4, <4>1 DEF Behind
    <3>5. CASE replies = <<"id", "id">> /\ boot = "cmd"
      <4>1. replies' = <<"id">>
        BY <1>1, <3>5, Two
      <4> QED  BY <1>1, <1>5, <3>1, <3>5, <4>1 DEF Behind
    <3> QED  BY <1>2, <2>4, <3>2, <3>3, <3>4, <3>5, One, Two DEF IdPending
  <2> QED  BY <1>2, <2>1, <2>2, <2>3, <2>4 DEF IdPending
<1>7. DataAhead' /\ NeverMixed'
  BY <1>1, <1>2, AheadAppended, Same DEF IInv, boot_vars, ERASE, Cmd
<1> QED
  BY <1>1, <1>2, <1>6, <1>7 DEF IInv, InStep, FlashKnown, Claims

(* From the erase on, a read that succeeds finds the answer to the frame   *)
(* the tool has just sent, and what it then sends is alone under way.      *)
LEMMA LateStep ==
  ASSUME IInv, pc \in Late, tool, Takes(Wanted)
  PROVE  /\ Answered /\ line = << >> /\ replies # << >> /\ replies' = << >> /\ RunInv'
         /\ Coming' \/ pc' \in Ended
         /\ mem' = mem /\ UNCHANGED run_vars
<1>1. replies # << >> /\ Head(replies) \in Wanted /\ replies' = Tail(replies)
      /\ UNCHANGED <<run_vars, boot_vars, met>>
  BY DEF Takes
<1>2. ~Behind
  <2>1. pc = "erase_cmd" => Head(replies) = "ACK"
    BY <1>1 DEF Wanted
  <2>2. \A a, b : Head(<<a>>) = a /\ Head(<<a, b>>) = a
    BY One, Two
  <2> QED  BY <1>1, <2>1, <2>2 DEF Behind
<1>3. Answered
  BY <1>1, <1>2 DEF IInv, InStep, Coming, Silent
<1> QED
  BY <1>1, <1>3, ToolRun, AnswerIsOwn DEF IInv, boot_vars

LEMMA LateInv ==
  ASSUME IInv, pc \in Late, tool, Takes(Wanted), pc' \in Late \cup Ended, FlashKnown',
         DataAhead'
  PROVE  IInv'
<1>1. pc' \notin {"init", "id"} /\ (pc' \in Ended => pc' \notin Late)
  BY DEF Late, Writing, Ended
<1>2. NeverMixed'
  BY LateStep, Same DEF IInv
<1> QED
  BY <1>1, <1>2, LateStep DEF IInv, InStep

(* What is sent holds no data, or the line stays empty.                    *)
LEMMA LateLine ==
  ASSUME IInv, pc \in Late, tool, Takes(Wanted),
         line' = line \/ \E x \in Items : x.kind # "data" /\ line' = Append(line, x)
  PROVE  DataAhead'
BY LateStep, AheadAppended, Same DEF IInv

LEMMA FullEraseInv == ASSUME IInv, full_erase PROVE IInv'
<1>1. /\ pc = "erase_cmd" /\ pc' = "erase" /\ line' = Append(line, [kind |-> "erase"])
      /\ Takes(Wanted) /\ tool
  BY DEF full_erase, Reads, Sends, tool
<1>2. pc \in Late /\ pc' \in Late
  BY <1>1 DEF Late
<1>3. FlashKnown'
  BY <1>1, <1>2, LateStep DEF FlashKnown, Claims
<1>4. DataAhead'
  BY <1>1, <1>2, LateLine, ItemTypes
<1> QED
  BY <1>1, <1>2, <1>3, <1>4, LateInv

(* The loop goes on with block k, and those before it are written, ...     *)
LEMMA WriteAtInv ==
  ASSUME IInv, pc \in Late, tool, Takes(Wanted), NEW k \in 0 .. Blocks, write_at(k), mem = Filled(k)
  PROVE  IInv'
<1>1. pc' = "write_cmd" /\ line' = Append(line, Cmd("WRITE_MEMORY")) /\ block' = k
  BY DEF write_at
<1>2. pc' \in Late
  BY <1>1 DEF Late, Writing
<1>3. FlashKnown'
  BY <1>1, LateStep DEF FlashKnown, Claims, Filled, run_vars
<1>4. DataAhead'
  BY <1>1, LateLine, ItemTypes DEF Cmd
<1> QED
  BY <1>2, <1>3, <1>4, LateInv

(* ... or it is over, with the image in the flash.                         *)
LEMMA FlashDoneInv ==
  ASSUME IInv, pc \in Late, tool, Takes(Wanted), flash_done, mem = Written(img)
  PROVE  IInv'
<1>1. \/ pc' = "special_cmd" /\ line' = Append(line, Cmd("SPECIAL"))
      \/ pc' = "done" /\ line' = line
  BY DEF flash_done, Sends, Ends
<1>2. pc' \in Late \cup Ended
  BY <1>1 DEF Late, Ended
<1>3. FlashKnown'
  BY <1>1, LateStep DEF FlashKnown, Claims, Written, run_vars
<1>4. DataAhead'
  BY <1>1, LateLine, ItemTypes DEF Cmd
<1> QED
  BY <1>2, <1>3, <1>4, LateInv

LEMMA FirstBlockInv == ASSUME IInv, first_block PROVE IInv'
<1>1. pc = "erase" /\ Takes(Wanted) /\ tool /\ pc \in Late /\ write_block(0)
  BY DEF first_block, Reads, tool, Late
<1>2. mem = Filled(0)
  BY <1>1, LateStep, FilledEnds DEF IInv, FlashKnown
<1>3. 0 \in 0 .. Blocks /\ write_at(0)
  BY <1>1, Constants DEF write_block
<1> QED
  BY <1>1, <1>2, <1>3, WriteAtInv

LEMMA WriteAddressInv == ASSUME IInv, write_address PROVE IInv'
<1> DEFINE x == [kind |-> "addr", to |-> block]
<1>1. /\ pc = "write_cmd" /\ pc' = "addr" /\ line' = Append(line, x) /\ block' = block
      /\ Takes(Wanted) /\ tool
  BY DEF write_address, Reads, Sends, tool
<1>2. pc \in Late /\ pc' \in Late
  BY <1>1 DEF Late, Writing
<1>3. mem = Filled(block)
  BY <1>1 DEF IInv, FlashKnown
<1>4. FlashKnown'
  BY <1>1, <1>2, <1>3, LateStep DEF FlashKnown, Claims, Filled, run_vars
<1>5. x \in Items
  <2>1. block \in 0 .. Blocks - 1
    BY <1>1, Constants DEF IInv, RunInv, TypeOK, InImage, Writing
  <2> QED  BY <2>1, ItemTypes
<1>6. DataAhead'
  BY <1>1, <1>2, <1>5, LateLine
<1> QED
  BY <1>1, <1>2, <1>4, <1>6, LateInv

LEMMA WriteDataInv == ASSUME IInv, write_data PROVE IInv'
<1> DEFINE n == gcount(img, block)
           x == [kind |-> "data", missing |-> Short(n), part |-> Part(img, block)]
<1>1. pc = "addr" /\ Takes(Wanted) /\ tool /\ pc \in Late
  BY DEF write_data, Reads, tool, Late, Writing
<1>2. mem = Filled(block)
  BY <1>1 DEF IInv, FlashKnown
<1>3. CASE Sends(x, "data")
  <2>1. pc' = "data" /\ line' = <<x>> /\ block' = block /\ pc' \in Late
    BY <1>1, <1>3, LateStep, One DEF Sends, Late, Writing
  <2>2. FlashKnown'
    BY <1>1, <1>2, <2>1, LateStep DEF FlashKnown, Claims, Filled, run_vars
  <2>3. img \in Images /\ block \in 0 .. Blocks - 1 /\ block \in Nat
    BY <1>1, Constants DEF IInv, RunInv, TypeOK, InImage, Writing
  <2>4. x.part[1] \in Images =>
          \A k \in 0 .. Blocks - 1 : mem[k][1] \in Images => mem[k][1] = x.part[1]
    BY <1>2, <2>3, PartType, FilledType
  <2> HIDE DEF x
  <2>5. DataAhead'
    BY <1>1, <2>1, <2>4, LateStep DEF DataAhead
  <2> QED
    BY <1>1, <2>1, <2>2, <2>5, LateInv
<1>4. CASE Ends("failed")
  <2>1. pc' = "failed" /\ line' = line
    BY <1>4 DEF Ends
  <2>2. FlashKnown' /\ pc' \in Ended
    BY <2>1 DEF FlashKnown, Claims, Ended
  <2>3. DataAhead'
    BY <1>1, <2>1, LateLine
  <2> QED
    BY <1>1, <2>2, <2>3, LateInv
<1> QED
  BY <1>3, <1>4 DEF write_data

LEMMA NextBlockInv == ASSUME IInv, next_block PROVE IInv'
<1>1. pc = "data" /\ Takes(Wanted) /\ tool /\ pc \in Late
  BY DEF next_block, Reads, tool, Late, Writing
<1>2. mem = Filled(block + 1)
  BY <1>1, LateStep DEF IInv, FlashKnown
<1>3. block < Blocks /\ img \in Images /\ block \in 0 .. Blocks - 1
  BY <1>1, Constants DEF IInv, RunInv, InImage, Writing, TypeOK
<1>4. CASE LastBlock /\ flash_done
  <2>1. mem = Written(img)
    BY <1>2, <1>3, <1>4, FilledRest
  <2> QED  BY <1>1, <1>4, <2>1, FlashDoneInv
<1>5. CASE write_block(block + 1)
  <2>1. CASE block + 1 = Blocks
    BY <1>1, <1>2, <1>5, <2>1, FilledEnds, FlashDoneInv DEF write_block
  <2>2. CASE block + 1 # Blocks
    <3>1. block + 1 \in 0 .. Blocks /\ write_at(block + 1)
      BY <1>3, <1>5, <2>2, Constants DEF write_block
    <3> QED  BY <1>1, <1>2, <3>1, WriteAtInv
  <2> QED  BY <2>1, <2>2
<1> QED
  BY <1>4, <1>5 DEF next_block

(* The reset only reads and sends.                                         *)
LEMMA ResetInv == ASSUME IInv, dfu_reset \/ dfu_reset_data \/ dfu_reset_end PROVE IInv'
<1>1. /\ Takes(Wanted) /\ tool /\ pc \in {"special_cmd", "special", "reset"}
      /\ \/ pc' = "special" /\ line' = Append(line, [kind |-> "special"])
         \/ pc' = "reset" /\ line' = Append(line, [kind |-> "reset"])
         \/ pc' = "done" /\ line' = line
  BY DEF dfu_reset, dfu_reset_data, dfu_reset_end, Reads, Sends, Ends, tool
<1>2. pc \in Late /\ pc' \in Late \cup Ended
  BY <1>1 DEF Late, Ended
<1>3. mem = Written(img)
  BY <1>1 DEF IInv, FlashKnown, Claims
<1>4. FlashKnown'
  BY <1>1, <1>2, <1>3, LateStep DEF FlashKnown, Claims, Written, run_vars
<1>5. DataAhead'
  BY <1>1, <1>2, LateLine, ItemTypes
<1> QED
  BY <1>1, <1>2, <1>4, <1>5, LateInv

LEMMA FailInv == ASSUME IInv, no_file \/ wait_for_ack \/ timeout PROVE IInv'
<1>1. pc' = "failed" /\ line' = line /\ mem' = mem
  BY DEF no_file, wait_for_ack, timeout, Reads, Takes, Ends, boot_vars
<1>2. RunInv'
  BY NoFileRun, WrongAnswerRun, TimeoutRun DEF IInv
<1>3. DataAhead' /\ NeverMixed'
  BY <1>1, Same DEF IInv
<1> QED
  BY <1>1, <1>2, <1>3 DEF IInv, InStep, Late, Writing, FlashKnown, Claims

LEMMA ToolInv == ASSUME IInv, tool PROVE IInv'
BY OpenInv, GetIdInv, FullEraseInv, FirstBlockInv, WriteAddressInv, WriteDataInv, NextBlockInv,
   ResetInv, FailInv DEF tool

-----------------------------------------------------------------------------
(* The steps of the bootloader.                                            *)

(* Whatever a frame from before INIT is, the answer to INIT is no id.      *)
LEMMA BootInit ==
  ASSUME IInv, bootloader, pc = "init" PROVE InitPending'
<1>1. InitPending /\ line \in Seq(Items) /\ replies \in Seq(Answers)
  BY Sequences DEF IInv
<1>2. /\ line # << >> /\ line' = Tail(line) /\ Head(line) = line[1] /\ line' \in Seq(Items)
      /\ Len(line) \in Nat /\ Len(line') = Len(line) - 1
      /\ \A n \in DOMAIN line' : line'[n] = line[n + 1]
      /\ DOMAIN line' = 1 .. Len(line')
  <2>1. line # << >> /\ line' = Tail(line)
    BY BootAnswers DEF IInv
  <2>2. /\ Head(line) = line[1] /\ line' \in Seq(Items)
        /\ Len(line) \in Nat /\ Len(line') = Len(line) - 1
        /\ \A n \in DOMAIN line' : line'[n] = line[n + 1]
    BY <1>1, <2>1, Queue
  <2>3. DOMAIN line' = 1 .. Len(line')
    BY <2>2, Domains
  <2> QED  BY <2>1, <2>2, <2>3
<1>3. \/ replies' = replies
      \/ \E a \in Answers :
           /\ Len(replies') = Len(replies) + 1 /\ replies'[Len(replies) + 1] = a
           /\ \A n \in 1 .. Len(replies) : replies'[n] = replies[n]
           /\ Head(line).kind = "INIT" => a \in Either
           /\ a = "id" => boot' = "cmd"
  BY <1>1, BootAnswers, Appended DEF IInv
<1>4. Len(replies) \in Nat /\ (replies = << >> => Len(replies) = 0)
  BY <1>1, Domains
<1>5. CASE Len(line) = 3 /\ line[3] = INIT /\ replies = << >>
  <2>1. Len(line') = 2 /\ line'[2] = INIT
    BY <1>2, <1>5
  <2> QED  BY <1>3, <1>4, <1>5, <2>1 DEF InitPending
<1>6. CASE Len(line) = 2 /\ line[2] = INIT /\ Len(replies) <= 1
  <2>1. Len(line') = 1 /\ line'[1] = INIT
    BY <1>2, <1>6
  <2>2. line' = <<INIT>>
    BY <1>2, <2>1, LengthOne
  <2>3. Len(replies') <= 2 /\ (Len(replies') = 2 /\ replies'[2] = "id" => boot' = "cmd")
    BY <1>3, <1>4, <1>6
  <2> QED  BY <2>2, <2>3 DEF InitPending
<1>7. CASE /\ line = <<INIT>> /\ Len(replies) <= 2
           /\ Len(replies) = 2 /\ replies[2] = "id" => boot = "cmd"
  <2>1. line' = << >> /\ Head(line) = INIT /\ Head(line).kind = "INIT"
    BY <1>2, <1>7, One DEF INIT
  <2>2. boot = "cmd" => boot' = "half" /\ replies' = replies
    BY <2>1, BootAnswers DEF IInv
  <2>3. Len(replies') <= 3
    BY <1>3, <1>4, <1>7
  <2>4. Len(replies') = 2 /\ replies'[2] = "id" => boot' \in {"cmd", "half"}
    BY <1>3, <1>4, <1>7, <2>1, <2>2 DEF Either
  <2>5. ASSUME Len(replies') = 3 PROVE replies'[2] # "id" /\ replies'[3] # "id"
    <3>1. replies' # replies /\ Len(replies) = 2
      <4>1. Len(replies) # 3
        BY <1>4, <1>7
      <4>2. replies' # replies
        BY <2>5, <4>1
      <4>3. Len(replies') = Len(replies) + 1
        BY <1>3, <4>2
      <4> DEFINE k == Len(replies)
      <4>4. k \in Nat /\ k + 1 = 3
        BY <1>4, <2>5, <4>3, Zenon
      <4> HIDE DEF k
      <4>5. k = 2
        BY <4>4
      <4> QED  BY <4>2, <4>5, Zenon DEF k
    <3>2. replies'[2] = replies[2] /\ replies'[3] \in Either
      BY <1>3, <2>1, <3>1
    <3>3. replies[2] # "id"
      BY <1>7, <2>2, <3>1
    <3> QED  BY <3>2, <3>3 DEF Either
  <2> QED  BY <2>1, <2>3, <2>4, <2>5 DEF InitPending
<1> QED
  BY <1>1, <1>2, <1>5, <1>6, <1>7 DEF InitPending

LEMMA BootId ==
  ASSUME IInv, bootloader, pc = "id" PROVE IdPending'
<1>1. IdPending /\ line \in Seq(Items) /\ replies \in Seq(Answers)
  BY Sequences DEF IInv
<1>2. /\ line # << >> /\ line' = Tail(line) /\ Head(line) = line[1] /\ line' \in Seq(Items)
      /\ Len(line) \in Nat /\ Len(line') = Len(line) - 1
      /\ \A n \in DOMAIN line' : line'[n] = line[n + 1]
      /\ DOMAIN line' = 1 .. Len(line')
  <2>1. line # << >> /\ line' = Tail(line)
    BY BootAnswers DEF IInv
  <2>2. /\ Head(line) = line[1] /\ line' \in Seq(Items)
        /\ Len(line) \in Nat /\ Len(line') = Len(line) - 1
        /\ \A n \in DOMAIN line' : line'[n] = line[n + 1]
    BY <1>1, <2>1, Queue
  <2>3. DOMAIN line' = 1 .. Len(line')
    BY <2>2, Domains
  <2> QED  BY <2>1, <2>2, <2>3
<1>3. \/ replies' = replies
      \/ \E a \in Answers :
           /\ replies' = Append(replies, a) /\ replies' \in Seq(Answers)
           /\ Len(replies') = Len(replies) + 1 /\ replies'[Len(replies) + 1] = a
           /\ \A n \in 1 .. Len(replies) : replies'[n] = replies[n]
           /\ Head(line).kind = "INIT" => a \in Either
           /\ a = "id" => boot' = "cmd"
  <2>1. CASE replies' = replies
    BY <2>1
  <2>2. ASSUME NEW a \in Answers, replies' = Append(replies, a)
        PROVE  /\ replies' \in Seq(Answers)
               /\ Len(replies') = Len(replies) + 1 /\ replies'[Len(replies) + 1] = a
               /\ \A n \in 1 .. Len(replies) : replies'[n] = replies[n]
    BY <1>1, <2>2, Appended, Queued
  <2> QED  BY <2>1, <2>2, BootAnswers DEF IInv
<1>4. /\ Len(replies) \in Nat /\ DOMAIN replies = 1 .. Len(replies)
      /\ replies' \in Seq(Answers) /\ Len(replies') \in Nat /\ DOMAIN replies' = 1 .. Len(replies')
      /\ (replies = << >> => Len(replies) = 0)
  BY <1>1, <1>3, Domains
<1>5. CASE Len(line) = 3 /\ line[2] = INIT /\ line[3] = ID /\ replies = << >>
  <2>1. Len(line') = 2 /\ line'[1] = INIT /\ line'[2] = ID
    <3> DEFINE k == Len(line')
    <3>1. k = 3 - 1 /\ DOMAIN line' = 1 .. k
      BY <1>2, <1>5, Zenon
    <3> HIDE DEF k
    <3>2. k = 2 /\ 1 \in DOMAIN line' /\ 2 \in DOMAIN line'
      BY <3>1
    <3>3. 1 + 1 = 2 /\ 2 + 1 = 3
      OBVIOUS
    <3>4. line'[1] = line[2] /\ line'[2] = line[3]
      BY <1>2, <3>2, <3>3, Zenon
    <3> QED  BY <1>5, <3>2, <3>4, Zenon DEF k
  <2>2. line' = <<INIT, ID>>
    BY <1>2, <2>1, LengthTwo
  <2>3. Len(replies') <= 1 /\ \A n \in DOMAIN replies' : replies'[n] = "id" => boot' = "cmd"
    BY <1>3, <1>4, <1>5
  <2> QED  BY <2>2, <2>3 DEF IdPending
<1>6. CASE /\ line = <<INIT, ID>> /\ Len(replies) <= 1
           /\ \A n \in DOMAIN replies : replies[n] = "id" => boot = "cmd"
  <2>1. line' = <<ID>> /\ Head(line) = INIT /\ Head(line).kind = "INIT"
    BY <1>2, <1>6, Two DEF INIT
  <2>2. boot = "cmd" => boot' = "half" /\ replies' = replies
    BY <2>1, BootAnswers DEF IInv
  <2>3. Len(replies') <= 2
    <3>1. Len(replies') = Len(replies) \/ Len(replies') = Len(replies) + 1
      BY <1>3
    <3> DEFINE j == Len(replies)
               k == Len(replies')
    <3>2. j \in Nat /\ j <= 1 /\ (k = j \/ k = j + 1)
      BY <1>4, <1>6, <3>1, Zenon
    <3> HIDE DEF j, k
    <3>3. k <= 2
      BY <3>2
    <3> QED  BY <3>3 DEF k
  <2>4. ASSUME NEW n \in DOMAIN replies', replies'[n] = "id"
        PROVE  Len(replies') = 1 /\ boot' \in {"cmd", "half"}
    <3>1. CASE replies' = replies
      BY <1>4, <1>6, <2>2, <2>4, <3>1
    <3>2. CASE replies' # replies
      <4>1. PICK a \in Answers :
              /\ Len(replies') = Len(replies) + 1 /\ replies'[Len(replies) + 1] = a /\ a \in Either
              /\ \A k \in 1 .. Len(replies) : replies'[k] = replies[k]
        BY <1>3, <2>1, <3>2
      <4>2. n # Len(replies) + 1
        BY <2>4, <4>1 DEF Either
      <4>3. n \in 1 .. Len(replies)
        BY <1>4, <2>4, <4>1, <4>2
      <4>4. replies[n] = "id"
        BY <2>4, <4>1, <4>3
      <4> QED  BY <1>4, <1>6, <2>2, <3>2, <4>3, <4>4
    <3> QED  BY <3>1, <3>2
  <2> QED  BY <2>1, <2>3, <2>4 DEF IdPending
<1>7. CASE /\ line = <<ID>> /\ Len(replies) <= 2
           /\ \A n \in DOMAIN replies : replies[n] = "id" => Len(replies) = 1 /\ boot \in {"cmd", "half"}
  <2>1. line' = << >> /\ Head(line) = ID
    BY <1>2, <1>7, One
  <2>2. /\ boot = "cmd" => boot' = "cmd" /\ replies' = Append(replies, "id")
        /\ boot = "half" => boot' = "half" /\ replies' = Append(replies, "NACK")
    BY <2>1, BootAnswers DEF IInv
  <2>3. CASE \A n \in DOMAIN replies : replies[n] # "id"
    <3>1. ASSUME NEW n \in DOMAIN replies', replies'[n] = "id"
          PROVE  n = Len(replies') /\ boot' = "cmd"
      <4>1. replies' # replies
        BY <2>3, <3>1
      <4>2. PICK a \in Answers :
              /\ Len(replies') = Len(replies) + 1 /\ replies'[Len(replies) + 1] = a
              /\ \A k \in 1 .. Len(replies) : replies'[k] = replies[k]
              /\ a = "id" => boot' = "cmd"
        BY <1>3, <4>1
      <4>3. n \notin 1 .. Len(replies)
        BY <1>4, <2>3, <3>1, <4>2
      <4>4. n = Len(replies) + 1
        BY <1>4, <3>1, <4>2, <4>3
      <4> QED  BY <3>1, <4>2, <4>4
    <3> QED  BY <2>1, <3>1 DEF IdPending
  <2>4. CASE \E n \in DOMAIN replies : replies[n] = "id"
    <3>1. Len(replies) = 1 /\ replies[1] = "id" /\ boot \in {"cmd", "half"}
      BY <1>4, <1>7, <2>4
    <3>2. replies = <<"id">>
      BY <1>1, <3>1, LengthOne
    <3>3. \A a : Append(<<"id">>, a) = <<"id", a>>
      BY Two
    <3> QED  BY <2>1, <2>2, <3>1, <3>2, <3>3 DEF IdPending
  <2> QED  BY <2>3, <2>4
<1> QED
  BY <1>1, <1>2, <1>5, <1>6, <1>7 DEF IdPending

LEMMA BootLate ==
  ASSUME IInv, bootloader PROVE InStep'
<1>1. line # << >> /\ line' = Tail(line) /\ UNCHANGED pc
  BY BootAnswers DEF IInv
<1>2. CASE pc \notin Late
  BY <1>1, <1>2 DEF InStep
<1>3. CASE Coming
  BY <1>3, BootInStep DEF IInv, InStep, Stuck
<1>4. CASE Behind
  <2> SUFFICES Behind'
    BY DEF InStep
  <2>1. /\ boot = "cmd" /\ Head(line) = INIT => boot' = "half" /\ replies' = replies
        /\ boot = "cmd" /\ Head(line) = ID => boot' = "cmd" /\ replies' = Append(replies, "id")
        /\ boot = "cmd" /\ Head(line) = ERASE => boot' = "erase" /\ replies' = Append(replies, "ACK")
        /\ boot = "half" /\ Head(line) \in {ID, ERASE} =>
             boot' = "half" /\ replies' = Append(replies, "NACK")
    BY BootAnswers DEF IInv
  <2>2. CASE line = <<INIT, ID, ERASE>> /\ replies = << >> /\ boot = "cmd"
    <3>1. Head(line) = INIT /\ line' = <<ID, ERASE>>
      BY <1>1, <2>2, Three
    <3> QED  BY <1>1, <1>4, <2>1, <2>2, <3>1 DEF Behind
  <2>3. CASE line = <<ID, ERASE>> /\ replies = << >> /\ boot \in {"cmd", "half"}
    <3>1. Head(line) = ID /\ line' = <<ERASE>>
      BY <1>1, <2>3, Two
    <3>2. \A a : Append(replies, a) = <<a>>
      BY <2>3, One
    <3> QED  BY <1>1, <1>4, <2>1, <2>3, <3>1, <3>2 DEF Behind
  <2>4. CASE line = <<ERASE>>
    <3>1. Head(line) = ERASE /\ line' = << >>
      BY <1>1, <2>4, One
    <3>2. CASE replies = << >> /\ boot = "half"
      <4>1. Append(replies, "NACK") = <<"NACK">>
        BY <3>2, One
      <4> QED  BY <1>1, <1>4, <2>1, <3>1, <3>2, <4>1 DEF Behind
    <3>3. CASE replies = <<"id">> /\ boot = "cmd"
      <4>1. Append(replies, "ACK") = <<"id", "ACK">>
        BY <3>3, Two
      <4> QED  BY <1>1, <1>4, <2>1, <3>1, <3>3, <4>1 DEF Behind
    <3>4. CASE replies = <<"NACK">> /\ boot = "half"
      <4>1. Append(replies, "NACK") = <<"NACK", "NACK">>
        BY <3>4, Two
      <4> QED  BY <1>1, <1>4, <2>1, <3>1, <3>4, <4>1 DEF Behind
    <3>5. \/ replies = << >> /\ boot = "half"
          \/ replies = <<"id">> /\ boot = "cmd"
          \/ replies = <<"NACK">> /\ boot = "half"
      BY <1>4, <2>4, One, Two, Three DEF Behind
    <3> QED  BY <3>2, <3>3, <3>4, <3>5
  <2> QED  BY <1>1, <1>4, <2>2, <2>3, <2>4 DEF Behind
<1> QED
  BY <1>1, <1>2, <1>3, <1>4 DEF IInv, InStep, Answered, Silent

(* What a frame of a run in step does to the flash.                        *)
LEMMA BootMem ==
  ASSUME RunInv, bootloader, Coming
  PROVE  /\ pc = "erase" => mem' = Erase
         /\ pc = "data" /\ replies' # << >> => mem' = [mem EXCEPT ![block] = Part(img, block)]
         /\ pc \notin {"erase", "data"} => mem' = mem
<1> USE ComingHead DEF Receives, Cmd, INIT, ID, ERASE
<1>1. CASE boot_start \/ boot_command \/ boot_half \/ boot_addr \/ boot_special \/ boot_reset
  BY <1>1 DEF boot_start, boot_command, boot_half, boot_addr, boot_special, boot_reset
<1>2. CASE boot_erase
  BY <1>2 DEF boot_erase
<1>3. CASE boot_data
  BY <1>3 DEF boot_data
<1>4. CASE boot_stray \/ boot_ignore
  BY <1>4 DEF boot_stray, boot_ignore, Frames
<1> QED
  BY <1>1, <1>2, <1>3, <1>4 DEF bootloader

LEMMA BootFlash ==
  ASSUME IInv, bootloader PROVE FlashKnown'
<1>1. /\ line # << >> /\ line' = Tail(line)
      /\ UNCHANGED <<pc, block, img>>
  BY BootAnswers DEF IInv, run_vars
<1>2. FlashKnown /\ pc # "done"
  BY <1>1 DEF IInv, FlashKnown
<1>3. CASE pc \notin Late \ {"erase_cmd"}
  BY <1>1, <1>2, <1>3 DEF FlashKnown, Late, Writing, Claims
<1>4. CASE pc \in Late \ {"erase_cmd"}
  <2>1. Coming
    BY <1>1, <1>4 DEF IInv, InStep, Answered, Silent, Behind
  <2>2. line' = << >>
    BY <1>1, <2>1, ComingHead
  <2>3. RunInv
    BY DEF IInv
  <2>4. pc = "erase" => mem' = Erase
    BY <2>1, <2>3, BootMem
  <2>5. pc \in {"write_cmd", "addr"} => mem' = Filled(block)
    BY <1>2, <2>1, <2>3, BootMem DEF FlashKnown
  <2>6. pc = "data" /\ replies' # << >> => mem' = Filled(block + 1)
    <3> SUFFICES ASSUME pc = "data", replies' # << >> PROVE mem' = Filled(block + 1)
      OBVIOUS
    <3>1. mem = Filled(block)
      BY <1>1, <1>2 DEF FlashKnown
    <3>2. block \in 0 .. Blocks - 1
      BY <2>3, Constants DEF RunInv, InImage, Writing, TypeOK
    <3> QED  BY <2>1, <2>3, <3>1, <3>2, BootMem, FilledNext
  <2>7. Claims => mem' = Written(img)
    BY <1>2, <2>1, <2>3, BootMem DEF FlashKnown, Claims
  <2> QED
    BY <1>1, <1>2, <2>2, <2>4, <2>5, <2>6, <2>7 DEF FlashKnown, Claims, Filled, Written
<1> QED
  BY <1>3, <1>4

(* A frame of an earlier run is data of the image whose parts are there.   *)
LEMMA BootMixed ==
  ASSUME IInv, bootloader PROVE NeverMixed'
<1> USE DEF Receives
<1>1. CASE boot_start \/ boot_command \/ boot_half \/ boot_addr \/ boot_special \/ boot_reset
           \/ boot_stray \/ boot_ignore
  <2>1. mem' = mem
    BY <1>1 DEF boot_start, boot_command, boot_half, boot_addr, boot_special, boot_reset,
       boot_stray, boot_ignore, boot_vars
  <2> QED  BY <2>1, Same DEF IInv
<1>2. CASE boot_erase
  BY <1>2, Constants DEF boot_erase, Erase, Erased, NeverMixed
<1>3. CASE boot_data
  <2>1. 1 \in DOMAIN line /\ line[1].kind = "data" /\ Head(line) = line[1]
    <3>1. line \in Seq(Items) /\ line # << >> /\ Head(line).kind = "data"
      BY <1>3, Sequences DEF boot_data, IInv
    <3>2. Head(line) = line[1] /\ DOMAIN line = 1 .. Len(line) /\ Len(line) \in Nat /\ Len(line) # 0
      BY <3>1, Queue, Domains
    <3> QED  BY <3>1, <3>2
  <2>2. PICK c : /\ mem' = [mem EXCEPT ![at] = c]
                 /\ c = line[1].part \/ c = Junk
    BY <1>3, <2>1 DEF boot_data
  <2>3. c[1] \in Images => \A k \in 0 .. Blocks - 1 : mem[k][1] \in Images => mem[k][1] = c[1]
    BY <2>1, <2>2, Constants DEF IInv, DataAhead, Junk
  <2>4. at \in 0 .. Blocks - 1 /\ mem \in [0 .. Blocks - 1 -> Contents] /\ NeverMixed
    BY DEF IInv, RunInv, TypeOK
  <2> QED
    BY <2>2, <2>3, <2>4 DEF NeverMixed
<1> QED
  BY <1>1, <1>2, <1>3 DEF bootloader

LEMMA BootInv == ASSUME IInv, bootloader PROVE IInv'
<1>1. line # << >> /\ line' = Tail(line) /\ UNCHANGED pc
  BY BootAnswers DEF IInv
<1>2. RunInv' /\ DataAhead'
  BY <1>1, BootRun, AheadTaken DEF IInv
<1> QED
  BY <1>1, <1>2, BootInit, BootId, BootLate, BootFlash, BootMixed DEF IInv

-----------------------------------------------------------------------------
(* The losses, and the next run.                                           *)
LEMMA LoseFrameInv == ASSUME IInv, lose_frame PROVE IInv'
<1>1. /\ pc \in Reading /\ line # << >> /\ line' = Tail(line)
      /\ UNCHANGED <<run_vars, pc, block, replies, boot_vars>>
  BY DEF lose_frame
<1>2. boot' = boot /\ mem' = mem /\ img' = img
  BY <1>1 DEF boot_vars, run_vars
<1>3. RunInv' /\ DataAhead' /\ NeverMixed'
  BY <1>1, <1>2, LossRun, AheadTaken, Same DEF IInv
<1>4. line \in Seq(Items) /\ replies \in Seq(Answers)
  BY Sequences DEF IInv
<1>5. /\ line' \in Seq(Items) /\ Len(line) \in Nat /\ Len(line') = Len(line) - 1
      /\ \A n \in DOMAIN line' : line'[n] = line[n + 1]
      /\ DOMAIN line' = 1 .. Len(line')
  BY <1>1, <1>4, Queue, Domains
<1>6. Len(replies) \in Nat /\ DOMAIN replies = 1 .. Len(replies) /\ (replies = << >> => Len(replies) = 0)
  BY <1>4, Domains
<1>7. ASSUME pc = "init" PROVE InitPending'
  <2>1. CASE Len(line) = 3 /\ line[3] = INIT /\ replies = << >>
    <3>1. Len(line') = 2 /\ line'[2] = INIT
      BY <1>5, <2>1
    <3>2. replies' = replies /\ Len(replies') = 0
      BY <1>1, <1>6, <2>1
    <3> QED  BY <3>1, <3>2 DEF InitPending
  <2>2. CASE Len(line) = 2 /\ line[2] = INIT /\ Len(replies) <= 1
    <3>1. Len(line') = 1 /\ line'[1] = INIT
      BY <1>5, <2>2
    <3>2. line' = <<INIT>>
      BY <1>5, <3>1, LengthOne
    <3>3. replies' = replies /\ Len(replies') <= 1
      BY <1>1, <2>2
    <3>4. Len(replies') <= 2 /\ Len(replies') # 2
      BY <1>6, <3>3
    <3> QED  BY <3>2, <3>4 DEF InitPending
  <2>3. CASE /\ line = <<INIT>> /\ Len(replies) <= 2
             /\ Len(replies) = 2 /\ replies[2] = "id" => boot = "cmd"
    <3>1. line' = << >>
      BY <1>1, <2>3, One
    <3> QED  BY <1>1, <1>2, <1>6, <2>3, <3>1 DEF InitPending
  <2> QED  BY <1>1, <1>7, <2>1, <2>2, <2>3 DEF IInv, InitPending
<1>8. ASSUME pc = "id" PROVE IdPending'
  <2>1. CASE Len(line) = 3 /\ line[2] = INIT /\ line[3] = ID /\ replies = << >>
    <3>1. Len(line') = 2 /\ line'[1] = INIT /\ line'[2] = ID
      BY <1>5, <2>1
    <3>2. line' = <<INIT, ID>>
      BY <1>5, <3>1, LengthTwo
    <3>3. Len(replies') <= 1 /\ DOMAIN replies' = {}
      BY <1>1, <1>6, <2>1
    <3> QED  BY <3>2, <3>3 DEF IdPending
  <2>2. CASE /\ line = <<INIT, ID>> /\ Len(replies) <= 1
             /\ \A n \in DOMAIN replies : replies[n] = "id" => boot = "cmd"
    <3>1. line' = <<ID>>
      BY <1>1, <2>2, Two
    <3> QED  BY <1>1, <1>2, <1>6, <2>2, <3>1 DEF IdPending
  <2>3. CASE /\ line = <<ID>> /\ Len(replies) <= 2
             /\ \A n \in DOMAIN replies : replies[n] = "id" => Len(replies) = 1 /\ boot \in {"cmd", "half"}
    <3>1. line' = << >>
      BY <1>1, <2>3, One
    <3>2. CASE \A n \in DOMAIN replies : replies[n] # "id"
      BY <1>1, <3>1, <3>2 DEF IdPending
    <3>3. CASE \E n \in DOMAIN replies : replies[n] = "id"
      <4>1. Len(replies) = 1 /\ replies[1] = "id" /\ boot \in {"cmd", "half"}
        BY <1>6, <2>3, <3>3
      <4>2. replies = <<"id">>
        BY <1>4, <4>1, LengthOne
      <4>3. CASE boot = "half"
        BY <1>1, <1>2, <3>1, <4>2, <4>3 DEF IdPending
      <4>4. CASE boot = "cmd"
        BY <1>1, <1>2, <1>6, <3>1, <4>1, <4>4 DEF IdPending
      <4> QED  BY <4>1, <4>3, <4>4
    <3> QED  BY <3>2, <3>3
  <2> QED  BY <1>1, <1>8, <2>1, <2>2, <2>3 DEF IInv, IdPending
<1>9. InStep'
  <2>1. CASE pc \notin Late
    BY <1>1, <2>1 DEF InStep
  <2>2. CASE Coming
    BY <1>1, <2>2, ComingHead DEF InStep, Silent
  <2>3. CASE Behind
    <3>1. CASE line = <<INIT, ID, ERASE>> /\ replies = << >> /\ boot = "cmd"
      <4>1. line' = <<ID, ERASE>>
        BY <1>1, <3>1, Three
      <4> QED  BY <1>1, <1>2, <2>3, <3>1, <4>1 DEF InStep, Behind
    <3>2. CASE line = <<ID, ERASE>> /\ replies = << >> /\ boot \in {"cmd", "half"}
      <4>1. line' = <<ERASE>>
        BY <1>1, <3>2, Two
      <4>2. CASE boot = "cmd"
        BY <1>1, <1>2, <2>3, <3>2, <4>1, <4>2 DEF InStep, Behind, Coming
      <4>3. CASE boot = "half"
        BY <1>1, <1>2, <2>3, <3>2, <4>1, <4>3 DEF InStep, Behind
      <4> QED  BY <3>2, <4>2, <4>3
    <3>3. CASE line = <<ERASE>> /\ replies \in {<< >>, <<"id">>, <<"NACK">>}
      <4>1. line' = << >>
        BY <1>1, <3>3, One
      <4> QED  BY <1>1, <2>3, <3>3, <4>1 DEF InStep, Behind, Silent
    <3> QED  BY <1>1, <2>3, <3>1, <3>2, <3>3 DEF Behind
  <2> QED  BY <1>1, <2>1, <2>2, <2>3 DEF IInv, InStep, Answered, Silent
<1>10. FlashKnown'
  BY <1>1, <1>2 DEF IInv, FlashKnown, Claims, Filled, Written, Reading
<1> QED
  BY <1>1, <1>3, <1>7, <1>8, <1>9, <1>10 DEF IInv

LEMMA LoseReplyInv == ASSUME IInv, lose_reply PROVE IInv'
<1>1. /\ replies # << >> /\ replies' = Tail(replies)
      /\ UNCHANGED <<run_vars, pc, block, line, boot_vars>>
  BY DEF lose_reply
<1>2. boot' = boot /\ mem' = mem /\ img' = img /\ at' = at
  BY <1>1 DEF boot_vars, run_vars
<1>3. RunInv' /\ DataAhead' /\ NeverMixed'
  BY <1>1, <1>2, LossRun, Same DEF IInv
<1>4. line \in Seq(Items) /\ replies \in Seq(Answers)
  BY Sequences DEF IInv
<1>5. /\ replies' \in Seq(Answers) /\ Len(replies) \in Nat /\ Len(replies') = Len(replies) - 1
      /\ \A n \in DOMAIN replies' : n + 1 \in DOMAIN replies /\ replies'[n] = replies[n + 1]
      /\ DOMAIN replies = 1 .. Len(replies) /\ DOMAIN replies' = 1 .. Len(replies')
      /\ Len(replies') \in Nat
  BY <1>1, <1>4, Queue, Domains
<1>6. ASSUME pc = "init" PROVE InitPending'
  <2>1. InitPending
    BY <1>6 DEF IInv
  <2>2. CASE Len(line) = 2 /\ line[2] = INIT /\ Len(replies) <= 1
    BY <1>1, <1>5, <2>2 DEF InitPending
  <2>3. CASE line = <<INIT>> /\ Len(replies) <= 2
    BY <1>1, <1>5, <2>3 DEF InitPending
  <2>4. CASE line = << >> /\ Len(replies) <= 3 /\ (Len(replies) = 3 => replies[2] # "id" /\ replies[3] # "id")
    <3>1. Len(replies') <= 2 /\ (Len(replies') = 2 => replies'[2] # "id")
      BY <1>5, <2>4
    <3> QED  BY <1>1, <1>5, <2>4, <3>1 DEF InitPending
  <2> QED  BY <1>1, <2>1, <2>2, <2>3, <2>4 DEF InitPending
<1>7. ASSUME pc = "id" PROVE IdPending'
  <2>1. IdPending
    BY <1>7 DEF IInv
  <2>2. CASE line = <<INIT, ID>> /\ Len(replies) <= 1
    BY <1>1, <1>5, <2>2 DEF IdPending
  <2>3. CASE /\ line = <<ID>> /\ Len(replies) <= 2
             /\ \A n \in DOMAIN replies : replies[n] = "id" => Len(replies) = 1 /\ boot \in {"cmd", "half"}
    <3>1. Len(replies') <= 2 /\ \A n \in DOMAIN replies' : replies'[n] # "id"
      BY <1>5, <2>3
    <3> QED  BY <1>1, <2>3, <3>1 DEF IdPending
  <2>4. CASE line = << >>
    <3> SUFFICES \A n \in DOMAIN replies' : replies'[n] = "id" => n = Len(replies') /\ boot' = "cmd"
      BY <1>1, <2>4 DEF IdPending
    <3>1. CASE \A n \in DOMAIN replies : replies[n] = "id" => n = Len(replies) /\ boot = "cmd"
      BY <1>2, <1>5, <3>1
    <3>2. CASE replies = <<"id">>
      <4>1. Len(replies) = 1
        BY <3>2, One
      <4> QED  BY <1>5, <4>1
    <3>3. CASE replies = <<"id", "NACK">>
      <4>1. replies' = <<"NACK">>
        BY <1>1, <3>3, Two
      <4> QED  BY <4>1
    <3>4. CASE replies = <<"id", "id">> /\ boot = "cmd"
      <4>1. Len(replies) = 2
        BY <3>4, Two
      <4> QED  BY <1>2, <1>5, <3>4, <4>1
    <3> QED  BY <2>1, <2>4, <3>1, <3>2, <3>3, <3>4, One, Two DEF IdPending
  <2> QED  BY <1>1, <2>1, <2>2, <2>3, <2>4 DEF IdPending
<1>8. InStep'
  <2>1. CASE pc \notin Late
    BY <1>1, <2>1 DEF InStep
  <2>2. CASE Answered
    BY <1>1, <2>2, AnswerIsOwn DEF InStep, Silent
  <2>3. CASE Behind
    <3>1. CASE line = <<ERASE>> /\ replies = <<"id">> /\ boot = "cmd"
      <4>1. replies' = << >>
        BY <1>1, <3>1, One
      <4> QED  BY <1>1, <1>2, <2>3, <3>1, <4>1 DEF InStep, Behind, Coming
    <3>2. CASE line = <<ERASE>> /\ replies = <<"NACK">> /\ boot = "half"
      <4>1. replies' = << >>
        BY <1>1, <3>2, One
      <4> QED  BY <1>1, <1>2, <2>3, <3>2, <4>1 DEF InStep, Behind
    <3>3. CASE line = << >> /\ replies \in {<<"id">>, <<"NACK">>}
      <4>1. replies' = << >>
        BY <1>1, <3>3, One
      <4> QED  BY <1>1, <3>3, <4>1 DEF InStep, Silent
    <3>4. CASE line = << >> /\ replies = <<"NACK", "NACK">>
      <4>1. replies' = <<"NACK">>
        BY <1>1, <3>4, Two
      <4> QED  BY <1>1, <2>3, <3>4, <4>1 DEF InStep, Behind
    <3>5. CASE line = << >> /\ replies = <<"id", "ACK">> /\ boot = "erase"
      <4>1. replies' = <<"ACK">>
        BY <1>1, <3>5, Two
      <4> QED  BY <1>1, <1>2, <2>3, <3>5, <4>1 DEF InStep, Behind, Answered
    <3> QED  BY <1>1, <2>3, <3>1, <3>2, <3>3, <3>4, <3>5 DEF Behind
  <2> QED  BY <1>1, <2>1, <2>2, <2>3 DEF IInv, InStep, Coming, Silent
<1>9. FlashKnown'
  BY <1>1, <1>2 DEF IInv, FlashKnown, Claims, Filled, Written
<1> QED
  BY <1>1, <1>3, <1>6, <1>7, <1>8, <1>9 DEF IInv

LEMMA PowerInv == ASSUME IInv, power_cycle PROVE IInv'
<1>1. /\ line' = << >> /\ replies' = << >> /\ mem' = mem /\ img' = img
      /\ UNCHANGED <<pc, block>>
  BY DEF power_cycle, run_vars
<1>2. RunInv' /\ NeverMixed'
  BY <1>1, LossRun, Same DEF IInv
<1>3. InitPending' /\ IdPending'
  BY <1>1 DEF InitPending, IdPending
<1>4. InStep' /\ DataAhead'
  BY <1>1 DEF InStep, Silent, DataAhead
<1>5. FlashKnown'
  BY <1>1 DEF IInv, FlashKnown, Claims, Filled, Written
<1> QED
  BY <1>2, <1>3, <1>4, <1>5 DEF IInv

LEMMA OpeningInv == ASSUME Adrift <= 2, IInv, run_tool PROVE IInv'
<1>1. /\ pc' = "init" /\ replies' = << >> /\ mem' = mem
      /\ RunInv' /\ NeverMixed'
  BY OpeningRun, Same DEF run_tool, boot_vars, IInv
<1>2. PICK sent \in 0 .. Len(line) :
        /\ sent <= Adrift
        /\ line' \in Seq(Items) /\ Len(line') = sent + 1 /\ line'[sent + 1] = INIT
        /\ \A n \in 1 .. sent : n \in DOMAIN line /\ line'[n] = line[n]
  BY Opening DEF IInv
<1>3. Len(line) \in Nat /\ DOMAIN line' = 1 .. Len(line') /\ sent \in {0, 1, 2}
  BY <1>2, Sequences, Domains, Constants DEF IInv
<1>4. InitPending'
  <2>1. CASE sent = 0
    <3>1. line' = <<INIT>>
      BY <1>2, <2>1, LengthOne
    <3> QED  BY <1>1, <3>1 DEF InitPending
  <2>2. CASE sent = 1
    BY <1>1, <1>2, <2>2 DEF InitPending
  <2>3. CASE sent = 2
    BY <1>1, <1>2, <2>3 DEF InitPending
  <2> QED  BY <1>3, <2>1, <2>2, <2>3
<1>5. DataAhead'
  <2>1. ASSUME NEW n \in DOMAIN line', line'[n].kind = "data"
        PROVE  n \in DOMAIN line /\ line'[n] = line[n]
    <3>1. n # sent + 1
      BY <1>2, <2>1 DEF INIT
    <3> QED  BY <1>2, <1>3, <3>1
  <2> QED  BY <1>1, <2>1 DEF IInv, DataAhead
<1> QED
  BY <1>1, <1>4, <1>5 DEF IInv, InStep, Late, Writing, FlashKnown, Claims

LEMMA NextInv == ASSUME Adrift <= 2 PROVE IInv /\ [Next]_vars => IInv'
<1> SUFFICES ASSUME IInv, [Next]_vars PROVE IInv'
  OBVIOUS
<1>1. CASE Next
  BY <1>1, OpeningInv, ToolInv, BootInv, LoseFrameInv, LoseReplyInv, PowerInv DEF Next
<1>2. CASE UNCHANGED vars
  <2>1. UNCHANGED <<mode, img, runs, fresh, pc, block, line, replies, boot, at, mem, met>>
    BY <1>2 DEF vars, run_vars, boot_vars
  <2>2. RunInv'
    BY <1>2, NextRun DEF IInv
  <2>3. InitPending' = InitPending /\ IdPending' = IdPending
    BY <2>1 DEF InitPending, IdPending
  <2>4. InStep => InStep'
    BY <2>1 DEF InStep, Coming, Answered, Silent, Behind
  <2>5. FlashKnown => FlashKnown'
    BY <2>1 DEF FlashKnown, Claims, Filled, Written
  <2> QED
    BY <2>1, <2>2, <2>3, <2>4, <2>5, Same DEF IInv
<1> QED
  BY <1>1, <1>2

LEMMA Invariance == ASSUME Adrift <= 2 PROVE Spec => []IInv
<1>1. IInv /\ [Next]_vars => IInv'
  BY NextInv
<1> QED
  BY <1>1, InitInv, PTL DEF Spec

-----------------------------------------------------------------------------
(* Every variable of the tool, of the line and of the bootloader keeps its *)
(* type (dfu_flash.cpp, port.cpp).                                         *)
THEOREM TypeCorrect == Spec => []TypeOK
<1>1. RunInv => TypeOK
  BY DEF RunInv
<1> QED
  BY <1>1, RunInvariance, PTL

(* What the tool says of an upload is true: past its last block, and when  *)
(* it says it is done, the flash holds the whole image and nothing else    *)
(* (dfu_flash.cpp:237-253).  With three frames adrift, the erase of an     *)
(* earlier run can be answered to it, and it is one answer ahead.          *)
THEOREM ClaimsAreTrue == ASSUME Adrift <= 2 PROVE Spec => []UploadComplete
<1>1. IInv => UploadComplete
  BY DEF IInv, FlashKnown, UploadComplete
<1> QED
  BY <1>1, Invariance, PTL

(* A run that starts with the bootloader and meets no loss, no late answer *)
(* and no power cycle fails only for its file (dfu_flash.cpp:172-175,      *)
(* 241-251).                                                               *)
THEOREM FailuresHaveCause == Spec => []FailsForCause
<1>1. RunInv => FailsForCause
  BY DEF RunInv
<1> QED
  BY <1>1, RunInvariance, PTL

(* However runs are ended and started again, the flash never holds parts   *)
(* of two images (dfu_flash.cpp:240).                                      *)
THEOREM ImagesAreNotMixed == ASSUME Adrift <= 2 PROVE Spec => []NeverMixed
<1>1. IInv => NeverMixed
  BY DEF IInv
<1> QED
  BY <1>1, Invariance, PTL

=============================================================================
