--------------------------- MODULE TickArrayBitmap ---------------------------
(***************************************************************************)
(* The bitmap that tells which tick arrays hold initialized ticks.  The    *)
(* pool account has one word of two halves around tick zero; arrays        *)
(* further out have their bits in the words of an extension account, one   *)
(* row of words for either sign.  A word is the set of its bits that are   *)
(* set.                                                                    *)
(*                                                                         *)
(* A search alternates between the pool's word and one word of the         *)
(* extension until it finds a bit or leaves the range of ticks; one step   *)
(* here is one look into a word.                                           *)
(***************************************************************************)
EXTENDS Integers, FiniteSetsExt

CONSTANTS
  MAX_TICK,
  TickSpacings,                    \* the tick spacings a pool may have
  TICK_ARRAY_SIZE,
  TICK_ARRAY_BITMAP_SIZE,          \* bits of one half of the pool's word
  EXTENSION_TICKARRAY_BITMAP_SIZE  \* words for each sign in the extension

MIN_TICK == -MAX_TICK

(* The extension covers every tick, and the pool's word never ends exactly *)
(* at MAX_TICK, which check_extension_boundary would refuse.               *)
ASSUME BitmapAssumption ==
  /\ MAX_TICK \in Nat \ {0}
  /\ TICK_ARRAY_SIZE \in Nat \ {0}
  /\ TICK_ARRAY_BITMAP_SIZE \in Nat \ {0}
  /\ EXTENSION_TICKARRAY_BITMAP_SIZE \in Nat
  /\ TickSpacings \subseteq Nat \ {0}
  /\ \A s \in TickSpacings :
       LET half == s * TICK_ARRAY_SIZE * TICK_ARRAY_BITMAP_SIZE
       IN  MAX_TICK # half /\ MAX_TICK < half * (EXTENSION_TICKARRAY_BITMAP_SIZE + 1)

VARIABLES
  tick_spacing,                \* PoolState.tick_spacing
  tick_array_bitmap,           \* PoolState.tick_array_bitmap
  positive_tick_array_bitmap,  \* TickArrayBitmapExtension's words, by offset
  negative_tick_array_bitmap,
  search                       \* the search under way

bitmapVars == <<tick_array_bitmap, positive_tick_array_bitmap, negative_tick_array_bitmap>>
vars == <<tick_spacing, bitmapVars, search>>

Abs(x) == IF x < 0 THEN -x ELSE x

TickCount == TICK_ARRAY_SIZE * tick_spacing
ArrayStart(tick) == (tick \div TickCount) * TickCount
MaxTickInBitmap == tick_spacing * TICK_ARRAY_SIZE * TICK_ARRAY_BITMAP_SIZE

(* Multiples of the array's size from MIN_TICK to MAX_TICK, and the start  *)
(* of MIN_TICK's array, which may lie below.                               *)
ValidStart(tick) ==
  IF tick < MIN_TICK THEN tick = ArrayStart(MIN_TICK)
  ELSE tick <= MAX_TICK /\ tick % TickCount = 0
ArrayStarts == {tick \in ArrayStart(MIN_TICK)..MAX_TICK : ValidStart(tick)}

-----------------------------------------------------------------------------
(* Where an array has its bit *)

(* An array is beyond the pool's word.                                     *)
Overflows_Closed(start) == start > MaxTickInBitmap \/ start < -MaxTickInBitmap
Overflows(start) ==
  LET top == IF MaxTickInBitmap > MAX_TICK THEN ArrayStart(MAX_TICK) + TickCount
                                           ELSE MaxTickInBitmap
      bottom == IF -MaxTickInBitmap < MIN_TICK THEN ArrayStart(MIN_TICK)
                                               ELSE -MaxTickInBitmap
  IN  start >= top \/ start < bottom

PoolBit(tick) == tick \div TickCount + TICK_ARRAY_BITMAP_SIZE

WordOffset_AnySign(start) == Abs(start) \div MaxTickInBitmap - 1
(* get_bitmap_offset: a negative word ends with its multiple, a positive   *)
(* one begins with it.                                                     *)
WordOffset(start) ==
  Abs(start) \div MaxTickInBitmap - 1
    - (IF start < 0 /\ Abs(start) % MaxTickInBitmap = 0 THEN 1 ELSE 0)

(* What get_bitmap_offset requires.                                        *)
InExtension(start) ==
  /\ ValidStart(start)
  /\ MAX_TICK > MaxTickInBitmap
  /\ ~(-MaxTickInBitmap <= start /\ start < MaxTickInBitmap)

Word(start) ==
  IF start < 0 THEN negative_tick_array_bitmap[WordOffset(start)]
               ELSE positive_tick_array_bitmap[WordOffset(start)]

(* tick_array_offset_in_bitmap: negative words run upwards too.            *)
WordBit(start) ==
  LET m == Abs(start) % MaxTickInBitmap
  IN  IF start < 0 /\ m # 0 THEN TICK_ARRAY_BITMAP_SIZE - m \div TickCount
                            ELSE m \div TickCount

(* get_bitmap_tick_boundary: the ticks [min, max) of the word of an array. *)
WordMin(start) ==
  LET m == Abs(start) \div MaxTickInBitmap
  IN  IF start < 0
      THEN -MaxTickInBitmap * (IF Abs(start) % MaxTickInBitmap # 0 THEN m + 1 ELSE m)
      ELSE MaxTickInBitmap * m
WordMax(start) == WordMin(start) + MaxTickInBitmap

(* Whether the array's bit is set, wherever it is.                         *)
IsFlagged(start) ==
  IF Overflows(start) THEN WordBit(start) \in Word(start)
                      ELSE PoolBit(start) \in tick_array_bitmap

FlipBit(word, bit) == IF bit \in word THEN word \ {bit} ELSE word \cup {bit}

(* flip_tick_array_bit, when the first tick of an array becomes            *)
(* initialized or the last one no longer is.                               *)
FlipTickArrayBit(start) ==
  /\ search.phase = "idle"
  /\ start \in ArrayStarts
  /\ IF ~Overflows(start)
     THEN /\ tick_array_bitmap' = FlipBit(tick_array_bitmap, PoolBit(start))
          /\ UNCHANGED <<positive_tick_array_bitmap, negative_tick_array_bitmap>>
     ELSE /\ InExtension(start)
          /\ IF start < 0
             THEN /\ negative_tick_array_bitmap' =
                       [negative_tick_array_bitmap EXCEPT
                          ![WordOffset(start)] = FlipBit(@, WordBit(start))]
                  /\ UNCHANGED positive_tick_array_bitmap
             ELSE /\ positive_tick_array_bitmap' =
                       [positive_tick_array_bitmap EXCEPT
                          ![WordOffset(start)] = FlipBit(@, WordBit(start))]
                  /\ UNCHANGED negative_tick_array_bitmap
          /\ UNCHANGED tick_array_bitmap
  /\ UNCHANGED <<tick_spacing, search>>

-----------------------------------------------------------------------------
(* Search *)

IdleSearch ==
  [phase |-> "idle", from |-> 0, first |-> FALSE, zero_for_one |-> FALSE,
   extension |-> FALSE, last |-> 0]

(* get_first_initialized_tick_array: the array of the current tick, or the *)
(* next one.                                                               *)
FirstArray(tick, zero_for_one, extension) ==
  /\ search.phase = "idle"
  /\ search' =
       [phase |-> IF Overflows(ArrayStart(tick)) /\ ~extension THEN "missing"
                  ELSE IF IsFlagged(ArrayStart(tick)) THEN "found" ELSE "pool",
        from |-> ArrayStart(tick), first |-> TRUE, zero_for_one |-> zero_for_one,
        extension |-> extension, last |-> ArrayStart(tick)]
  /\ UNCHANGED <<tick_spacing, bitmapVars>>

(* next_initialized_tick_array_start_index, as the swap loop calls it.     *)
NextArray(start, zero_for_one, extension) ==
  /\ search.phase = "idle"
  /\ search' = [phase |-> "pool", from |-> start, first |-> FALSE,
                zero_for_one |-> zero_for_one, extension |-> extension, last |-> start]
  /\ UNCHANGED <<tick_spacing, bitmapVars>>

(* The first set bit of a word from bit on: downwards the word is shifted  *)
(* left until bit is on top, upwards right until it is at the bottom.      *)
From(word, bit) ==
  IF search.zero_for_one THEN {b \in word : b <= bit} ELSE {b \in word : bit <= b}
Leading(bits) == IF search.zero_for_one THEN Max(bits) ELSE Min(bits)

Following == IF search.zero_for_one THEN search.last - TickCount ELSE search.last + TickCount

Found(start) == search' = [search EXCEPT !.phase = "found", !.last = start]

(* The rest of the pool's word, from the array after the last one.  When   *)
(* that array is not in the word, last stays where it is.                  *)
PoolMiss(next) ==
  IF next < -MaxTickInBitmap \/ next >= MaxTickInBitmap THEN search.last
  ELSE IF search.zero_for_one THEN -MaxTickInBitmap
  ELSE MaxTickInBitmap - TickCount

LookInPool ==
  LET bits == IF Following < -MaxTickInBitmap \/ Following >= MaxTickInBitmap THEN {}
              ELSE From(tick_array_bitmap, PoolBit(Following))
  IN  /\ search.phase = "pool"
      /\ IF ~ValidStart(search.last) THEN search' = [search EXCEPT !.phase = "failed"]
         ELSE IF bits # {} THEN Found((Leading(bits) - TICK_ARRAY_BITMAP_SIZE) * TickCount)
         ELSE search' = [search EXCEPT
                           !.phase = IF search.extension THEN "extension" ELSE "missing",
                           !.last  = PoolMiss(Following)]
      /\ UNCHANGED <<tick_spacing, bitmapVars>>

(* The rest of one word of the extension.                                  *)
OutOfTicks(start) == start < ArrayStart(MIN_TICK) \/ start > ArrayStart(MAX_TICK)
ExtensionMiss_Stays(next) ==
  IF OutOfTicks(next) THEN search.last
  ELSE IF search.zero_for_one THEN WordMin(next) ELSE WordMax(next) - TickCount
ExtensionMiss(next) ==
  IF OutOfTicks(next) THEN next
  ELSE IF search.zero_for_one THEN WordMin(next) ELSE WordMax(next) - TickCount

LookInExtension ==
  LET bits == IF OutOfTicks(Following) THEN {} ELSE From(Word(Following), WordBit(Following))
      miss == ExtensionMiss(Following)
  IN  /\ search.phase = "extension"
      /\ IF ~OutOfTicks(Following) /\ ~InExtension(Following)
         THEN search' = [search EXCEPT !.phase = "failed"]
         ELSE IF bits # {}
         THEN Found(Following + (Leading(bits) - WordBit(Following)) * TickCount)
         ELSE search' = [search EXCEPT
                           !.phase = IF miss < MIN_TICK \/ miss > MAX_TICK THEN "none"
                                     ELSE "pool",
                           !.last  = miss]
      /\ UNCHANGED <<tick_spacing, bitmapVars>>

EndSearch ==
  /\ search.phase \in {"found", "none", "missing"}
  /\ search' = IdleSearch
  /\ UNCHANGED <<tick_spacing, bitmapVars>>

-----------------------------------------------------------------------------
Offsets == 0..(EXTENSION_TICKARRAY_BITMAP_SIZE - 1)

Init ==
  /\ tick_spacing \in TickSpacings
  /\ tick_array_bitmap = {}
  /\ positive_tick_array_bitmap = [o \in Offsets |-> {}]
  /\ negative_tick_array_bitmap = [o \in Offsets |-> {}]
  /\ search = IdleSearch

Next ==
  \/ \E start \in ArrayStarts : FlipTickArrayBit(start)
  \/ \E tick \in MIN_TICK..MAX_TICK, zero_for_one, extension \in BOOLEAN :
       FirstArray(tick, zero_for_one, extension)
  \/ \E start \in ArrayStarts, zero_for_one, extension \in BOOLEAN :
       NextArray(start, zero_for_one, extension)
  \/ LookInPool
  \/ LookInExtension
  \/ EndSearch

(* A search is a loop of one instruction: once begun, nothing stops it     *)
(* from taking its next turn.                                              *)
Spec == Init /\ [][Next]_vars /\ WF_vars(LookInPool \/ LookInExtension)

-----------------------------------------------------------------------------
(* Properties *)

TypeOK ==
  /\ tick_spacing \in TickSpacings
  /\ tick_array_bitmap \subseteq 0..(2 * TICK_ARRAY_BITMAP_SIZE - 1)
  /\ positive_tick_array_bitmap \in [Offsets -> SUBSET (0..(TICK_ARRAY_BITMAP_SIZE - 1))]
  /\ negative_tick_array_bitmap \in [Offsets -> SUBSET (0..(TICK_ARRAY_BITMAP_SIZE - 1))]
  /\ search.phase \in {"idle", "pool", "extension", "found", "none", "missing"}
  /\ search.from \in Int /\ search.last \in Int

Index == INSTANCE ArrayIndex WITH
  arrays  <- ArrayStarts,
  core    <- {start \in ArrayStarts : ~Overflows(start)},
  flagged <- {start \in ArrayStarts : IsFlagged(start)},
  search  <- [phase |-> IF search.phase \in {"pool", "extension"} THEN "asked"
                        ELSE search.phase,
              from |-> search.from, first |-> search.first,
              zero_for_one |-> search.zero_for_one, extension |-> search.extension,
              answer |-> IF search.phase = "found" THEN search.last ELSE search.from]

(* The words of the pool and of the extension are one index: a flip        *)
(* changes the flag of exactly one array, and a search, over all the       *)
(* hand-overs from word to word, answers with the nearest flagged array,   *)
(* with none only if there is none, and never fails on an index that it    *)
(* worked out itself.                                                      *)
ImplementsIndex == Index!Spec

(* Every search ends: the hand-over between the pool's word and the        *)
(* extension does not go back and forth for ever.                          *)
SearchEnds == search.phase \in {"pool", "extension"} ~> search.phase \in {"found", "none", "missing"}
=============================================================================
