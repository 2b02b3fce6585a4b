--------------------------------- MODULE Router ---------------------------------
(***************************************************************************)
(* swap_router_base_in: a trade along a path of pools, the output of each  *)
(* the input of the next.  The accounts of all pools come in one list that *)
(* is read from the front.  One loop of the instruction is spread over     *)
(* several steps here; nothing else runs between them, and a failure takes *)
(* back everything.                                                        *)
(***************************************************************************)
EXTENDS Naturals, Sequences, SequencesExt

CONSTANTS
  Pools,
  ArraysNeeded,  \* the tick arrays that a pool's walk will pass through
  MaxHops, MaxAmount  \* bounds of the model

VARIABLES
  accounts,     \* the accounts not read yet
  remaining_accounts,  \* all that were given
  amount,       \* amount_in_internal
  minimum,      \* amount_out_minimum
  traded,       \* the pools that changed so far
  phase

vars == <<accounts, remaining_accounts, amount, minimum, traded, phase>>

-----------------------------------------------------------------------------
(* The list of accounts *)

Account(kind, pool, writable) == [kind |-> kind, pool |-> pool, is_writable |-> writable]

(* What a hop names, in this order; then come the accounts of the swap.    *)
HopKinds == <<"config", "pool", "output_token_account", "input_vault", "output_vault",
              "output_mint", "observation">>
Named(pool) ==
  [i \in 1..7 |-> Account(HopKinds[i], pool, HopKinds[i] \notin {"config", "output_mint"})]

HopAccounts(pool) ==
  Named(pool) \o <<Account("bitmap_extension", pool, FALSE)>>
    \o [i \in 1..ArraysNeeded[pool] |-> Account("tick_array", pool, TRUE)]

(* A path trades no pool twice.                                            *)
Paths == {path \in SeqOf(Pools, MaxHops) : path # <<>> /\ IsInjective(path)}

-----------------------------------------------------------------------------
(* exact_internal_v2 *)

(* AccountLoad::load_data_mut: of the program, writable, a tick array.     *)
LoadDataMut(account) == account.is_writable /\ account.kind = "tick_array"

(* Everything in the rest of the list but the pool's own extension is      *)
(* loaded as a tick array.                                                 *)
TickArrays(rest, pool) ==
  SelectSeq(rest, LAMBDA a : ~(a.kind = "bitmap_extension" /\ a.pool = pool))
AllLoad(rest, pool) == \A a \in ToSet(TickArrays(rest, pool)) : LoadDataMut(a)

(* swap_internal takes its arrays from the front, and all are the pool's.  *)
EnoughArrays(rest, pool) ==
  LET arrays == TickArrays(rest, pool)
  IN  /\ Len(arrays) >= ArraysNeeded[pool]
      /\ \A i \in 1..ArraysNeeded[pool] : arrays[i].pool = pool

-----------------------------------------------------------------------------
(* The loop *)

(* At the start of a hop the accounts that are left over from the last one *)
(* are skipped: whatever is not as long as an AmmConfig.                   *)
Skips ==
  /\ accounts # remaining_accounts
  /\ Head(accounts).kind # "config"
Skip ==
  /\ phase = "routing" /\ accounts # <<>> /\ Skips
  /\ accounts' = Tail(accounts)
  /\ UNCHANGED <<remaining_accounts, amount, minimum, traded, phase>>

WellNamed ==
  /\ Len(accounts) >= 7
  /\ \A i \in 1..7 : accounts[i].kind = HopKinds[i] /\ accounts[i].pool = accounts[1].pool

Hop(amount_out) ==
  LET pool == accounts[1].pool
      rest == SubSeq(accounts, 8, Len(accounts))
  IN  /\ phase = "routing" /\ accounts # <<>> /\ ~Skips
      /\ WellNamed
      /\ AllLoad(rest, pool)
      /\ EnoughArrays(rest, pool)
      /\ amount # 0 /\ amount_out # 0
      /\ accounts' = rest
      /\ amount' = amount_out
      /\ traded' = traded \cup {pool}
      /\ UNCHANGED <<remaining_accounts, minimum, phase>>

Finish ==
  /\ phase = "routing" /\ accounts = <<>>
  /\ amount >= minimum
  /\ phase' = "done"
  /\ UNCHANGED <<accounts, remaining_accounts, amount, minimum, traded>>

(* The error says why; none of the pools has traded.                       *)
Fail(why) ==
  /\ phase' = why
  /\ traded' = {}
  /\ UNCHANGED <<accounts, remaining_accounts, amount, minimum>>
FailOnAccounts ==
  /\ phase = "routing" /\ accounts # <<>> /\ ~Skips
  /\ \/ ~WellNamed
     \/ LET pool == accounts[1].pool
            rest == SubSeq(accounts, 8, Len(accounts))
        IN  ~AllLoad(rest, pool) \/ ~EnoughArrays(rest, pool)
  /\ Fail("bad accounts")
FailOnAmount ==
  /\ phase = "routing" /\ accounts # <<>> /\ ~Skips
  /\ Fail("too small")
FailOnMinimum ==
  /\ phase = "routing" /\ accounts = <<>> /\ amount < minimum
  /\ Fail("too little received")

Begin(path, amount_in, amount_out_minimum) ==
  /\ phase = "idle"
  /\ accounts' = FlattenSeq([i \in 1..Len(path) |-> HopAccounts(path[i])])
  /\ remaining_accounts' = accounts'
  /\ amount' = amount_in
  /\ minimum' = amount_out_minimum
  /\ phase' = "routing"
  /\ UNCHANGED traded

Init ==
  /\ accounts = <<>> /\ remaining_accounts = <<>>
  /\ amount = 0 /\ minimum = 0
  /\ traded = {}
  /\ phase = "idle"

Next ==
  \/ \E path \in Paths, amount_in \in 1..MaxAmount, amount_out_minimum \in 0..MaxAmount :
       Begin(path, amount_in, amount_out_minimum)
  \/ Skip
  \/ \E amount_out \in 0..MaxAmount : Hop(amount_out)
  \/ Finish
  \/ FailOnAccounts \/ FailOnAmount \/ FailOnMinimum

Spec == Init /\ [][Next]_vars

-----------------------------------------------------------------------------
(* Properties *)

(* A route that names, for every pool of its path, the accounts of the hop *)
(* and all the tick arrays that its trade needs, does not fail on them:    *)
(* the token is "swapped for as much as possible of another token across   *)
(* the path provided".                                                     *)
PathIsWalked == phase # "bad accounts"
=================================================================================
