----------------------------- MODULE MCPreflight -----------------------------
EXTENDS PreflightSession

CONSTANTS alice, bob, carol

(* Windows of 8 and 2 ticks.  Uses of one amount before tick 6, with who     *)
(* used it: never, only long ago, in a burst, as a standing cohort, a busier *)
(* one, one that the user (carol) is part of, and one that ends early.       *)

Never    == <<>>
Past     == << <<0, alice>>, <<2, bob>> >>
Burst    == << <<0, alice>>, <<4, alice>>, <<5, bob>> >>
Standing == << <<0, alice>>, <<2, bob>>, <<5, bob>> >>
Busy     == << <<0, alice>>, <<1, bob>>, <<4, alice>>, <<5, bob>> >>
Own      == << <<0, alice>>, <<2, bob>>, <<5, carol>> >>
Ending   == << <<0, alice>>, <<2, bob>>, <<4, bob>> >>

ThreeAmounts == {2, 3, 4}

(* One pattern per amount, and a use of another token, in chain order *)
Events(pattern) ==
  LET of(a) == [i \in DOMAIN pattern[a] |->
                  [timestamp |-> pattern[a][i][1], actor |-> pattern[a][i][2],
                   token |-> "T", amount |-> a]]
      other == << [timestamp |-> 5, actor |-> alice, token |-> "U", amount |-> 3] >>
  IN SortSeq(other \o of(2) \o of(3) \o of(4), LAMBDA l, r : l.timestamp < r.timestamp)

Pool(version, deposits, withdrawals, registrations) ==
  [engineVersion |-> version, deposits |-> deposits, withdrawals |-> withdrawals,
   registrations |-> registrations]

(* Proposals that permit all three amounts; exact ones come from the cover   *)
(* and from the final preflight.                                             *)
Proposed(action, amount, deadline) ==
  [action |-> action, account |-> carol, recipient |-> carol, token |-> "T",
   mode |-> "flexible", amount |-> amount, min |-> 2, max |-> 4, deadline |-> deadline]

Proposals(action) == {Proposed(action, 2, 0), Proposed(action, 3, 2)}

Patterns(two, three, four) ==
  {p \in [ThreeAmounts -> two \cup three \cup four] :
     p[2] \in two /\ p[3] \in three /\ p[4] \in four}

(* Deposits: perhaps the user has just registered.  Withdrawals: perhaps     *)
(* the same amounts were deposited.                                          *)
Registered == << [timestamp |-> 5, actor |-> carol] >>

DepositPools ==
  {Pool(v, Events(p), <<>>, r) :
     <<v, r>> \in {<<"CUTOUT-v1.3", <<>> >>, <<"CUTOUT-v1.4", <<>> >>, <<"CUTOUT-v1.4", Registered>>},
     p \in Patterns({Never, Standing, Own}, {Never, Past, Burst, Standing}, {Never, Standing, Busy})}

WithdrawalPools ==
  {Pool("CUTOUT-v1.4", Events(d), Events(p), <<>>) :
     p \in Patterns({Never, Standing}, {Never, Burst}, {Never, Standing}),
     d \in Patterns({Never, Ending}, {Never, Ending}, {Never})}

AllSessions ==
  DepositPools \X Proposals("shield") \cup WithdrawalPools \X Proposals("withdraw")
=============================================================================
