--------------------------- MODULE EscrowPromise ---------------------------
(***************************************************************************)
(* What the escrow promises, without saying how: the owner's deposits are  *)
(* held until they are the whole price, and then leave at most once, in    *)
(* full, to one finder or back to the owner.                               *)
(***************************************************************************)
EXTENDS Integers

CONSTANTS Wallets, Owner, Rewards, Supply

VARIABLES
    phase,      \* "none", "open", "paid", "returned" or "abandoned"
    price,      \* what the finder is to receive
    held,       \* what the escrow owes
    tokens      \* what every wallet has

promiseVars == <<phase, price, held, tokens>>

Prices == Rewards \ {0}

Init ==
    /\ \/ phase = "none" /\ price = 0
       \/ phase = "open" /\ price \in Prices
    /\ held = 0
    /\ tokens = [w \in Wallets |-> IF w = Owner THEN Supply ELSE 0]

Announce ==
    /\ phase = "none"
    /\ phase' = "open"
    /\ price' \in Prices
    /\ UNCHANGED <<held, tokens>>

Deposit(amount) ==
    /\ phase = "open"
    /\ held + amount <= price
    /\ amount <= tokens[Owner]
    /\ held' = held + amount
    /\ tokens' = [tokens EXCEPT ![Owner] = @ - amount]
    /\ UNCHANGED <<phase, price>>

Empty(w, end) ==
    /\ phase = "open"
    /\ held = price
    /\ phase' = end
    /\ held' = 0
    /\ tokens' = [tokens EXCEPT ![w] = @ + price]
    /\ UNCHANGED price

Pay(w) == w # Owner /\ Empty(w, "paid")

GiveBack == Empty(Owner, "returned")

Abandon ==
    /\ phase = "open"
    /\ held = 0
    /\ phase' = "abandoned"
    /\ UNCHANGED <<price, held, tokens>>

Next ==
    \/ Announce
    \/ \E amount \in 1..Supply : Deposit(amount)
    \/ \E w \in Wallets : Pay(w)
    \/ GiveBack
    \/ Abandon

Spec == Init /\ [][Next]_promiseVars
=============================================================================
