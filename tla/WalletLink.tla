----------------------------- MODULE WalletLink -----------------------------
(***************************************************************************)
(* Linking a wallet to an account (api/wallet/challenge, api/wallet/verify *)
(* and ConnectWalletButton.tsx).  The account's profile keeps the hash of  *)
(* one challenge, which the wallet signs; verification reads the profile,  *)
(* checks, and writes the profile in a second statement.  Sessions are     *)
(* open pages, several of one account or not; the account selected in the  *)
(* wallet may change while a page waits for the signature.                 *)
(***************************************************************************)
EXTENDS Integers, FiniteSets

CONSTANTS
  Users, Wallets, Sessions,
  NoWallet,
  Challenges   \* bound: challenges issued, numbered

ASSUME WalletAssumption == NoWallet \notin Wallets /\ Challenges \subseteq Nat

VARIABLES
  profile,     \* wallet_pubkey, wallet_nonce_hash
  session,
  issued,      \* number of the last challenge
  expired,     \* challenges older than five minutes
  proofs       \* what wallets have signed: an account and a challenge

walletVars == <<profile, session, issued, expired, proofs>>

NoNonce == 0
Closed == [pc |-> "idle", user |-> NoWallet, wallet |-> NoWallet, nonce |-> NoNonce,
           signer |-> NoWallet]

WalletInit ==
  /\ profile = [u \in Users |-> [wallet |-> NoWallet, nonce |-> NoNonce]]
  /\ session = [s \in Sessions |-> Closed]
  /\ issued = NoNonce
  /\ expired = {}
  /\ proofs = {}

\* A new challenge replaces the account's former one.
Challenge(s) ==
  /\ session[s].pc = "idle"
  /\ issued + 1 \in Challenges
  /\ issued' = issued + 1
  /\ \E u \in Users, w \in Wallets :
       /\ session' = [session EXCEPT
            ![s] = [pc |-> "sign", user |-> u, wallet |-> w,
                    nonce |-> issued', signer |-> NoWallet]]
       /\ profile' = [profile EXCEPT ![u].nonce = issued']
  /\ UNCHANGED <<expired, proofs>>

\* The wallet signs with the account selected now, or its user declines.
SignMessage(s) ==
  /\ session[s].pc = "sign"
  /\ \/ \E w \in Wallets :
          /\ proofs' = proofs \cup {[wallet |-> w, user |-> session[s].user,
                                     nonce |-> session[s].nonce]}
          /\ session' = [session EXCEPT ![s].pc = "verify", ![s].signer = w]
     \/ /\ session' = [session EXCEPT ![s] = Closed]
        /\ UNCHANGED proofs
  /\ UNCHANGED <<profile, issued, expired>>

MutNoSignatureCheck(s) ==
  /\ profile[session[s].user].nonce = session[s].nonce
  /\ session[s].nonce \notin expired

\* The message is the one the profile remembers, it is fresh, and the address
\* signed it.
Authentic(s) ==
  /\ profile[session[s].user].nonce = session[s].nonce
  /\ session[s].nonce \notin expired
  /\ session[s].signer = session[s].wallet

VerifyReads(s) ==
  /\ session[s].pc = "verify"
  /\ session' = [session EXCEPT ![s] = IF Authentic(s)
                                       THEN [session[s] EXCEPT !.pc = "link"]
                                       ELSE Closed]
  /\ UNCHANGED <<profile, issued, expired, proofs>>

\* profiles_wallet_unique refuses a wallet that another account has.  Whatever
\* challenge the profile holds by now is cleared.
VerifyWrites(s) ==
  /\ session[s].pc = "link"
  /\ LET u == session[s].user
         w == session[s].wallet
     IN  profile' = IF \E v \in Users \ {u} : profile[v].wallet = w
                    THEN profile
                    ELSE [profile EXCEPT ![u] = [wallet |-> w,
                                                 nonce |-> NoNonce]]
  /\ session' = [session EXCEPT ![s] = Closed]
  /\ UNCHANGED <<issued, expired, proofs>>

FiveMinutesPass ==
  /\ expired' = 1..issued
  /\ UNCHANGED <<profile, session, issued, proofs>>

PageCloses(s) ==
  /\ session[s].pc \in {"sign", "verify"}
  /\ session' = [session EXCEPT ![s] = Closed]
  /\ UNCHANGED <<profile, issued, expired, proofs>>

WalletNext ==
  \/ \E s \in Sessions : \/ Challenge(s) \/ SignMessage(s) \/ VerifyReads(s)
                         \/ VerifyWrites(s) \/ PageCloses(s)
  \/ FiveMinutesPass

-----------------------------------------------------------------------------
(* Properties.                                                             *)

\* Whatever pages, accounts and wallets interleave, and whichever account the
\* wallet switches to meanwhile, an account is linked only to a wallet that
\* signed a challenge naming it, and a wallet to one account.
LinkedWalletIsProven ==
  /\ \A u \in Users : profile[u].wallet # NoWallet =>
       \E p \in proofs : p.wallet = profile[u].wallet /\ p.user = u
  /\ \A u, v \in Users :
       profile[u].wallet = profile[v].wallet /\ u # v =>
         profile[u].wallet = NoWallet
=============================================================================
