------------------------ MODULE BillingSessionProofs ------------------------
(***************************************************************************)
(* Proofs about BillingSession: the charges of a session agree with what   *)
(* the session records, for every number of concurrent requests, every     *)
(* profile, every ledger balance and every pattern of failing database     *)
(* calls; and what settled requests used stays on the subscription.        *)
(***************************************************************************)
EXTENDS BillingSession, TLAPS

(* The status of a SubscriptionPreConsumeRecord *)
Statuses == {"none", "consumed", "refunded"}

(* What the invariant says of one request. *)
LEMMA Unpack ==
    ASSUME IInv, NEW r \in Requests
    PROVE  /\ prof[r] \in Profile /\ ctl[r] \in Control /\ sess[r] \in Session
           /\ paid[r] \in [Ledgers -> Int] /\ lost[r] \in BOOLEAN
           /\ record[r] \in Statuses
           /\ RequestOk(prof[r], ctl[r], sess[r], paid[r], lost[r], record[r])
  BY ProfilesAssumption DEF IInv, TypeOK, Statuses

(* A step changes only request r's components, and keeps the ledgers' types *)
Only(r) ==
    /\ ctl' = [ctl EXCEPT ![r] = ctl'[r]]
    /\ sess' = [sess EXCEPT ![r] = sess'[r]]
    /\ paid' = [paid EXCEPT ![r] = paid'[r]]
    /\ lost' = [lost EXCEPT ![r] = lost'[r]]
    /\ record' = [record EXCEPT ![r] = record'[r]]
    /\ prof' = prof

LedgersOk ==
    /\ wallet' \in Int /\ token' \in Int /\ subUsed' \in Nat
    /\ subActive' \in BOOLEAN /\ faults' \in Nat /\ SubWithinTotal'

(* A step that satisfies Only(r), LedgersOk and RequestOk for r, in the      *)
(* next state, keeps the invariant.                                        *)
LEMMA OneRequest ==
    ASSUME IInv, NEW r \in Requests, Only(r), LedgersOk,
           ctl'[r] \in Control, sess'[r] \in Session,
           paid'[r] \in [Ledgers -> Int], lost'[r] \in BOOLEAN,
           record'[r] \in Statuses,
           RequestOk(prof[r], ctl'[r], sess'[r], paid'[r], lost'[r], record'[r])
    PROVE  IInv'
  <1>1. TypeOK'
    BY DEF IInv, TypeOK, Only, LedgersOk, Statuses
  <1>2. ASSUME NEW q \in Requests
        PROVE  RequestOk(prof[q], ctl'[q], sess'[q], paid'[q], lost'[q], record'[q])
    <2>1. CASE q = r
      BY <2>1
    <2>2. CASE q # r
      BY <2>2 DEF IInv, TypeOK, Only
    <2> QED BY <2>1, <2>2
  <1> QED
    BY <1>1, <1>2 DEF IInv, Only, LedgersOk


-----------------------------------------------------------------------------
(* Updates of the control state.                                           *)

(* A jump changes one request and only its label. *)
LEMMA GotoEffect ==
    ASSUME IInv, NEW r \in Requests, NEW p \in Labels, Goto(r, p)
    PROVE  /\ ctl' = [ctl EXCEPT ![r] = ctl'[r]]
           /\ ctl'[r] \in Control /\ ctl'[r].pc = p
           /\ ctl'[r].bg = ctl[r].bg /\ ctl'[r].arg = ctl[r].arg
  <1>1. ctl'[r] = [ctl[r] EXCEPT !.pc = p] /\ ctl' = [ctl EXCEPT ![r] = ctl'[r]]
    BY DEF Goto, IInv, TypeOK
  <1> QED
    BY <1>1, Unpack DEF Control

(* A step of the goroutine changes one request and only its position. *)
LEMMA BgGotoEffect ==
    ASSUME IInv, NEW r \in Requests,
           NEW b \in {"none", "fund", "commit", "token", "end"}, BgGoto(r, b)
    PROVE  /\ ctl' = [ctl EXCEPT ![r] = ctl'[r]]
           /\ ctl'[r] \in Control /\ ctl'[r].bg = b
           /\ ctl'[r].pc = ctl[r].pc /\ ctl'[r].arg = ctl[r].arg
  <1>1. ctl'[r] = [ctl[r] EXCEPT !.bg = b] /\ ctl' = [ctl EXCEPT ![r] = ctl'[r]]
    BY DEF BgGoto, IInv, TypeOK
  <1> QED
    BY <1>1, Unpack DEF Control

(* A call changes the label and the argument of one request. *)
LEMMA CallEffect ==
    ASSUME IInv, NEW r \in Requests, NEW p \in Labels, NEW a \in Nat, Call(r, p, a)
    PROVE  /\ ctl' = [ctl EXCEPT ![r] = ctl'[r]]
           /\ ctl'[r] \in Control /\ ctl'[r].pc = p
           /\ ctl'[r].bg = ctl[r].bg /\ ctl'[r].arg = a
  <1>1. /\ ctl'[r] = [ctl[r] EXCEPT !.pc = p, !.arg = a]
        /\ ctl' = [ctl EXCEPT ![r] = ctl'[r]]
    BY DEF Call, IInv, TypeOK
  <1> QED
    BY <1>1, Unpack DEF Control

(* An error of the funding source is remembered with the label. *)
LEMMA FundingErrorEffect ==
    ASSUME IInv, NEW r \in Requests, NEW e \in {"error", "insufficient"},
           FundingError(r, e)
    PROVE  /\ ctl' = [ctl EXCEPT ![r] = ctl'[r]]
           /\ ctl'[r] \in Control /\ ctl'[r].pc = "rollback"
           /\ ctl'[r].bg = ctl[r].bg
  <1>1. /\ ctl'[r] = [ctl[r] EXCEPT !.pc = "rollback", !.code = e]
        /\ ctl' = [ctl EXCEPT ![r] = ctl'[r]]
    BY DEF FundingError, IInv, TypeOK
  <1> QED
    BY <1>1, Unpack DEF Control, Labels

-----------------------------------------------------------------------------
(* Steps before the funding source is charged.                             *)

(* A session that holds nothing and has reached no verdict *)
Blank(s) == /\ s.pre = 0 /\ s.tok = 0 /\ s.consumed = 0
            /\ ~s.settled /\ ~s.refunded /\ ~s.fundingSettled

(* Where a request is after PreConsumeBilling gave up on a source *)
Restarts == {"rejected", "trySub", "overflow", "tryWallet", "hasSub"}

(* NewBillingSession starts with a session that holds nothing. *)
LEMMA FreshIsBlank == FreshSession \in Session /\ Blank(FreshSession)
  BY DEF FreshSession, Session, Blank

(* A step to another opening label, with a blank session, keeps IInv *)
LEMMA ToOpening ==
    ASSUME IInv, NEW r \in Requests, Only(r), LedgersOk,
           ctl[r].pc \in Opening \cup {"fund", "rollback"},
           ctl'[r] \in Control, ctl'[r].pc \in Opening, ctl'[r].bg = ctl[r].bg,
           sess'[r] \in Session, Blank(sess'[r]),
           ctl'[r].pc \in {"tokenRead", "tokenDec"} =>
              sess'[r].src \in {"wallet", "subscription"},
           ctl'[r].pc = "tokenDec" => ~prof[r].playground,
           record'[r] = record[r], lost'[r] \in BOOLEAN,
           paid'[r] \in [Ledgers -> Int], paid'[r]["wallet"] = 0,
           paid'[r]["subscription"] = 0, Owes(lost'[r], paid'[r]["token"], 0)
    PROVE  IInv'
  <1>1. RequestOk(prof[r], ctl'[r], sess'[r], paid'[r], lost'[r], record'[r])
    BY Unpack
    DEF RequestOk, OpeningOk, HoldingOk, ClosedOk, GoroutineOk, Owes, Share,
        Blank, Opening, Holding, Closed, Control, Session, Ledgers,
        Statuses
  <1> QED
    BY <1>1, Unpack, OneRequest

(* Reject and Insufficient drop the session and restart or end the request *)
LEMMA Leaving ==
    ASSUME IInv, NEW r \in Requests, Reject(r) \/ \E src : Insufficient(r, src)
    PROVE  /\ ctl' = [ctl EXCEPT ![r] = ctl'[r]]
           /\ ctl'[r] \in Control /\ ctl'[r].bg = ctl[r].bg
           /\ ctl'[r].pc \in Restarts
           /\ sess' = [sess EXCEPT ![r] = FreshSession]
           /\ sess'[r] = FreshSession
  <1>1. CASE \E p \in Restarts : Goto(r, p) /\ sess' = [sess EXCEPT ![r] = FreshSession]
    <2>1. PICK p \in Restarts : Goto(r, p)
      BY <1>1
    <2>2. ctl'[r] = [ctl[r] EXCEPT !.pc = p] /\ ctl' = [ctl EXCEPT ![r] = ctl'[r]]
      BY <2>1 DEF IInv, TypeOK, Goto
    <2> QED
      BY <1>1, <2>2, Unpack DEF Control, Labels, Restarts, IInv, TypeOK
  <1>2. CASE /\ ctl' = [ctl EXCEPT ![r].pc = FirstTry(r), ![r].attempt = @ + 1]
             /\ sess' = [sess EXCEPT ![r] = FreshSession]
    <2>1. /\ ctl'[r] = [ctl[r] EXCEPT !.pc = FirstTry(r), !.attempt = @ + 1]
          /\ ctl' = [ctl EXCEPT ![r] = ctl'[r]]
      BY <1>2, Unpack DEF IInv, TypeOK, Control
    <2>2. FirstTry(r) \in Restarts
      BY DEF FirstTry, Restarts
    <2> QED
      BY <1>2, <2>1, <2>2, Unpack DEF Control, Labels, Restarts, IInv, TypeOK
  <1> QED
    BY <1>1, <1>2 DEF Reject, Insufficient, Restarts

(* Reject and Insufficient keep the invariant when nothing is charged. *)
LEMMA LeavingKeeps ==
    ASSUME IInv, NEW r \in Requests, Reject(r) \/ \E src : Insufficient(r, src),
           ctl[r].pc \in Opening, NothingMoves, UNCHANGED <<record, prof, lost>>,
           faults' \in Nat
    PROVE  IInv'
  <1>1. Only(r) /\ LedgersOk
    BY Leaving DEF Only, LedgersOk, NothingMoves, ledgers, IInv, TypeOK, SubWithinTotal
  <1>2. /\ paid'[r] = paid[r] /\ lost'[r] = lost[r] /\ record'[r] = record[r]
        /\ paid'[r]["wallet"] = 0 /\ paid'[r]["subscription"] = 0
        /\ Owes(lost'[r], paid'[r]["token"], 0)
    BY Unpack DEF NothingMoves, RequestOk, OpeningOk, Share
  <1> QED
    BY <1>1, <1>2, Leaving, Unpack, FreshIsBlank, ToOpening DEF Restarts, Opening

(* Start keeps the invariant. *)
LEMMA StartKeeps ==
    ASSUME IInv, NEW r \in Requests, Start(r)
    PROVE  IInv'
  <1>1. Only(r) /\ LedgersOk
    BY DEF Start, Only, LedgersOk, ledgers, IInv, TypeOK, SubWithinTotal
  <1>2. ctl'[r] = [ctl[r] EXCEPT !.pc = FirstTry(r), !.tokenSeen = token]
    BY DEF Start, IInv, TypeOK
  <1>3. FirstTry(r) \in Restarts
    BY DEF FirstTry, Restarts
  <1>4. ctl'[r] \in Control /\ ctl'[r].bg = ctl[r].bg /\ ctl'[r].pc \in Restarts
    BY <1>2, <1>3, Unpack DEF Control, Labels, Restarts, IInv, TypeOK
  <1>5. /\ sess'[r] = sess[r] /\ paid'[r] = paid[r] /\ lost'[r] = lost[r]
        /\ record'[r] = record[r] /\ Blank(sess[r])
        /\ paid'[r]["wallet"] = 0 /\ paid'[r]["subscription"] = 0
        /\ Owes(lost'[r], paid'[r]["token"], 0)
    BY Unpack DEF Start, RequestOk, OpeningOk, Opening, Share, Blank
  <1> QED
    BY <1>1, <1>4, <1>5, Unpack, ToOpening DEF Start, Restarts, Opening

(* The steps that only look: the session stays blank or is rebuilt blank *)
LEMMA LookingKeeps ==
    ASSUME IInv, NEW r \in Requests, NEW p \in Opening, NEW s \in Session,
           ctl[r].pc \in Opening, Goto(r, p), sess' = [sess EXCEPT ![r] = s],
           Blank(s), p \in {"tokenRead", "tokenDec"} => s.src \in {"wallet", "subscription"},
           p = "tokenDec" => ~prof[r].playground,
           NothingMoves, UNCHANGED <<record, prof, lost>>, faults' \in Nat
    PROVE  IInv'
  <1>1. Only(r) /\ LedgersOk
    BY DEF Goto, Only, LedgersOk, NothingMoves, ledgers, IInv, TypeOK, SubWithinTotal
  <1>2. ctl'[r] = [ctl[r] EXCEPT !.pc = p] /\ sess'[r] = s
    BY DEF Goto, IInv, TypeOK
  <1>3. ctl'[r] \in Control /\ ctl'[r].bg = ctl[r].bg /\ ctl'[r].pc = p
    BY <1>2, Unpack DEF Control, Labels, Opening
  <1>4. /\ paid'[r] = paid[r] /\ lost'[r] = lost[r] /\ record'[r] = record[r]
        /\ paid'[r]["wallet"] = 0 /\ paid'[r]["subscription"] = 0
        /\ Owes(lost'[r], paid'[r]["token"], 0)
    BY Unpack DEF NothingMoves, RequestOk, OpeningOk, Share
  <1> QED
    BY <1>1, <1>2, <1>3, <1>4, Unpack, ToOpening

(* HasSub keeps the invariant. *)
LEMMA HasSubKeeps ==
    ASSUME IInv, NEW r \in Requests, HasSub(r)
    PROVE  IInv'
  <1>1. CASE DbFault /\ Reject(r)
    <2>1. faults' \in Nat
      BY <1>1 DEF DbFault, IInv, TypeOK
    <2> QED
      BY <1>1, <2>1, LeavingKeeps DEF HasSub, Opening
  <1>2. CASE DbOk /\ Goto(r, IF subActive THEN "trySub" ELSE "tryWallet") /\ UNCHANGED sess
    <2>1. Blank(sess[r]) /\ sess' = [sess EXCEPT ![r] = sess[r]]
      BY <1>2, Unpack DEF HasSub, RequestOk, OpeningOk, Opening, Blank, IInv, TypeOK
    <2> QED
      BY <1>2, <2>1, Unpack, LookingKeeps DEF HasSub, DbOk, Opening, IInv, TypeOK
  <1> QED
    BY <1>1, <1>2 DEF HasSub

(* Overflow keeps the invariant. *)
LEMMA OverflowKeeps ==
    ASSUME IInv, NEW r \in Requests, Overflow(r)
    PROVE  IInv'
  <1>1. CASE (DbFault \/ DbOk) /\ Reject(r)
    <2>1. faults' \in Nat
      BY <1>1 DEF DbFault, DbOk, IInv, TypeOK
    <2> QED
      BY <1>1, <2>1, LeavingKeeps DEF Overflow, Opening
  <1>2. CASE DbOk /\ Goto(r, "tryWallet") /\ UNCHANGED sess
    <2>1. Blank(sess[r]) /\ sess' = [sess EXCEPT ![r] = sess[r]]
      BY <1>2, Unpack DEF Overflow, RequestOk, OpeningOk, Opening, Blank, IInv, TypeOK
    <2> QED
      BY <1>2, <2>1, Unpack, LookingKeeps DEF Overflow, DbOk, Opening, IInv, TypeOK
  <1> QED
    BY <1>1, <1>2 DEF Overflow

(* TrySub keeps the invariant. *)
LEMMA TrySubKeeps ==
    ASSUME IInv, NEW r \in Requests, TrySub(r)
    PROVE  IInv'
  <1>1. DEFINE s == [FreshSession EXCEPT !.src = "subscription"]
  <1>2. s \in Session /\ Blank(s) /\ s.src = "subscription"
    BY DEF FreshSession, Session, Blank
  <1> QED
    BY <1>2, LookingKeeps DEF TrySub, NothingMoves, Opening, IInv, TypeOK

(* The step that ends preConsume without a charge: a trusted request, or   *)
(* one that costs nothing.                                                 *)
LEMMA TryWalletKeeps ==
    ASSUME IInv, NEW r \in Requests, TryWallet(r)
    PROVE  IInv'
  <1>0. faults' \in Nat
    BY DEF TryWallet, DbFault, DbOk, IInv, TypeOK
  <1>1. CASE Reject(r) \/ Insufficient(r, "wallet")
    BY <1>0, <1>1, LeavingKeeps DEF TryWallet, Opening
  <1>2. CASE /\ sess' = [sess EXCEPT ![r] =
                 [FreshSession EXCEPT !.src = "wallet", !.trusted = ShouldTrust(r)]]
             /\ Goto(r, IF ShouldTrust(r) \/ prof[r].quota = 0
                        THEN "relay" ELSE "tokenRead")
    <2> DEFINE s == [FreshSession EXCEPT !.src = "wallet", !.trusted = ShouldTrust(r)]
    <2>1. s \in Session /\ Blank(s) /\ s.src = "wallet"
      BY DEF FreshSession, Session, Blank, ShouldTrust
    <2>2. CASE Goto(r, "tokenRead")
      BY <1>0, <1>2, <2>1, <2>2, LookingKeeps DEF TryWallet, Opening
    <2>3. CASE Goto(r, "relay")
      <3>1. Only(r) /\ LedgersOk
        BY <1>0, <1>2, <2>3
        DEF TryWallet, Goto, Only, LedgersOk, NothingMoves, ledgers, IInv, TypeOK, SubWithinTotal
      <3>2. /\ ctl'[r] = [ctl[r] EXCEPT !.pc = "relay"] /\ sess'[r] = s
            /\ paid'[r] = paid[r] /\ lost'[r] = lost[r] /\ record'[r] = record[r]
        BY <1>2, <2>3 DEF TryWallet, Goto, NothingMoves, IInv, TypeOK
      <3>3. ctl'[r] \in Control /\ ctl'[r].bg = ctl[r].bg /\ ctl'[r].pc = "relay"
        BY <3>2, Unpack DEF Control, Labels
      <3>4. RequestOk(prof[r], ctl'[r], sess'[r], paid'[r], lost'[r], record'[r])
        BY <2>1, <3>2, <3>3, Unpack
        DEF TryWallet, RequestOk, OpeningOk, HoldingOk, ClosedOk, GoroutineOk, HoldOk,
            Owes, Share, Taken, Blank, Opening, Holding, Closed,
            Control, Session, Ledgers, Profile, Statuses
      <3> QED
        BY <2>1, <3>1, <3>2, <3>3, <3>4, Unpack, OneRequest
    <2> QED BY <1>2, <2>2, <2>3
  <1> QED
    BY <1>1, <1>2 DEF TryWallet

(* The amount preConsume is called with is a natural number. *)
LEMMA AmountType ==
    ASSUME IInv, NEW r \in Requests
    PROVE  Amount(r) \in Nat
  BY Unpack DEF Amount, SubConsume, Profile

(* Charging the token, or for a playground request only recording it *)
LEMMA ToFund ==
    ASSUME IInv, NEW r \in Requests, ctl[r].pc \in {"tokenRead", "tokenDec"},
           Goto(r, "fund"), sess' = [sess EXCEPT ![r].tok = Amount(r)],
           MoveToken(r, Share(prof[r], Amount(r))),
           UNCHANGED <<record, prof, lost, faults>>
    PROVE  IInv'
  <1>0. Amount(r) \in Nat /\ Share(prof[r], Amount(r)) \in Nat
    BY AmountType DEF Share
  <1>1. Only(r) /\ LedgersOk
    BY <1>0 DEF Only, LedgersOk, MoveToken, Goto, IInv, TypeOK, SubWithinTotal
  <1>2. /\ ctl'[r] = [ctl[r] EXCEPT !.pc = "fund"]
        /\ sess'[r] = [sess[r] EXCEPT !.tok = Amount(r)]
        /\ paid'[r] = [paid[r] EXCEPT !["token"] = @ + Share(prof[r], Amount(r))]
        /\ lost'[r] = lost[r] /\ record'[r] = record[r]
    BY DEF MoveToken, Goto, IInv, TypeOK
  <1>3. /\ ctl'[r] \in Control /\ sess'[r] \in Session
        /\ paid'[r] \in [Ledgers -> Int]
    BY <1>0, <1>2, Unpack DEF Control, Labels, Session, Ledgers
  <1>4. /\ sess'[r].src = sess[r].src /\ sess'[r].pre = sess[r].pre
        /\ sess'[r].tok = IF sess'[r].src = "subscription"
                          THEN SubConsume(prof[r].quota) ELSE prof[r].quota
        /\ ctl'[r].pc = "fund" /\ ctl'[r].bg = ctl[r].bg
    BY <1>0, <1>2, Unpack DEF Control, Session, Amount
  <1>5. RequestOk(prof[r], ctl'[r], sess'[r], paid'[r], lost'[r], record'[r])
    BY <1>0, <1>2, <1>4, Unpack
    DEF RequestOk, OpeningOk, HoldingOk, ClosedOk, GoroutineOk, Owes, Share,
        Opening, Holding, Closed, Control, Session, Ledgers, Profile,
        Statuses
  <1> QED
    BY <1>1, <1>2, <1>3, <1>5, Unpack, OneRequest

(* TokenRead keeps the invariant. *)
LEMMA TokenReadKeeps ==
    ASSUME IInv, NEW r \in Requests, TokenRead(r)
    PROVE  IInv'
  <1>0. faults' \in Nat
    BY DEF TokenRead, DbFault, DbOk, IInv, TypeOK
  <1>1. CASE Reject(r)
    BY <1>0, <1>1, LeavingKeeps DEF TokenRead, Opening
  <1>2. CASE /\ prof[r].playground /\ DbOk
             /\ sess' = [sess EXCEPT ![r].tok = Amount(r)] /\ Goto(r, "fund")
    <2>1. paid' = [paid EXCEPT ![r]["token"] = @ + 0] /\ token' = token - 0
      BY DEF TokenRead, NothingMoves, ledgers, IInv, TypeOK, Ledgers
    <2>2. MoveToken(r, Share(prof[r], Amount(r)))
      BY <1>2, <2>1 DEF TokenRead, NothingMoves, ledgers, MoveToken, Share
    <2> QED
      BY <1>2, <2>2, ToFund DEF TokenRead, DbOk
  <1>3. CASE ~prof[r].playground /\ Goto(r, "tokenDec") /\ UNCHANGED sess
    <2>1. /\ Blank(sess[r]) /\ sess' = [sess EXCEPT ![r] = sess[r]]
          /\ sess[r].src \in {"wallet", "subscription"}
      BY <1>3, Unpack DEF TokenRead, RequestOk, OpeningOk, Opening, Blank, IInv, TypeOK
    <2> QED
      BY <1>0, <1>3, <2>1, Unpack, LookingKeeps DEF TokenRead, Opening
  <1> QED
    BY <1>1, <1>2, <1>3 DEF TokenRead

(* TokenDec keeps the invariant. *)
LEMMA TokenDecKeeps ==
    ASSUME IInv, NEW r \in Requests, TokenDec(r)
    PROVE  IInv'
  <1>1. CASE DbFault /\ Reject(r) /\ NothingMoves
    <2>1. faults' \in Nat
      BY <1>1 DEF DbFault, IInv, TypeOK
    <2> QED
      BY <1>1, <2>1, LeavingKeeps DEF TokenDec, Opening
  <1>2. CASE /\ DbOk /\ MoveToken(r, Amount(r))
             /\ sess' = [sess EXCEPT ![r].tok = Amount(r)] /\ Goto(r, "fund")
    <2>1. Amount(r) = Share(prof[r], Amount(r))
      BY Unpack DEF TokenDec, RequestOk, OpeningOk, Share
    <2> QED
      BY <1>2, <2>1, ToFund DEF TokenDec, DbOk
  <1> QED
    BY <1>1, <1>2 DEF TokenDec

(* The funding source refused or failed: the code is remembered *)
LEMMA FundFailsKeeps ==
    ASSUME IInv, NEW r \in Requests, NEW e \in {"error", "insufficient"},
           ctl[r].pc = "fund", FundingError(r, e),
           NothingMoves, UNCHANGED <<sess, record, prof, lost>>, faults' \in Nat
    PROVE  IInv'
  <1>1. /\ ctl' = [ctl EXCEPT ![r] = ctl'[r]]
        /\ ctl'[r] \in Control /\ ctl'[r].pc = "rollback" /\ ctl'[r].bg = ctl[r].bg
    BY FundingErrorEffect
  <1>2. Only(r) /\ LedgersOk
    BY <1>1 DEF Only, LedgersOk, NothingMoves, ledgers, IInv, TypeOK, SubWithinTotal
  <1>3. /\ sess'[r] = sess[r] /\ paid'[r] = paid[r] /\ lost'[r] = lost[r]
        /\ record'[r] = record[r]
    BY DEF NothingMoves
  <1>4. RequestOk(prof[r], ctl'[r], sess'[r], paid'[r], lost'[r], record'[r])
    BY <1>1, <1>3, Unpack
    DEF RequestOk, OpeningOk, HoldingOk, ClosedOk, GoroutineOk, Owes, Share,
        Opening, Holding, Closed, Control, Session, Ledgers, Profile,
        Statuses
  <1> QED
    BY <1>1, <1>2, <1>3, <1>4, Unpack, OneRequest

(* The effect of charging or returning delta on the funding source *)
LEMMA FundingEffect ==
    ASSUME IInv, NEW r \in Requests, NEW delta \in Int, MoveFunding(r, delta),
           sess[r].src \in {"wallet", "subscription"}, faults' \in Nat
    PROVE  /\ LedgersOk
           /\ paid' = [paid EXCEPT ![r] = paid'[r]]
           /\ paid'[r] \in [Ledgers -> Int]
           /\ paid'[r]["token"] = paid[r]["token"]
           /\ sess[r].src = "wallet" =>
                /\ paid'[r]["wallet"] = paid[r]["wallet"] + delta
                /\ paid'[r]["subscription"] = paid[r]["subscription"]
           /\ sess[r].src = "subscription" =>
                /\ paid'[r]["subscription"] = paid[r]["subscription"] + delta
                /\ paid'[r]["wallet"] = paid[r]["wallet"]
  <1>1. CASE sess[r].src = "wallet" /\ MoveWallet(r, delta)
    <2>1. LedgersOk
      BY <1>1 DEF MoveWallet, LedgersOk, IInv, TypeOK, SubWithinTotal
    <2>2. /\ paid' = [paid EXCEPT ![r] = paid'[r]]
          /\ paid'[r] = [paid[r] EXCEPT !["wallet"] = @ + delta]
      BY <1>1 DEF MoveWallet, IInv, TypeOK
    <2> QED
      BY <1>1, <2>1, <2>2, Unpack DEF Ledgers
  <1>2. CASE sess[r].src = "subscription" /\ MoveSub(r, delta)
    <2>1. LedgersOk
      BY <1>2, QuotaAssumption
      DEF MoveSub, ExceedsTotal, Clamp, LedgersOk, IInv, TypeOK, SubWithinTotal
    <2>2. /\ paid' = [paid EXCEPT ![r] = paid'[r]]
          /\ paid'[r] = [paid[r] EXCEPT !["subscription"] = @ + delta]
      BY <1>2 DEF MoveSub, IInv, TypeOK
    <2> QED
      BY <1>2, <2>1, <2>2, Unpack DEF Ledgers
  <1> QED
    BY <1>1, <1>2 DEF MoveFunding

(* The session records the amount held *)
Held(r, a) == sess' = [sess EXCEPT ![r].pre = a, ![r].consumed = a]

(* preConsume records the hold and nothing else. *)
LEMMA HeldEffect ==
    ASSUME IInv, NEW r \in Requests, NEW a \in Nat, Held(r, a)
    PROVE  /\ sess' = [sess EXCEPT ![r] = sess'[r]]
           /\ sess'[r] \in Session /\ sess'[r].src = sess[r].src
           /\ sess'[r].pre = a /\ sess'[r].consumed = a
           /\ sess'[r].tok = sess[r].tok
           /\ sess'[r].settled = sess[r].settled
           /\ sess'[r].refunded = sess[r].refunded
           /\ sess'[r].fundingSettled = sess[r].fundingSettled
  <1>1. /\ sess'[r] = [sess[r] EXCEPT !.pre = a, !.consumed = a]
        /\ sess' = [sess EXCEPT ![r] = sess'[r]]
    BY DEF Held, IInv, TypeOK
  <1> QED
    BY <1>1, Unpack DEF Session

(* Fund keeps the invariant. *)
LEMMA FundKeeps ==
    ASSUME IInv, NEW r \in Requests, Fund(r)
    PROVE  IInv'
  <1>0. faults' \in Nat
    BY DEF Fund, DbFault, DbOk, IInv, TypeOK
  <1>1. CASE /\ NothingMoves /\ UNCHANGED <<sess, record>>
             /\ \E e \in {"error", "insufficient"} : FundingError(r, e)
    BY <1>0, <1>1, FundFailsKeeps DEF Fund
  <1>2. CASE /\ DbOk /\ MoveFunding(r, Amount(r))
             /\ sess' = [sess EXCEPT ![r].pre = Amount(r), ![r].consumed = Amount(r)]
             /\ record' = IF sess[r].src = "subscription"
                          THEN [record EXCEPT ![r] = "consumed"] ELSE record
             /\ Goto(r, "relay")
    <2>1. Amount(r) \in Nat /\ sess[r].src \in {"wallet", "subscription"}
      BY AmountType, Unpack DEF Fund, RequestOk, OpeningOk
    <2>2. /\ LedgersOk /\ paid' = [paid EXCEPT ![r] = paid'[r]]
          /\ paid'[r] \in [Ledgers -> Int]
          /\ paid'[r]["token"] = paid[r]["token"]
          /\ sess[r].src = "wallet" =>
               /\ paid'[r]["wallet"] = paid[r]["wallet"] + Amount(r)
               /\ paid'[r]["subscription"] = paid[r]["subscription"]
          /\ sess[r].src = "subscription" =>
               /\ paid'[r]["subscription"] = paid[r]["subscription"] + Amount(r)
               /\ paid'[r]["wallet"] = paid[r]["wallet"]
          /\ ctl' = [ctl EXCEPT ![r] = ctl'[r]] /\ ctl'[r] \in Control
          /\ ctl'[r].pc = "relay" /\ ctl'[r].bg = ctl[r].bg
      BY <1>0, <1>2, <2>1, FundingEffect, GotoEffect DEF Labels
    <2>3. /\ lost'[r] = lost[r] /\ record'[r] \in {"consumed", record[r]}
          /\ record' = [record EXCEPT ![r] = record'[r]]
      BY <1>2 DEF Fund, IInv, TypeOK
    <2>4. Held(r, Amount(r))
      BY <1>2 DEF Held
    <2>5. /\ sess' = [sess EXCEPT ![r] = sess'[r]]
          /\ sess'[r] \in Session /\ sess'[r].src = sess[r].src
          /\ sess'[r].pre = Amount(r) /\ sess'[r].consumed = Amount(r)
          /\ sess'[r].tok = sess[r].tok
          /\ sess'[r].settled = sess[r].settled
          /\ sess'[r].refunded = sess[r].refunded
          /\ sess'[r].fundingSettled = sess[r].fundingSettled
      BY <2>1, <2>4, HeldEffect
    <2>6. Only(r) /\ record'[r] \in Statuses
      BY <2>2, <2>3, <2>5, Unpack DEF Fund, Only, Statuses, IInv, TypeOK
    <2>7. sess[r].tok = Amount(r)
      BY Unpack DEF Fund, RequestOk, OpeningOk, Amount
    <2>8. RequestOk(prof[r], ctl'[r], sess'[r], paid'[r], lost'[r], record'[r])
      BY <2>1, <2>2, <2>3, <2>5, <2>7, Unpack
      DEF Fund, RequestOk, OpeningOk, HoldingOk, ClosedOk, GoroutineOk, HoldOk,
          Owes, Share, Taken, Opening, Holding, Closed, Control,
          Session, Ledgers, Profile, Statuses
    <2> QED
      BY <2>2, <2>3, <2>5, <2>6, <2>8, Unpack, OneRequest
  <1> QED
    BY <1>1, <1>2 DEF Fund

(* Rollback keeps the invariant. *)
LEMMA RollbackKeeps ==
    ASSUME IInv, NEW r \in Requests, Rollback(r)
    PROVE  IInv'
  <1>0. faults' \in Nat
    BY DEF Rollback, DbFault, DbOk, IInv, TypeOK
  <1>1. Reject(r) \/ \E src : Insufficient(r, src)
    BY DEF Rollback
  <1>2. CASE /\ sess[r].tok > 0 /\ ~prof[r].playground /\ DbOk
             /\ MoveToken(r, -sess[r].tok) /\ UNCHANGED lost
    <2>1. Only(r) /\ LedgersOk
      BY <1>0, <1>1, <1>2, Leaving, Unpack
      DEF Rollback, Only, LedgersOk, MoveToken, Session, IInv, TypeOK, SubWithinTotal
    <2>2. /\ paid'[r] = [paid[r] EXCEPT !["token"] = @ + (-sess[r].tok)]
          /\ lost'[r] = lost[r] /\ record'[r] = record[r]
      BY <1>2 DEF Rollback, MoveToken, IInv, TypeOK
    <2>3. /\ paid'[r] \in [Ledgers -> Int]
          /\ paid'[r]["wallet"] = 0 /\ paid'[r]["subscription"] = 0
          /\ Owes(lost'[r], paid'[r]["token"], 0)
      BY <1>2, <2>2, Unpack
      DEF Rollback, RequestOk, OpeningOk, Owes, Share, Ledgers, Session
    <2> QED
      BY <1>1, <2>1, <2>2, <2>3, Leaving, Unpack, FreshIsBlank, ToOpening
      DEF Rollback, Restarts, Opening
  <1>3. CASE /\ NothingMoves
             /\ \/ lost' = [lost EXCEPT ![r] = TRUE]
                \/ (sess[r].tok = 0 \/ prof[r].playground) /\ UNCHANGED lost
    <2>1. Only(r) /\ LedgersOk
      BY <1>0, <1>1, <1>3, Leaving
      DEF Rollback, Only, LedgersOk, NothingMoves, ledgers, IInv, TypeOK, SubWithinTotal
    <2>2. /\ paid'[r] = paid[r] /\ record'[r] = record[r] /\ lost'[r] \in BOOLEAN
          /\ lost'[r] \/ ((sess[r].tok = 0 \/ prof[r].playground) /\ lost'[r] = lost[r])
      BY <1>3, Unpack DEF Rollback, NothingMoves, IInv, TypeOK
    <2>3. /\ paid'[r]["wallet"] = 0 /\ paid'[r]["subscription"] = 0
          /\ Owes(lost'[r], paid'[r]["token"], 0)
      BY <2>2, Unpack
      DEF Rollback, RequestOk, OpeningOk, Owes, Share, Ledgers, Session
    <2> QED
      BY <1>1, <2>1, <2>2, <2>3, Leaving, Unpack, FreshIsBlank, ToOpening
      DEF Rollback, Restarts, Opening
  <1> QED
    BY <1>2, <1>3 DEF Rollback


-----------------------------------------------------------------------------
(* Steps while the request is relayed.                                     *)

(* The control state of a request that holds quota moves, nothing else *)
LEMMA StayHolding ==
    ASSUME IInv, NEW r \in Requests, ctl[r].pc = "relay",
           ctl' = [ctl EXCEPT ![r] = ctl'[r]], ctl'[r] \in Control,
           ctl'[r].bg = ctl[r].bg, ctl'[r].pc \in Holding,
           UNCHANGED <<ledgers, record, prof, sess, paid, lost, faults>>
    PROVE  IInv'
  <1>1. Only(r) /\ LedgersOk
    BY DEF Only, LedgersOk, ledgers, IInv, TypeOK, SubWithinTotal
  <1>2. /\ sess'[r] = sess[r] /\ paid'[r] = paid[r] /\ lost'[r] = lost[r]
        /\ record'[r] = record[r]
    OBVIOUS
  <1>3. RequestOk(prof[r], ctl'[r], sess'[r], paid'[r], lost'[r], record'[r])
    BY <1>2, Unpack
    DEF RequestOk, OpeningOk, HoldingOk, ClosedOk, GoroutineOk, HoldOk, Owes,
        Share, Taken, Opening, Holding, Closed, Control, Session,
        Ledgers, Profile, Statuses
  <1> QED
    BY <1>1, <1>2, <1>3, Unpack, OneRequest

(* RelayRetry keeps the invariant. *)
LEMMA RelayRetryKeeps ==
    ASSUME IInv, NEW r \in Requests, RelayRetry(r)
    PROVE  IInv'
  <1>1. /\ ctl'[r] = [ctl[r] EXCEPT !.attempt = @ + 1]
        /\ ctl' = [ctl EXCEPT ![r] = ctl'[r]]
    BY DEF RelayRetry, IInv, TypeOK
  <1>2. ctl'[r] \in Control /\ ctl'[r].pc = "relay" /\ ctl'[r].bg = ctl[r].bg
    BY <1>1, Unpack DEF RelayRetry, Control
  <1> QED
    BY <1>1, <1>2, StayHolding DEF RelayRetry, Holding

(* RelaySuccess keeps the invariant. *)
LEMMA RelaySuccessKeeps ==
    ASSUME IInv, NEW r \in Requests, RelaySuccess(r)
    PROVE  IInv'
  <1>1. PICK a \in Actuals : Call(r, "settle", a)
    BY DEF RelaySuccess
  <1>2. a \in Nat /\ "settle" \in Labels
    BY QuotaAssumption DEF Labels
  <1>3. /\ ctl' = [ctl EXCEPT ![r] = ctl'[r]] /\ ctl'[r] \in Control
        /\ ctl'[r].pc = "settle" /\ ctl'[r].bg = ctl[r].bg
    BY <1>1, <1>2, CallEffect
  <1> QED
    BY <1>3, StayHolding DEF RelaySuccess, Holding

(* RelayFail keeps the invariant. *)
LEMMA RelayFailKeeps ==
    ASSUME IInv, NEW r \in Requests, RelayFail(r)
    PROVE  IInv'
  <1>1. PICK a \in {0, Fee} : Call(r, "refund", a)
    BY DEF RelayFail
  <1>2. a \in Nat /\ "refund" \in Labels
    BY QuotaAssumption DEF Labels
  <1>3. /\ ctl' = [ctl EXCEPT ![r] = ctl'[r]] /\ ctl'[r] \in Control
        /\ ctl'[r].pc = "refund" /\ ctl'[r].bg = ctl[r].bg
    BY <1>1, <1>2, CallEffect
  <1> QED
    BY <1>3, StayHolding DEF RelayFail, Holding

(* RelayPanics keeps the invariant. *)
LEMMA RelayPanicsKeeps ==
    ASSUME IInv, NEW r \in Requests, RelayPanics(r)
    PROVE  IInv'
  <1>1. /\ ctl' = [ctl EXCEPT ![r] = ctl'[r]] /\ ctl'[r] \in Control
        /\ ctl'[r].pc = "panicked" /\ ctl'[r].bg = ctl[r].bg
    BY GotoEffect DEF RelayPanics, Labels
  <1> QED
    BY <1>1, StayHolding DEF RelayPanics, Holding

(* The effect of charging amount to the token *)
LEMMA TokenEffect ==
    ASSUME IInv, NEW r \in Requests, NEW amount \in Int, MoveToken(r, amount),
           faults' \in Nat
    PROVE  /\ LedgersOk
           /\ paid' = [paid EXCEPT ![r] = paid'[r]]
           /\ paid'[r] \in [Ledgers -> Int]
           /\ paid'[r]["token"] = paid[r]["token"] + amount
           /\ paid'[r]["wallet"] = paid[r]["wallet"]
           /\ paid'[r]["subscription"] = paid[r]["subscription"]
  <1>1. LedgersOk
    BY DEF MoveToken, LedgersOk, IInv, TypeOK, SubWithinTotal
  <1>2. /\ paid' = [paid EXCEPT ![r] = paid'[r]]
        /\ paid'[r] = [paid[r] EXCEPT !["token"] = @ + amount]
    BY DEF MoveToken, IInv, TypeOK
  <1> QED
    BY <1>1, <1>2, Unpack DEF Ledgers

(* A step that moves no quota keeps the ledgers in their types. *)
LEMMA NothingEffect ==
    ASSUME IInv, NEW r \in Requests, NothingMoves, faults' \in Nat
    PROVE  /\ LedgersOk /\ paid' = [paid EXCEPT ![r] = paid'[r]]
           /\ paid'[r] = paid[r] /\ paid'[r] \in [Ledgers -> Int]
  BY Unpack DEF NothingMoves, ledgers, LedgersOk, IInv, TypeOK, SubWithinTotal

(* A lost write is remembered for good. *)
LEMMA LostEffect ==
    ASSUME IInv, NEW r \in Requests, lost' = [lost EXCEPT ![r] = TRUE] \/ UNCHANGED lost
    PROVE  /\ lost' = [lost EXCEPT ![r] = lost'[r]] /\ lost'[r] \in BOOLEAN
           /\ lost[r] => lost'[r]
           /\ lost' = [lost EXCEPT ![r] = TRUE] => lost'[r]
  BY DEF IInv, TypeOK

-----------------------------------------------------------------------------
(* Settle, Refund and the violation fee.                                   *)

(* Settle's marks on the session *)
Marked(r, b) == sess' = [sess EXCEPT ![r].fundingSettled = TRUE, ![r].settled = b]

(* Settle marks the session and leaves its amounts alone. *)
LEMMA MarkedEffect ==
    ASSUME IInv, NEW r \in Requests, NEW b \in BOOLEAN, Marked(r, b)
    PROVE  /\ sess' = [sess EXCEPT ![r] = sess'[r]]
           /\ sess'[r] \in Session /\ sess'[r].src = sess[r].src
           /\ sess'[r].pre = sess[r].pre /\ sess'[r].tok = sess[r].tok
           /\ sess'[r].fundingSettled = TRUE /\ sess'[r].settled = b
           /\ sess'[r].refunded = sess[r].refunded
  <1>1. sess[r] \in Session
    BY Unpack
  <1>2. /\ sess'[r] = [sess[r] EXCEPT !.fundingSettled = TRUE, !.settled = b]
        /\ sess' = [sess EXCEPT ![r] = sess'[r]]
    BY DEF Marked, IInv, TypeOK
  <1>3. sess'[r] \in Session
    BY <1>1, <1>2 DEF Session
  <1>4. /\ sess'[r].src = sess[r].src /\ sess'[r].pre = sess[r].pre
        /\ sess'[r].tok = sess[r].tok
    BY <1>1, <1>2 DEF Session
  <1>5. /\ sess'[r].fundingSettled = TRUE /\ sess'[r].settled = b
        /\ sess'[r].refunded = sess[r].refunded
    BY <1>1, <1>2 DEF Session
  <1> QED
    BY <1>2, <1>3, <1>4, <1>5

SettledMark(r) == sess' = [sess EXCEPT ![r].settled = TRUE]

(* Settle sets settled and leaves the amounts alone. *)
LEMMA SettledMarkEffect ==
    ASSUME IInv, NEW r \in Requests, SettledMark(r)
    PROVE  /\ sess' = [sess EXCEPT ![r] = sess'[r]]
           /\ sess'[r] \in Session /\ sess'[r].src = sess[r].src
           /\ sess'[r].pre = sess[r].pre /\ sess'[r].tok = sess[r].tok
           /\ sess'[r].settled = TRUE /\ sess'[r].refunded = sess[r].refunded
  <1>1. sess[r] \in Session
    BY Unpack
  <1>2. /\ sess'[r] = [sess[r] EXCEPT !.settled = TRUE]
        /\ sess' = [sess EXCEPT ![r] = sess'[r]]
    BY DEF SettledMark, IInv, TypeOK
  <1> QED
    BY <1>1, <1>2 DEF Session

(* Settle keeps the invariant. *)
LEMMA SettleKeeps ==
    ASSUME IInv, NEW r \in Requests, Settle(r)
    PROVE  IInv'
  <1>0. faults' \in Nat
    BY DEF Settle, FundingFails, DbFault, DbOk, IInv, TypeOK
  <1>1. /\ SettleDelta(r) \in Int /\ SettleDelta(r) = ctl[r].arg - sess[r].pre
        /\ sess[r].src \in {"wallet", "subscription"} /\ ~sess[r].settled
    BY Unpack DEF Settle, SettleDelta, RequestOk, HoldingOk, Holding, Control, Session
  <1>2. ctl[r].pc = "settle"
    BY DEF Settle
  <1>3. CASE SettleDelta(r) = 0 /\ SettledMark(r) /\ Goto(r, "done") /\ NothingMoves
    <2>1. /\ ctl' = [ctl EXCEPT ![r] = ctl'[r]] /\ ctl'[r] \in Control
          /\ ctl'[r].pc = "done" /\ ctl'[r].bg = ctl[r].bg /\ ctl'[r].arg = ctl[r].arg
      BY <1>3, GotoEffect DEF Labels
    <2>2. /\ LedgersOk /\ paid' = [paid EXCEPT ![r] = paid'[r]] /\ paid'[r] = paid[r]
          /\ paid'[r] \in [Ledgers -> Int]
      BY <1>0, <1>3, NothingEffect
    <2>3. /\ sess' = [sess EXCEPT ![r] = sess'[r]]
          /\ sess'[r] \in Session /\ sess'[r].src = sess[r].src
          /\ sess'[r].pre = sess[r].pre /\ sess'[r].tok = sess[r].tok
          /\ sess'[r].settled = TRUE /\ sess'[r].refunded = sess[r].refunded
      BY <1>3, SettledMarkEffect
    <2>4. Only(r) /\ lost'[r] = lost[r] /\ record'[r] = record[r]
      BY <2>1, <2>2, <2>3 DEF Settle, Only, IInv, TypeOK
    <2>0. ctl[r].arg = sess[r].pre
      BY <1>1, <1>3, Unpack DEF Control, Session
    <2>5. RequestOk(prof[r], ctl'[r], sess'[r], paid'[r], lost'[r], record'[r])
      BY <1>2, <2>0, <2>1, <2>2, <2>3, <2>4, Unpack
      DEF RequestOk, OpeningOk, HoldingOk, ClosedOk, GoroutineOk,
          HoldOk, Owes, Share, Taken, Opening, Holding, Closed, Control,
          Session, Ledgers, Profile, Statuses
    <2> QED
      BY <2>1, <2>2, <2>3, <2>4, <2>5, Unpack, OneRequest
  <1>4. CASE NothingMoves /\ Goto(r, "unsettled") /\ UNCHANGED sess
    <2>1. /\ ctl' = [ctl EXCEPT ![r] = ctl'[r]] /\ ctl'[r] \in Control
          /\ ctl'[r].pc = "unsettled" /\ ctl'[r].bg = ctl[r].bg /\ ctl'[r].arg = ctl[r].arg
      BY <1>4, GotoEffect DEF Labels
    <2>2. /\ LedgersOk /\ paid' = [paid EXCEPT ![r] = paid'[r]] /\ paid'[r] = paid[r]
          /\ paid'[r] \in [Ledgers -> Int]
      BY <1>0, <1>4, NothingEffect
    <2>3. Only(r) /\ sess'[r] = sess[r] /\ lost'[r] = lost[r] /\ record'[r] = record[r]
      BY <1>4, <2>1, <2>2 DEF Settle, Only, IInv, TypeOK
    <2>4. RequestOk(prof[r], ctl'[r], sess'[r], paid'[r], lost'[r], record'[r])
      BY <1>1, <1>2, <2>1, <2>2, <2>3, Unpack
      DEF RequestOk, OpeningOk, HoldingOk, ClosedOk, GoroutineOk,
          HoldOk, Owes, Share, Taken, Opening, Holding, Closed, Control,
          Session, Ledgers, Profile, Statuses
    <2> QED
      BY <2>1, <2>2, <2>3, <2>4, Unpack, OneRequest
  <1>5. ASSUME MoveFunding(r, SettleDelta(r)), Marked(r, prof[r].playground),
               NEW p \in {"done", "settleToken"}, Goto(r, p),
               p = "settleToken" <=> ~prof[r].playground
        PROVE  IInv'
    <2>1. /\ ctl' = [ctl EXCEPT ![r] = ctl'[r]] /\ ctl'[r] \in Control
          /\ ctl'[r].pc = p /\ ctl'[r].bg = ctl[r].bg /\ ctl'[r].arg = ctl[r].arg
      BY <1>5, GotoEffect DEF Labels
    <2>2. /\ LedgersOk /\ paid' = [paid EXCEPT ![r] = paid'[r]]
          /\ paid'[r] \in [Ledgers -> Int] /\ paid'[r]["token"] = paid[r]["token"]
          /\ sess[r].src = "wallet" =>
               /\ paid'[r]["wallet"] = paid[r]["wallet"] + SettleDelta(r)
               /\ paid'[r]["subscription"] = paid[r]["subscription"]
          /\ sess[r].src = "subscription" =>
               /\ paid'[r]["subscription"] = paid[r]["subscription"] + SettleDelta(r)
               /\ paid'[r]["wallet"] = paid[r]["wallet"]
      BY <1>0, <1>1, <1>5, FundingEffect
    <2>3. prof[r].playground \in BOOLEAN
      BY Unpack DEF Profile
    <2>4. /\ sess' = [sess EXCEPT ![r] = sess'[r]]
          /\ sess'[r] \in Session /\ sess'[r].src = sess[r].src
          /\ sess'[r].pre = sess[r].pre /\ sess'[r].tok = sess[r].tok
          /\ sess'[r].fundingSettled = TRUE /\ sess'[r].settled = prof[r].playground
          /\ sess'[r].refunded = sess[r].refunded
      BY <1>5, <2>3, MarkedEffect
    <2>5. Only(r) /\ lost'[r] = lost[r] /\ record'[r] = record[r]
      BY <2>1, <2>2, <2>4 DEF Settle, Only, IInv, TypeOK
    <2>6. RequestOk(prof[r], ctl'[r], sess'[r], paid'[r], lost'[r], record'[r])
      <3>0. p = "settleToken" <=> ~prof[r].playground
        BY <1>5
      <3>1. CASE p = "done"
        BY <1>1, <1>2, <2>1, <2>2, <2>3, <2>4, <2>5, <3>0, <3>1, Unpack
        DEF RequestOk, OpeningOk, HoldingOk, ClosedOk, GoroutineOk,
            HoldOk, Owes, Share, Taken, Opening, Holding, Closed, Control,
            Session, Ledgers, Profile, Statuses
      <3>2. CASE p = "settleToken"
        <4>1. ~prof[r].playground /\ sess'[r].settled = FALSE
          BY <2>3, <2>4, <3>0, <3>2
        <4>2. /\ sess'[r].src = sess[r].src /\ sess'[r].pre = sess[r].pre
              /\ sess'[r].tok = sess[r].tok /\ sess'[r].fundingSettled = TRUE
              /\ sess'[r].refunded = sess[r].refunded /\ sess'[r] \in Session
          BY <2>4
        <4>3. /\ ctl'[r].pc = "settleToken" /\ ctl'[r].bg = "none"
              /\ ctl'[r].arg = ctl[r].arg /\ sess[r].refunded = FALSE
          BY <1>2, <2>1, <3>2, Unpack DEF RequestOk, HoldingOk, Holding, Session
        <4>4. Owes(lost'[r], Taken(sess'[r], paid'[r]), ctl'[r].arg)
          BY <1>1, <1>2, <2>2, <2>5, <4>2, <4>3, Unpack
          DEF RequestOk, HoldingOk, HoldOk, Owes, Taken, Holding, Control, Session, Ledgers
        <4> QED
          BY <1>1, <1>2, <2>2, <2>5, <4>1, <4>2, <4>3, <4>4, Unpack
          DEF RequestOk, OpeningOk, HoldingOk, ClosedOk, GoroutineOk,
              Owes, Share, Taken, Opening, Holding, Closed, Control,
              Session, Ledgers, Profile, Statuses
      <3> QED BY <3>1, <3>2
    <2> QED
      BY <2>1, <2>2, <2>4, <2>5, <2>6, Unpack, OneRequest
  <1> QED
    BY <1>1, <1>3, <1>4, <1>5 DEF Settle, SettledMark, Marked

(* SettleToken keeps the invariant. *)
LEMMA SettleTokenKeeps ==
    ASSUME IInv, NEW r \in Requests, SettleToken(r)
    PROVE  IInv'
  <1>0. faults' \in Nat
    BY DEF SettleToken, DbFault, DbOk, IInv, TypeOK
  <1>1. /\ SettleDelta(r) \in Int /\ SettleDelta(r) = ctl[r].arg - sess[r].pre
        /\ ctl[r].pc = "settleToken"
    BY Unpack DEF SettleToken, SettleDelta, Control, Session
  <1>2. /\ ctl' = [ctl EXCEPT ![r] = ctl'[r]] /\ ctl'[r] \in Control
        /\ ctl'[r].pc = "done" /\ ctl'[r].bg = ctl[r].bg /\ ctl'[r].arg = ctl[r].arg
    BY GotoEffect DEF SettleToken, Labels
  <1>3. /\ sess' = [sess EXCEPT ![r] = sess'[r]]
        /\ sess'[r] \in Session /\ sess'[r].src = sess[r].src
        /\ sess'[r].pre = sess[r].pre /\ sess'[r].tok = sess[r].tok
        /\ sess'[r].settled = TRUE /\ sess'[r].refunded = sess[r].refunded
    BY SettledMarkEffect DEF SettleToken, SettledMark
  <1>4. CASE MoveToken(r, SettleDelta(r)) /\ UNCHANGED lost
    <2>1. /\ LedgersOk /\ paid' = [paid EXCEPT ![r] = paid'[r]]
          /\ paid'[r] \in [Ledgers -> Int]
          /\ paid'[r]["token"] = paid[r]["token"] + SettleDelta(r)
          /\ paid'[r]["wallet"] = paid[r]["wallet"]
          /\ paid'[r]["subscription"] = paid[r]["subscription"]
      BY <1>0, <1>1, <1>4, TokenEffect
    <2>2. Only(r) /\ lost'[r] = lost[r] /\ record'[r] = record[r]
      BY <1>2, <1>3, <1>4, <2>1 DEF SettleToken, Only, IInv, TypeOK
    <2>3. RequestOk(prof[r], ctl'[r], sess'[r], paid'[r], lost'[r], record'[r])
      BY <1>1, <1>2, <1>3, <2>1, <2>2, Unpack
      DEF RequestOk, OpeningOk, HoldingOk, ClosedOk, GoroutineOk,
          HoldOk, Owes, Share, Taken, Opening, Holding, Closed, Control,
          Session, Ledgers, Profile, Statuses
    <2> QED
      BY <1>2, <1>3, <2>1, <2>2, <2>3, Unpack, OneRequest
  <1>5. CASE NothingMoves /\ lost' = [lost EXCEPT ![r] = TRUE]
    <2>1. /\ LedgersOk /\ paid' = [paid EXCEPT ![r] = paid'[r]] /\ paid'[r] = paid[r]
          /\ paid'[r] \in [Ledgers -> Int]
      BY <1>0, <1>5, NothingEffect
    <2>2. /\ lost' = [lost EXCEPT ![r] = lost'[r]] /\ lost'[r] \in BOOLEAN /\ lost'[r]
      BY <1>5, LostEffect
    <2>3. Only(r) /\ record'[r] = record[r]
      BY <1>2, <1>3, <2>1, <2>2 DEF SettleToken, Only, IInv, TypeOK
    <2>4. RequestOk(prof[r], ctl'[r], sess'[r], paid'[r], lost'[r], record'[r])
      BY <1>1, <1>2, <1>3, <2>1, <2>2, <2>3, Unpack
      DEF RequestOk, OpeningOk, HoldingOk, ClosedOk, GoroutineOk,
          HoldOk, Owes, Share, Taken, Opening, Holding, Closed, Control,
          Session, Ledgers, Profile, Statuses
    <2> QED
      BY <1>2, <1>3, <2>1, <2>2, <2>3, <2>4, Unpack, OneRequest
  <1> QED
    BY <1>4, <1>5 DEF SettleToken

RefundMark(r) == sess' = [sess EXCEPT ![r].refunded = TRUE]

(* Refund sets refunded and leaves the amounts alone. *)
LEMMA RefundMarkEffect ==
    ASSUME IInv, NEW r \in Requests, RefundMark(r)
    PROVE  /\ sess' = [sess EXCEPT ![r] = sess'[r]]
           /\ sess'[r] \in Session /\ sess'[r].src = sess[r].src
           /\ sess'[r].pre = sess[r].pre /\ sess'[r].tok = sess[r].tok
           /\ sess'[r].consumed = sess[r].consumed
           /\ sess'[r].settled = sess[r].settled /\ sess'[r].refunded = TRUE
  <1>1. sess[r] \in Session
    BY Unpack
  <1>2. /\ sess'[r] = [sess[r] EXCEPT !.refunded = TRUE]
        /\ sess' = [sess EXCEPT ![r] = sess'[r]]
    BY DEF RefundMark, IInv, TypeOK
  <1> QED
    BY <1>1, <1>2 DEF Session

(* Refund starts the goroutine at its first step. *)
LEMMA StartGoroutineEffect ==
    ASSUME IInv, NEW r \in Requests, NEW p \in Labels, StartGoroutine(r, p)
    PROVE  /\ ctl' = [ctl EXCEPT ![r] = ctl'[r]]
           /\ ctl'[r] \in Control /\ ctl'[r].pc = p /\ ctl'[r].bg = "fund"
  <1>1. /\ ctl'[r] = [ctl[r] EXCEPT !.pc = p, !.bg = "fund"]
        /\ ctl' = [ctl EXCEPT ![r] = ctl'[r]]
    BY DEF StartGoroutine, IInv, TypeOK
  <1> QED
    BY <1>1, Unpack DEF Control

(* Refund keeps the invariant. *)
LEMMA RefundKeeps ==
    ASSUME IInv, NEW r \in Requests, Refund(r)
    PROVE  IInv'
  <1>1. ctl[r].pc = "refund" /\ AfterRefund(r) \in {"fee", "done"}
        /\ AfterRefund(r) \in Labels
    BY DEF Refund, AfterRefund, Labels
  <1>2. LedgersOk /\ paid'[r] = paid[r] /\ lost'[r] = lost[r] /\ record'[r] = record[r]
    BY DEF Refund, LedgersOk, ledgers, IInv, TypeOK, SubWithinTotal
  <1>3. CASE RefundMark(r) /\ StartGoroutine(r, AfterRefund(r))
    <2>1. /\ ctl' = [ctl EXCEPT ![r] = ctl'[r]] /\ ctl'[r] \in Control
          /\ ctl'[r].pc \in {"fee", "done"} /\ ctl'[r].bg = "fund"
      BY <1>1, <1>3, StartGoroutineEffect
    <2>2. /\ sess' = [sess EXCEPT ![r] = sess'[r]]
          /\ sess'[r] \in Session /\ sess'[r].src = sess[r].src
          /\ sess'[r].pre = sess[r].pre /\ sess'[r].tok = sess[r].tok
          /\ sess'[r].consumed = sess[r].consumed
          /\ sess'[r].settled = sess[r].settled /\ sess'[r].refunded = TRUE
      BY <1>3, RefundMarkEffect
    <2>3. Only(r)
      BY <2>1, <2>2 DEF Refund, Only, IInv, TypeOK
    <2>4. RequestOk(prof[r], ctl'[r], sess'[r], paid'[r], lost'[r], record'[r])
      BY <1>1, <1>2, <2>1, <2>2, Unpack
      DEF RequestOk, OpeningOk, HoldingOk, ClosedOk, GoroutineOk,
          HoldOk, Owes, Share, Taken, Opening, Holding, Closed, Control,
          Session, Ledgers, Profile, Statuses
    <2> QED
      BY <1>2, <2>1, <2>2, <2>3, <2>4, Unpack, OneRequest
  <1>4. CASE ~NeedsRefund(r) /\ UNCHANGED sess /\ Goto(r, AfterRefund(r))
    <2>0. sess[r].tok = 0 /\ sess[r].consumed = 0
      BY <1>1, <1>4, Unpack DEF NeedsRefund, RequestOk, HoldingOk, HoldOk, Holding, Session
    <2>1. /\ ctl' = [ctl EXCEPT ![r] = ctl'[r]] /\ ctl'[r] \in Control
          /\ ctl'[r].pc \in {"fee", "done"} /\ ctl'[r].bg = ctl[r].bg
      BY <1>1, <1>4, GotoEffect
    <2>2. Only(r) /\ sess'[r] = sess[r]
      BY <1>4, <2>1 DEF Refund, Only, IInv, TypeOK
    <2>3. RequestOk(prof[r], ctl'[r], sess'[r], paid'[r], lost'[r], record'[r])
      BY <1>1, <1>2, <2>0, <2>1, <2>2, Unpack
      DEF RequestOk, OpeningOk, HoldingOk, ClosedOk, GoroutineOk,
          HoldOk, Owes, Share, Taken, Opening, Holding, Closed, Control,
          Session, Ledgers, Profile, Statuses
    <2> QED
      BY <1>2, <2>1, <2>2, <2>3, Unpack, OneRequest
  <1> QED
    BY <1>3, <1>4 DEF Refund, RefundMark

(* The violation fee touches the ledgers and the label only *)
LEMMA FeeKeeps ==
    ASSUME IInv, NEW r \in Requests, NEW p \in {"feeToken", "done"},
           ctl[r].pc \in {"fee", "feeToken"}, Goto(r, p), LedgersOk,
           UNCHANGED <<record, prof, sess, paid, lost>>
    PROVE  IInv'
  <1>1. /\ ctl' = [ctl EXCEPT ![r] = ctl'[r]] /\ ctl'[r] \in Control
        /\ ctl'[r].pc = p /\ ctl'[r].bg = ctl[r].bg
    BY GotoEffect DEF Labels
  <1>2. /\ Only(r) /\ sess'[r] = sess[r] /\ paid'[r] = paid[r]
        /\ lost'[r] = lost[r] /\ record'[r] = record[r]
    BY <1>1 DEF Only, IInv, TypeOK
  <1>3. RequestOk(prof[r], ctl'[r], sess'[r], paid'[r], lost'[r], record'[r])
    BY <1>1, <1>2, Unpack
    DEF RequestOk, OpeningOk, HoldingOk, ClosedOk, GoroutineOk, Owes, Share, Taken,
        Opening, Holding, Closed, Control, Session, Ledgers, Profile, Statuses
  <1> QED
    BY <1>1, <1>2, <1>3, Unpack, OneRequest

(* ChargeFee keeps the invariant. *)
LEMMA ChargeFeeKeeps ==
    ASSUME IInv, NEW r \in Requests, ChargeFee(r)
    PROVE  IInv'
  <1>1. \E p \in {"feeToken", "done"} : Goto(r, p)
    BY DEF ChargeFee
  <1>2. faults' \in Nat
    BY DEF ChargeFee, FundingFails, DbFault, DbOk, IInv, TypeOK
  <1>3. ctl[r].arg \in Nat
    BY Unpack DEF Control
  <1>4. LedgersOk
    BY <1>2, <1>3, QuotaAssumption
    DEF ChargeFee, ExceedsTotal, Clamp, LedgersOk, ledgers, IInv, TypeOK, SubWithinTotal
  <1> QED
    BY <1>1, <1>4, FeeKeeps DEF ChargeFee

(* ChargeFeeToken keeps the invariant. *)
LEMMA ChargeFeeTokenKeeps ==
    ASSUME IInv, NEW r \in Requests, ChargeFeeToken(r)
    PROVE  IInv'
  <1>1. faults' \in Nat
    BY DEF ChargeFeeToken, DbFault, DbOk, IInv, TypeOK
  <1>2. ctl[r].arg \in Nat
    BY Unpack DEF Control
  <1>3. LedgersOk
    BY <1>1, <1>2 DEF ChargeFeeToken, LedgersOk, IInv, TypeOK, SubWithinTotal
  <1> QED
    BY <1>3, FeeKeeps DEF ChargeFeeToken

-----------------------------------------------------------------------------
(* The refund goroutine.                                                   *)

(* A step of the goroutine, given what it does to one request *)
LEMMA GoroutineStep ==
    ASSUME IInv, NEW r \in Requests, ctl[r].bg # "none",
           ctl' = [ctl EXCEPT ![r] = ctl'[r]], ctl'[r] \in Control,
           ctl'[r].pc = ctl[r].pc, ctl'[r].bg # "none",
           LedgersOk, paid' = [paid EXCEPT ![r] = paid'[r]],
           paid'[r] \in [Ledgers -> Int],
           lost' = [lost EXCEPT ![r] = lost'[r]], lost'[r] \in BOOLEAN,
           record' = [record EXCEPT ![r] = record'[r]], record'[r] \in Statuses,
           UNCHANGED <<prof, sess>>,
           paid'[r]["wallet"] >= 0, paid'[r]["token"] >= 0,
           sess[r].src # "wallet" => paid'[r]["wallet"] = 0,
           sess[r].src # "subscription" => paid'[r]["subscription"] = 0,
           GoroutineOk(prof[r], ctl'[r], sess[r], paid'[r], lost'[r], record'[r])
    PROVE  IInv'
  <1>1. Only(r) /\ sess'[r] = sess[r]
    BY DEF Only, IInv, TypeOK
  <1>2. RequestOk(prof[r], ctl'[r], sess'[r], paid'[r], lost'[r], record'[r])
    <2>1. ctl'[r].bg \in {"fund", "commit", "token", "end"} /\ sess[r].consumed \in Nat
      BY Unpack DEF Control, Session
    <2>2. lost'[r] \/ paid'[r]["subscription"] >= 0
      BY <2>1 DEF GoroutineOk
    <2> QED
      BY <1>1, <2>2, Unpack
      DEF RequestOk, OpeningOk, HoldingOk, ClosedOk, Opening, Holding, Closed,
          Control, Session
  <1> QED
    BY <1>1, <1>2, Unpack, OneRequest

(* RefundWallet keeps the invariant. *)
LEMMA RefundWalletKeeps ==
    ASSUME IInv, NEW r \in Requests, RefundWallet(r)
    PROVE  IInv'
  <1>0. faults' \in Nat
    BY DEF RefundWallet, DbFault, DbOk, IInv, TypeOK
  <1>1. /\ ctl' = [ctl EXCEPT ![r] = ctl'[r]] /\ ctl'[r] \in Control
        /\ ctl'[r].pc = ctl[r].pc /\ ctl'[r].bg = "token"
    BY BgGotoEffect DEF RefundWallet
  <1>2. /\ ctl[r].bg = "fund" /\ sess[r].src = "wallet" /\ sess[r].consumed \in Nat
        /\ paid[r]["wallet"] = sess[r].consumed /\ paid[r]["subscription"] = 0
        /\ record[r] # "refunded" /\ UNCHANGED <<prof, sess>>
    BY Unpack DEF RefundWallet, RequestOk, GoroutineOk, Session, Statuses
  <1>3. record' = [record EXCEPT ![r] = record'[r]] /\ record'[r] = record[r]
    BY DEF RefundWallet, IInv, TypeOK
  <1>4. CASE MoveWallet(r, -sess[r].consumed) /\ UNCHANGED lost
    <2>1. -sess[r].consumed \in Int /\ MoveFunding(r, -sess[r].consumed)
      BY <1>2, <1>4 DEF MoveFunding
    <2>2. /\ LedgersOk /\ paid' = [paid EXCEPT ![r] = paid'[r]]
          /\ paid'[r] \in [Ledgers -> Int] /\ paid'[r]["token"] = paid[r]["token"]
          /\ paid'[r]["wallet"] = paid[r]["wallet"] + (-sess[r].consumed)
          /\ paid'[r]["subscription"] = paid[r]["subscription"]
      BY <1>0, <1>2, <2>1, FundingEffect
    <2>3. /\ paid'[r]["wallet"] = 0 /\ paid'[r]["subscription"] = 0
          /\ paid'[r]["token"] >= 0
      BY <1>2, <2>2, Unpack DEF RequestOk
    <2>4. lost' = [lost EXCEPT ![r] = lost'[r]] /\ lost'[r] = lost[r]
      BY <1>4 DEF IInv, TypeOK
    <2>5. GoroutineOk(prof[r], ctl'[r], sess[r], paid'[r], lost'[r], record'[r])
      BY <1>1, <1>2, <1>3, <2>2, <2>3, <2>4, Unpack DEF RequestOk, GoroutineOk
    <2> QED
      BY <1>1, <1>2, <1>3, <2>2, <2>3, <2>4, <2>5, Unpack, GoroutineStep
  <1>5. CASE /\ NothingMoves
             /\ \/ sess[r].consumed <= 0 /\ UNCHANGED lost
                \/ lost' = [lost EXCEPT ![r] = TRUE]
    <2>1. /\ LedgersOk /\ paid' = [paid EXCEPT ![r] = paid'[r]] /\ paid'[r] = paid[r]
          /\ paid'[r] \in [Ledgers -> Int]
      BY <1>0, <1>5, NothingEffect
    <2>2. /\ lost' = [lost EXCEPT ![r] = lost'[r]] /\ lost'[r] \in BOOLEAN
          /\ lost[r] => lost'[r]
          /\ lost'[r] \/ sess[r].consumed <= 0
      BY <1>5, LostEffect
    <2>3. paid'[r]["wallet"] >= 0 /\ paid'[r]["token"] >= 0
      BY <2>1, Unpack DEF RequestOk
    <2>4. Owes(lost'[r], paid'[r]["token"], Share(prof[r], sess[r].tok))
      BY <1>2, <2>1, <2>2, Unpack DEF RequestOk, GoroutineOk, Owes
    <2>5. GoroutineOk(prof[r], ctl'[r], sess[r], paid'[r], lost'[r], record'[r])
      BY <1>1, <1>2, <1>3, <2>1, <2>2, <2>4, Unpack DEF GoroutineOk
    <2> QED
      BY <1>1, <1>2, <1>3, <2>1, <2>2, <2>3, <2>5, Unpack, GoroutineStep
  <1> QED
    BY <1>4, <1>5 DEF RefundWallet

(* RefundToken keeps the invariant. *)
LEMMA RefundTokenKeeps ==
    ASSUME IInv, NEW r \in Requests, RefundToken(r)
    PROVE  IInv'
  <1>0. faults' \in Nat
    BY DEF RefundToken, DbFault, DbOk, IInv, TypeOK
  <1>1. /\ ctl' = [ctl EXCEPT ![r] = ctl'[r]] /\ ctl'[r] \in Control
        /\ ctl'[r].pc = ctl[r].pc /\ ctl'[r].bg = "end"
    BY BgGotoEffect DEF RefundToken
  <1>2. /\ ctl[r].bg = "token" /\ sess[r].tok \in Nat
        /\ paid[r] \in [Ledgers -> Int]
        /\ paid[r]["wallet"] >= 0 /\ paid[r]["token"] >= 0
        /\ sess[r].src # "wallet" => paid[r]["wallet"] = 0
        /\ sess[r].src # "subscription" => paid[r]["subscription"] = 0
        /\ lost[r] \/ (paid[r]["wallet"] = 0 /\ paid[r]["subscription"] = 0)
        /\ Owes(lost[r], paid[r]["token"], Share(prof[r], sess[r].tok))
        /\ UNCHANGED <<prof, sess>>
    BY Unpack DEF RefundToken, RequestOk, GoroutineOk, Session
  <1>3. record' = [record EXCEPT ![r] = record'[r]] /\ record'[r] = record[r]
    BY DEF RefundToken, IInv, TypeOK
  <1>4. CASE /\ sess[r].tok > 0 /\ ~prof[r].playground
             /\ MoveToken(r, -sess[r].tok) /\ UNCHANGED lost
    <2>1. -sess[r].tok \in Int
      BY <1>2
    <2>2. /\ LedgersOk /\ paid' = [paid EXCEPT ![r] = paid'[r]]
          /\ paid'[r] \in [Ledgers -> Int]
          /\ paid'[r]["token"] = paid[r]["token"] + (-sess[r].tok)
          /\ paid'[r]["wallet"] = paid[r]["wallet"]
          /\ paid'[r]["subscription"] = paid[r]["subscription"]
      BY <1>0, <1>4, <2>1, TokenEffect
    <2>3. lost' = [lost EXCEPT ![r] = lost'[r]] /\ lost'[r] = lost[r]
      BY <1>4 DEF IInv, TypeOK
    <2>4. paid[r]["token"] >= sess[r].tok /\ (lost[r] \/ paid[r]["token"] = sess[r].tok)
      BY <1>2, <1>4 DEF Owes, Share
    <2>5. paid'[r]["token"] >= 0 /\ (lost[r] \/ paid'[r]["token"] = 0)
      BY <1>2, <2>2, <2>4 DEF Ledgers
    <2>6. GoroutineOk(prof[r], ctl'[r], sess[r], paid'[r], lost'[r], record'[r])
      BY <1>1, <1>2, <2>2, <2>3, <2>5 DEF GoroutineOk
    <2> QED
      BY <1>1, <1>2, <1>3, <2>2, <2>3, <2>5, <2>6, Unpack, GoroutineStep
  <1>5. CASE /\ NothingMoves
             /\ \/ (sess[r].tok = 0 \/ prof[r].playground) /\ UNCHANGED lost
                \/ lost' = [lost EXCEPT ![r] = TRUE]
    <2>1. /\ LedgersOk /\ paid' = [paid EXCEPT ![r] = paid'[r]] /\ paid'[r] = paid[r]
          /\ paid'[r] \in [Ledgers -> Int]
      BY <1>0, <1>5, NothingEffect
    <2>2. /\ lost' = [lost EXCEPT ![r] = lost'[r]] /\ lost'[r] \in BOOLEAN
          /\ lost[r] => lost'[r]
          /\ lost'[r] \/ sess[r].tok = 0 \/ prof[r].playground
      BY <1>5, LostEffect
    <2>3. lost'[r] \/ paid'[r]["token"] = 0
      BY <1>2, <2>1, <2>2, Unpack DEF Owes, Share, Profile
    <2>4. GoroutineOk(prof[r], ctl'[r], sess[r], paid'[r], lost'[r], record'[r])
      BY <1>1, <1>2, <2>1, <2>2, <2>3 DEF GoroutineOk
    <2> QED
      BY <1>1, <1>2, <1>3, <2>1, <2>2, <2>4, Unpack, GoroutineStep
  <1> QED
    BY <1>4, <1>5 DEF RefundToken

(* A failed attempt: the goroutine tries again or gives up *)
LEMMA RetryRefundEffect ==
    ASSUME IInv, NEW r \in Requests, RetryRefund(r)
    PROVE  /\ ctl' = [ctl EXCEPT ![r] = ctl'[r]] /\ ctl'[r] \in Control
           /\ ctl'[r].pc = ctl[r].pc
           /\ lost' = [lost EXCEPT ![r] = lost'[r]] /\ lost'[r] \in BOOLEAN
           /\ lost[r] => lost'[r]
           /\ ctl[r].bg = "commit" => lost'[r]
           /\ \/ ctl'[r].bg = "fund"
              \/ ctl'[r].bg = "token" /\ lost'[r]
  <1>1. ctl[r] \in Control /\ lost[r] \in BOOLEAN
    BY Unpack
  <1>2. PICK n \in Nat : n = ctl[r].tries + 1
    BY <1>1 DEF Control
  <1>3. /\ lost' = [lost EXCEPT ![r] = lost'[r]]
        /\ lost'[r] = (lost[r] \/ ctl[r].bg = "commit" \/ n >= MaxAttempts)
    BY <1>2 DEF RetryRefund, IInv, TypeOK
  <1>4. ASSUME NEW b \in {"fund", "token"}, b = IF n < MaxAttempts THEN "fund" ELSE "token"
        PROVE  /\ ctl' = [ctl EXCEPT ![r] = ctl'[r]] /\ ctl'[r] \in Control
               /\ ctl'[r].pc = ctl[r].pc /\ ctl'[r].bg = b
    <2>1. /\ ctl' = [ctl EXCEPT ![r] = ctl'[r]]
          /\ ctl'[r] = [ctl[r] EXCEPT !.tries = n, !.bg = b]
      BY <1>1, <1>2, <1>4 DEF RetryRefund, IInv, TypeOK, Control
    <2> QED
      BY <1>1, <2>1 DEF Control
  <1>5. CASE n < MaxAttempts
    BY <1>1, <1>3, <1>4, <1>5
  <1>6. CASE ~(n < MaxAttempts)
    <2>1. n >= MaxAttempts
      BY <1>2, <1>6, BoundAssumption
    <2>2. lost'[r] = TRUE
      BY <1>1, <1>3, <2>1
    <2> QED
      BY <1>3, <1>4, <1>6, <2>2
  <1> QED BY <1>5, <1>6

(* RefundSub keeps the invariant. *)
LEMMA RefundSubKeeps ==
    ASSUME IInv, NEW r \in Requests, RefundSub(r)
    PROVE  IInv'
  <1>0. faults' \in Nat
    BY DEF RefundSub, FundingFails, DbFault, DbOk, IInv, TypeOK
  <1>1. /\ ctl[r].bg = "fund" /\ sess[r].src = "subscription"
        /\ sess[r].consumed \in Nat
        /\ paid[r] \in [Ledgers -> Int] /\ record[r] # "refunded"
        /\ paid[r]["wallet"] = 0 /\ paid[r]["token"] >= 0
        /\ lost[r] \/ paid[r]["subscription"] = sess[r].consumed
        /\ Owes(lost[r], paid[r]["token"], Share(prof[r], sess[r].tok))
        /\ UNCHANGED <<prof, sess>>
    BY Unpack DEF RefundSub, RequestOk, GoroutineOk, Session
  <1>2. record' = [record EXCEPT ![r] = record'[r]] /\ record'[r] = record[r]
    BY DEF RefundSub, IInv, TypeOK
  <1>3. CASE MoveSub(r, -sess[r].consumed) /\ BgGoto(r, "commit") /\ UNCHANGED lost
    <2>1. -sess[r].consumed \in Int /\ MoveFunding(r, -sess[r].consumed)
      BY <1>1, <1>3 DEF MoveFunding
    <2>2. /\ LedgersOk /\ paid' = [paid EXCEPT ![r] = paid'[r]]
          /\ paid'[r] \in [Ledgers -> Int] /\ paid'[r]["token"] = paid[r]["token"]
          /\ paid'[r]["subscription"] = paid[r]["subscription"] + (-sess[r].consumed)
          /\ paid'[r]["wallet"] = paid[r]["wallet"]
      BY <1>0, <1>1, <2>1, FundingEffect
    <2>3. lost' = [lost EXCEPT ![r] = lost'[r]] /\ lost'[r] = lost[r]
      BY <1>3 DEF IInv, TypeOK
    <2>4. /\ ctl' = [ctl EXCEPT ![r] = ctl'[r]] /\ ctl'[r] \in Control
          /\ ctl'[r].pc = ctl[r].pc /\ ctl'[r].bg = "commit"
      BY <1>3, BgGotoEffect
    <2>5. lost[r] \/ paid'[r]["subscription"] = 0
      BY <1>1, <2>2
    <2>6. GoroutineOk(prof[r], ctl'[r], sess[r], paid'[r], lost'[r], record'[r])
      BY <1>1, <1>2, <2>2, <2>3, <2>4, <2>5 DEF GoroutineOk
    <2> QED
      BY <1>1, <1>2, <2>2, <2>3, <2>4, <2>6, Unpack, GoroutineStep
  <1>4. CASE NothingMoves /\ RetryRefund(r)
    <2>1. /\ LedgersOk /\ paid' = [paid EXCEPT ![r] = paid'[r]] /\ paid'[r] = paid[r]
          /\ paid'[r] \in [Ledgers -> Int]
      BY <1>0, <1>4, NothingEffect
    <2>2. /\ ctl' = [ctl EXCEPT ![r] = ctl'[r]] /\ ctl'[r] \in Control
          /\ ctl'[r].pc = ctl[r].pc
          /\ lost' = [lost EXCEPT ![r] = lost'[r]] /\ lost'[r] \in BOOLEAN
          /\ lost[r] => lost'[r]
          /\ \/ ctl'[r].bg = "fund"
             \/ ctl'[r].bg = "token" /\ lost'[r]
      BY <1>4, RetryRefundEffect
    <2>3. Owes(lost'[r], paid'[r]["token"], Share(prof[r], sess[r].tok))
      BY <1>1, <2>1, <2>2 DEF Owes
    <2>4. GoroutineOk(prof[r], ctl'[r], sess[r], paid'[r], lost'[r], record'[r])
      BY <1>1, <1>2, <2>1, <2>2, <2>3 DEF GoroutineOk
    <2> QED
      BY <1>1, <1>2, <2>1, <2>2, <2>4, Unpack, GoroutineStep
  <1> QED
    BY <1>1, <1>3, <1>4 DEF RefundSub

(* RefundSubCommit keeps the invariant. *)
LEMMA RefundSubCommitKeeps ==
    ASSUME IInv, NEW r \in Requests, RefundSubCommit(r)
    PROVE  IInv'
  <1>0. faults' \in Nat
    BY DEF RefundSubCommit, DbFault, DbOk, IInv, TypeOK
  <1>1. /\ ctl[r].bg = "commit" /\ sess[r].src = "subscription"
        /\ paid[r] \in [Ledgers -> Int] /\ record[r] # "refunded"
        /\ paid[r]["wallet"] = 0 /\ paid[r]["token"] >= 0
        /\ lost[r] \/ paid[r]["subscription"] = 0
        /\ Owes(lost[r], paid[r]["token"], Share(prof[r], sess[r].tok))
        /\ UNCHANGED <<prof, sess>>
    BY Unpack DEF RefundSubCommit, RequestOk, GoroutineOk, Session
  <1>2. /\ LedgersOk /\ paid' = [paid EXCEPT ![r] = paid'[r]] /\ paid'[r] = paid[r]
        /\ paid'[r] \in [Ledgers -> Int]
    BY <1>0, NothingEffect DEF RefundSubCommit, NothingMoves
  <1>3. CASE /\ record' = [record EXCEPT ![r] = "refunded"]
             /\ BgGoto(r, "token") /\ UNCHANGED lost
    <2>1. /\ ctl' = [ctl EXCEPT ![r] = ctl'[r]] /\ ctl'[r] \in Control
          /\ ctl'[r].pc = ctl[r].pc /\ ctl'[r].bg = "token"
      BY <1>3, BgGotoEffect
    <2>2. /\ lost' = [lost EXCEPT ![r] = lost'[r]] /\ lost'[r] = lost[r]
          /\ record' = [record EXCEPT ![r] = record'[r]] /\ record'[r] = "refunded"
      BY <1>3 DEF IInv, TypeOK
    <2>3. GoroutineOk(prof[r], ctl'[r], sess[r], paid'[r], lost'[r], record'[r])
      BY <1>1, <1>2, <2>1, <2>2 DEF GoroutineOk
    <2> QED
      BY <1>1, <1>2, <2>1, <2>2, <2>3, Unpack, GoroutineStep DEF Statuses
  <1>4. CASE RetryRefund(r) /\ UNCHANGED record
    <2>1. /\ ctl' = [ctl EXCEPT ![r] = ctl'[r]] /\ ctl'[r] \in Control
          /\ ctl'[r].pc = ctl[r].pc
          /\ lost' = [lost EXCEPT ![r] = lost'[r]] /\ lost'[r] \in BOOLEAN
          /\ ctl[r].bg = "commit" => lost'[r]
          /\ ctl'[r].bg = "fund" \/ ctl'[r].bg = "token"
      BY <1>4, RetryRefundEffect
    <2>2. record' = [record EXCEPT ![r] = record'[r]] /\ record'[r] = record[r]
      BY <1>4 DEF IInv, TypeOK
    <2>3. Owes(lost'[r], paid'[r]["token"], Share(prof[r], sess[r].tok))
      BY <1>1, <1>2, <2>1 DEF Owes
    <2>4. GoroutineOk(prof[r], ctl'[r], sess[r], paid'[r], lost'[r], record'[r])
      BY <1>1, <1>2, <2>1, <2>2, <2>3 DEF GoroutineOk
    <2> QED
      BY <1>1, <1>2, <2>1, <2>2, <2>4, Unpack, GoroutineStep
  <1> QED
    BY <1>3, <1>4 DEF RefundSubCommit

-----------------------------------------------------------------------------
(* The inductive invariant, and what follows from it.                      *)

(* A request that has not started satisfies its part of the invariant *)
LEMMA InitOk == Init => IInv
  <1> SUFFICES ASSUME Init PROVE IInv
    OBVIOUS
  <1>1. TypeOK
    BY QuotaAssumption
    DEF Init, TypeOK, Control, Labels, Session, FreshSession, Ledgers
  <1>2. SubWithinTotal
    BY QuotaAssumption DEF Init, SubWithinTotal
  <1>3. ASSUME NEW r \in Requests
        PROVE  RequestOk(prof[r], ctl[r], sess[r], paid[r], lost[r], record[r])
    <2>1. /\ ctl[r].pc = "idle" /\ ctl[r].bg = "none" /\ lost[r] = FALSE
          /\ record[r] = "none"
          /\ paid[r]["wallet"] = 0 /\ paid[r]["token"] = 0 /\ paid[r]["subscription"] = 0
      BY <1>3 DEF Init, Ledgers
    <2>2. Blank(sess[r]) /\ sess[r].src = "none"
      BY <1>3 DEF Init, FreshSession, Blank
    <2>3. prof[r] \in Profile
      BY <1>3, ProfilesAssumption DEF Init
    <2> QED
      BY <2>1, <2>2, <2>3
      DEF RequestOk, OpeningOk, HoldingOk, ClosedOk, GoroutineOk, Owes, Share,
          Blank, Opening, Holding, Closed, Profile
  <1> QED
    BY <1>1, <1>2, <1>3 DEF IInv

(* Every step of every request keeps the invariant. *)
LEMMA NextOk == IInv /\ [Next]_vars => IInv'
  <1> SUFFICES ASSUME IInv, [Next]_vars PROVE IInv'
    OBVIOUS
  <1>1. ASSUME NEW r \in Requests, PreConsume(r) PROVE IInv'
    BY <1>1, StartKeeps, HasSubKeeps, OverflowKeeps, TryWalletKeeps, TrySubKeeps,
       TokenReadKeeps, TokenDecKeeps, FundKeeps, RollbackKeeps DEF PreConsume
  <1>2. ASSUME NEW r \in Requests, Relaying(r) PROVE IInv'
    BY <1>2, RelayRetryKeeps, RelaySuccessKeeps, RelayFailKeeps,
       RelayPanicsKeeps DEF Relaying
  <1>3. ASSUME NEW r \in Requests, Closing(r) PROVE IInv'
    BY <1>3, SettleKeeps, SettleTokenKeeps, RefundKeeps, ChargeFeeKeeps,
       ChargeFeeTokenKeeps DEF Closing
  <1>4. ASSUME NEW r \in Requests, Goroutine(r) PROVE IInv'
    BY <1>4, RefundWalletKeeps, RefundSubKeeps, RefundSubCommitKeeps,
       RefundTokenKeeps DEF Goroutine
  <1>5. CASE SubEnds
    BY <1>5 DEF SubEnds, IInv, TypeOK, SubWithinTotal
  <1>6. CASE UNCHANGED vars
    BY <1>6 DEF vars, IInv, TypeOK, SubWithinTotal
  <1> QED
    BY <1>1, <1>2, <1>3, <1>4, <1>5, <1>6 DEF Next, Handler, AllFinished

(* For any number of concurrent requests, with any profiles, balances and  *)
(* failing database calls, what each session took from the ledgers agrees  *)
(* with its fields and with the step it is in.                             *)
THEOREM Inductive == Spec => []IInv
  BY InitOk, NextOk, PTL DEF Spec

(* Every variable keeps its type: no field of a session becomes negative,  *)
(* whatever Reserve, its rollback, Settle and Refund do.                   *)
THEOREM TypeCorrect == Spec => []TypeOK
  <1>1. IInv => TypeOK
    BY DEF IInv
  <1> QED
    BY <1>1, Inductive, PTL

(* Settle charges the funding source and the token the actual consumption. *)
THEOREM SettleIsExact == Spec => []SettledChargesActual
  <1>1. IInv => SettledChargesActual
    <2> SUFFICES ASSUME IInv, NEW r \in Requests, sess[r].settled, ~lost[r]
                 PROVE  /\ paid[r][sess[r].src] = ctl[r].arg
                        /\ paid[r]["token"] = TokenShare(r, ctl[r].arg)
      BY DEF SettledChargesActual
    <2>1. /\ ctl[r].pc = "done" /\ sess[r].src \in {"wallet", "subscription"}
          /\ Taken(sess[r], paid[r]) = ctl[r].arg
          /\ paid[r]["token"] = Share(prof[r], ctl[r].arg)
      BY Unpack DEF RequestOk, ClosedOk, Closed
    <2> QED
      BY <2>1 DEF Taken, Share, TokenShare
  <1> QED
    BY <1>1, Inductive, PTL

(* Refund gives back everything, and preConsume leaves nothing behind when *)
(* it fails.                                                               *)
THEOREM RefundIsComplete == Spec => []RefundedChargesNothing
  <1>1. IInv => RefundedChargesNothing
    <2> SUFFICES ASSUME IInv, NEW r \in Requests, ctl[r].bg = "end", ~lost[r],
                        NEW l \in Ledgers
                 PROVE  paid[r][l] = 0
      BY DEF RefundedChargesNothing
    <2>1. /\ paid[r]["wallet"] = 0 /\ paid[r]["subscription"] = 0
          /\ paid[r]["token"] = 0
      BY Unpack DEF RequestOk, GoroutineOk
    <2> QED
      BY <2>1 DEF Ledgers
  <1> QED
    BY <1>1, Inductive, PTL

(* preConsume rolls back the token when the funding source refuses.        *)
THEOREM RejectionIsFree == Spec => []RejectedChargesNothing
  <1>1. IInv => RejectedChargesNothing
    <2> SUFFICES ASSUME IInv, NEW r \in Requests, ~lost[r], NEW l \in Ledgers,
                        ctl[r].pc \in {"hasSub", "overflow", "tryWallet", "trySub",
                                       "rejected"}
                 PROVE  paid[r][l] = 0
      BY DEF RejectedChargesNothing
    <2>1. /\ paid[r]["wallet"] = 0 /\ paid[r]["subscription"] = 0
          /\ Owes(lost[r], paid[r]["token"], Share(prof[r], 0))
      BY Unpack DEF RequestOk, OpeningOk, Opening
    <2>2. paid[r]["token"] = 0
      BY <2>1 DEF Owes, Share
    <2> QED
      BY <2>1, <2>2 DEF Ledgers
  <1> QED
    BY <1>1, Inductive, PTL

(* A wallet or a token is never given back more than the session took, nor *)
(* a subscription unless a call of the session failed (Refund).            *)
THEOREM RefundIsBounded == Spec => []NeverOverRefunded
  <1>1. IInv => NeverOverRefunded
    <2> SUFFICES ASSUME IInv, NEW r \in Requests
                 PROVE  /\ paid[r]["wallet"] >= 0 /\ paid[r]["token"] >= 0
                        /\ paid[r]["wallet"] = 0 \/ paid[r]["subscription"] = 0
                        /\ lost[r] \/ paid[r]["subscription"] >= 0
      BY DEF NeverOverRefunded
    <2> QED
      BY Unpack DEF RequestOk
  <1> QED
    BY <1>1, Inductive, PTL

(* A request at rest was settled or refunded, or its relay panicked or the *)
(* funding write of Settle failed.                                         *)
THEOREM HoldsEnd == Spec => []HoldsAreResolved
  <1>1. IInv => HoldsAreResolved
    <2> SUFFICES ASSUME IInv, NEW r \in Requests, Finished(r),
                        ctl[r].pc \notin {"unsettled", "panicked"}
                 PROVE  Resolved(r)
      BY DEF HoldsAreResolved
    <2>1. CASE ctl[r].pc = "rejected"
      BY <2>1, Unpack DEF Resolved, RequestOk, OpeningOk, Opening
    <2>2. CASE ctl[r].pc = "done"
      BY <2>2, Unpack DEF Finished, Resolved, RequestOk, ClosedOk, Closed
    <2> QED
      BY <2>1, <2>2 DEF Finished
  <1> QED
    BY <1>1, Inductive, PTL

(* PreConsume, Settle and the fee of any number of requests keep           *)
(* a limited subscription within its total.                                *)
THEOREM SubscriptionIsLimited == Spec => []SubWithinTotal
  <1>1. IInv => SubWithinTotal
    BY DEF IInv
  <1> QED
    BY <1>1, Inductive, PTL

(* A step of request q leaves the session and the charges of others alone *)
LEMMA OthersStay ==
    ASSUME IInv, NEW q \in Requests, NEW r \in Requests, r # q,
           Handler(q) \/ Goroutine(q)
    PROVE  sess'[r] = sess[r] /\ paid'[r] = paid[r]
  <1> USE DEF IInv, TypeOK
  <1>1. ASSUME NEW a, MoveWallet(q, a) \/ MoveToken(q, a) \/ MoveSub(q, a)
        PROVE  paid'[r] = paid[r]
    BY <1>1 DEF MoveWallet, MoveToken, MoveSub
  <1>2. ASSUME NothingMoves PROVE paid'[r] = paid[r]
    BY <1>2 DEF NothingMoves
  <1>3. ASSUME NEW a, MoveFunding(q, a) PROVE paid'[r] = paid[r]
    BY <1>1, <1>3 DEF MoveFunding
  <1>4. ASSUME Reject(q) \/ \E src : Insufficient(q, src) PROVE sess'[r] = sess[r]
    BY <1>4 DEF Reject, Insufficient
  <1>5. CASE PreConsume(q)
    <2>1. CASE Start(q) \/ TrySub(q)
      BY <2>1 DEF Start, TrySub
    <2>2. CASE HasSub(q) \/ Overflow(q) \/ TryWallet(q) \/ TokenRead(q)
      BY <1>2, <1>4, <2>2 DEF HasSub, Overflow, TryWallet, TokenRead
    <2>3. CASE TokenDec(q)
      BY <1>1, <1>2, <1>4, <2>3 DEF TokenDec
    <2>4. CASE Fund(q)
      BY <1>2, <1>3, <2>4 DEF Fund
    <2>5. CASE Rollback(q)
      BY <1>1, <1>2, <1>4, <2>5 DEF Rollback
    <2> QED
      BY <1>5, <2>1, <2>2, <2>3, <2>4, <2>5 DEF PreConsume
  <1>6. CASE Relaying(q)
    BY <1>6 DEF Relaying, RelayRetry, RelaySuccess, RelayFail, RelayPanics
  <1>7. CASE Closing(q)
    <2>1. CASE Settle(q)
      BY <1>2, <1>3, <2>1 DEF Settle
    <2>2. CASE SettleToken(q)
      BY <1>1, <1>2, <2>2 DEF SettleToken
    <2>3. CASE Refund(q) \/ ChargeFee(q) \/ ChargeFeeToken(q)
      BY <2>3 DEF Refund, ChargeFee, ChargeFeeToken
    <2> QED
      BY <1>7, <2>1, <2>2, <2>3 DEF Closing
  <1>8. CASE Goroutine(q)
    BY <1>1, <1>2, <1>8
    DEF Goroutine, RefundWallet, RefundSub, RefundSubCommit, RefundToken
  <1> QED
    BY <1>5, <1>6, <1>7, <1>8 DEF Handler

(* Once a session is settled its charges are final and no refund starts;   *)
(* once it is refunded it is never settled.                                *)
THEOREM SettlementIsFinal == Spec => SettledIsFinal
  <1> DEFINE Final(r) == /\ sess[r].settled => /\ paid'[r] = paid[r]
                                               /\ ~sess'[r].refunded
                         /\ sess[r].refunded => ~sess'[r].settled
  <1>1. ASSUME IInv, NEW r \in Requests
        PROVE  /\ sess[r].settled => /\ ctl[r].pc = "done" /\ ctl[r].bg = "none"
                                     /\ ~sess[r].refunded
               /\ sess[r].refunded => ctl[r].pc \in Closed /\ ~sess[r].settled
    BY <1>1, Unpack DEF RequestOk, ClosedOk
  <1>2. ASSUME IInv, NEW r \in Requests, UNCHANGED <<sess, paid>> PROVE Final(r)
    BY <1>1, <1>2
  <1>3. ASSUME IInv, NEW r \in Requests, Handler(r) \/ Goroutine(r) PROVE Final(r)
    <2>1. ~(ctl[r].pc = "done" /\ ctl[r].bg = "none")
      BY <1>3
      DEF Handler, Goroutine, PreConsume, Relaying, Closing, Start, HasSub, Overflow,
          TryWallet, TrySub, TokenRead, TokenDec, Fund, Rollback, RelayRetry,
          RelaySuccess, RelayFail, RelayPanics, Settle, SettleToken, Refund, ChargeFee,
          ChargeFeeToken, RefundWallet, RefundSub, RefundSubCommit,
          RefundToken
    <2>2. ctl[r].pc \in Closed => sess' = sess
      BY <1>3
      DEF Closed, Handler, Goroutine, PreConsume, Relaying, Closing, Start, HasSub,
          Overflow, TryWallet, TrySub, TokenRead, TokenDec, Fund, Rollback, RelayRetry,
          RelaySuccess, RelayFail, RelayPanics, Settle, SettleToken, Refund, ChargeFee,
          ChargeFeeToken, RefundWallet, RefundSub, RefundSubCommit,
          RefundToken
    <2> QED
      BY <1>1, <1>3, <2>1, <2>2
  <1>4. IInv /\ [Next]_vars => [\A r \in Requests : Final(r)]_vars
    <2> SUFFICES ASSUME IInv, Next, NEW r \in Requests PROVE Final(r)
      OBVIOUS
    <2>1. CASE \E q \in Requests : Handler(q) \/ Goroutine(q)
      <3>1. PICK q \in Requests : Handler(q) \/ Goroutine(q)
        BY <2>1
      <3>2. CASE q = r
        BY <1>3, <3>1, <3>2
      <3>3. CASE q # r
        <4>1. sess'[r] = sess[r] /\ paid'[r] = paid[r]
          BY <3>1, <3>3, OthersStay
        <4> QED
          BY <1>1, <4>1
      <3> QED BY <3>2, <3>3
    <2>2. CASE SubEnds \/ AllFinished
      BY <1>2, <2>2 DEF SubEnds, AllFinished, vars
    <2> QED
      BY <2>1, <2>2 DEF Next
  <1> QED
    BY <1>4, Inductive, PTL DEF Spec, SettledIsFinal

-----------------------------------------------------------------------------
(* What settled requests used stays on the subscription.                   *)

(* No refund is tried again after its inner transaction has committed: the *)
(* outer one, which marks the record, does not fail between the two.       *)
NoHalfRefund ==
    [][\A r \in Requests : ctl[r].bg = "commit" => ctl'[r].bg # "fund"]_vars

(* The subscription still carries what a goroutine is about to give back;  *)
(* n is what the session took from it.                                     *)
CoversRefund(c, s, n) ==
    /\ n >= 0
    /\ s.src = "subscription" /\ c.bg = "fund" => n >= s.consumed

CoverInv ==
    \A r \in Requests : CoversRefund(ctl[r], sess[r], paid[r]["subscription"])

(* What each request took from the subscription *)
charged == [r \in Requests |-> paid[r]["subscription"]]

(* f[s] is the sum of d over the requests of s *)
Sums(f, d) == \A s \in SUBSET Requests : \A r \in s : f[s] = d[r] + f[s \ {r}]

(* The sum of d over all requests is k *)
SumsTo(d, k) ==
    \E f \in [SUBSET Requests -> Nat] : Sums(f, d) /\ f[Requests] = k

(* The used amount is at least what all requests together took *)
UsageInv == \E k \in Nat : SumsTo(charged, k) /\ k <= subUsed

(* Request r takes n from the subscription, or gives -n back: the used     *)
(* amount never falls below the difference.                                *)
Takes(r, n) ==
    /\ subUsed' >= subUsed + n
    /\ paid'[r]["subscription"] = paid[r]["subscription"] + n

(* Clamping the used amount at 0 only raises it. *)
LEMMA MoveSubTakes ==
    ASSUME IInv, NEW r \in Requests, NEW n \in Int, MoveSub(r, n)
    PROVE  Takes(r, n)
  <1>1. subUsed' >= subUsed + n
    BY DEF MoveSub, Clamp, IInv, TypeOK
  <1>2. paid'[r] = [paid[r] EXCEPT !["subscription"] = @ + n]
    BY DEF MoveSub, IInv, TypeOK
  <1> QED
    BY <1>1, <1>2, Unpack DEF Takes, Ledgers

(* A step that moves nothing, or only the token's quota, takes nothing. *)
LEMMA NothingTakes ==
    ASSUME IInv, NEW r \in Requests,
           NothingMoves \/ \E a \in Int : MoveToken(r, a) \/ MoveWallet(r, a)
    PROVE  Takes(r, 0)
  <1>0. paid[r] \in [Ledgers -> Int] /\ subUsed \in Nat
    BY Unpack DEF IInv, TypeOK
  <1>1. CASE NothingMoves
    BY <1>0, <1>1 DEF NothingMoves, ledgers, Takes, Ledgers
  <1>2. ASSUME NEW a \in Int, MoveToken(r, a) PROVE Takes(r, 0)
    <2>1. paid'[r] = [paid[r] EXCEPT !["token"] = @ + a] /\ subUsed' = subUsed
      BY <1>2 DEF MoveToken, IInv, TypeOK
    <2> QED BY <1>0, <2>1 DEF Takes, Ledgers
  <1>3. ASSUME NEW a \in Int, MoveWallet(r, a) PROVE Takes(r, 0)
    <2>1. paid'[r] = [paid[r] EXCEPT !["wallet"] = @ + a] /\ subUsed' = subUsed
      BY <1>3 DEF MoveWallet, IInv, TypeOK
    <2> QED BY <1>0, <2>1 DEF Takes, Ledgers
  <1> QED BY <1>1, <1>2, <1>3

(* MoveFunding takes from the source of the session. *)
LEMMA FundingTakes ==
    ASSUME IInv, NEW r \in Requests, NEW n \in Int, MoveFunding(r, n)
    PROVE  \/ sess[r].src = "wallet" /\ Takes(r, 0)
           \/ sess[r].src = "subscription" /\ Takes(r, n)
  BY MoveSubTakes, NothingTakes DEF MoveFunding

(* The goroutine of a request starts in Refund; every other step of the    *)
(* handler leaves its label alone.                                         *)
LEMMA HandlerKeepsBg ==
    ASSUME IInv, NEW r \in Requests, Handler(r), ~Refund(r)
    PROVE  ctl'[r].bg = ctl[r].bg
  <1>0. ctl \in [Requests -> Control]
    BY DEF IInv, TypeOK
  <1>1. ASSUME NEW label, Goto(r, label) PROVE ctl'[r].bg = ctl[r].bg
    BY <1>0, <1>1 DEF Goto, Control
  <1>2. ASSUME Reject(r) \/ \E src : Insufficient(r, src)
        PROVE  ctl'[r].bg = ctl[r].bg
    <2>1. ASSUME Reject(r) PROVE ctl'[r].bg = ctl[r].bg
      BY <1>0, <1>1, <2>1 DEF Reject, Control
    <2> QED
      BY <1>1, <1>2, <2>1 DEF Insufficient
  <1>3. ASSUME NEW label, NEW a, Call(r, label, a)
        PROVE  ctl'[r].bg = ctl[r].bg
    BY <1>0, <1>3 DEF Call, Control
  <1>4. CASE PreConsume(r)
    <2>1. CASE Start(r)
      BY <1>0, <2>1 DEF Start, Control
    <2>2. CASE HasSub(r) \/ Overflow(r) \/ TryWallet(r) \/ TrySub(r)
      BY <1>1, <1>2, <2>2 DEF HasSub, Overflow, TryWallet, TrySub
    <2>3. CASE TokenRead(r) \/ TokenDec(r) \/ Rollback(r)
      BY <1>1, <1>2, <2>3 DEF TokenRead, TokenDec, Rollback
    <2>4. CASE Fund(r)
      BY <1>0, <1>1, <2>4 DEF Fund, FundingError, Control
    <2> QED
      BY <1>4, <2>1, <2>2, <2>3, <2>4 DEF PreConsume
  <1>5. CASE Relaying(r)
    <2>1. CASE RelayRetry(r)
      BY <1>0, <2>1 DEF RelayRetry, Control
    <2>2. CASE RelaySuccess(r) \/ RelayFail(r)
      BY <1>3, <2>2 DEF RelaySuccess, RelayFail
    <2>3. CASE RelayPanics(r)
      BY <1>1, <2>3 DEF RelayPanics
    <2> QED
      BY <1>5, <2>1, <2>2, <2>3 DEF Relaying
  <1>6. CASE Closing(r)
    BY <1>1, <1>6 DEF Closing, Settle, SettleToken, ChargeFee, ChargeFeeToken
  <1> QED
    BY <1>4, <1>5, <1>6 DEF Handler

(* A step of request q leaves the control state of others alone *)
LEMMA OthersControl ==
    ASSUME IInv, NEW q \in Requests, NEW r \in Requests, r # q,
           Handler(q) \/ Goroutine(q)
    PROVE  ctl'[r] = ctl[r]
  <1> USE DEF IInv, TypeOK
  <1>1. ASSUME NEW label, \/ Goto(q, label) \/ BgGoto(q, label)
                          \/ FundingError(q, label) \/ StartGoroutine(q, label)
        PROVE  ctl'[r] = ctl[r]
    BY <1>1 DEF Goto, BgGoto, FundingError, StartGoroutine
  <1>2. ASSUME Reject(q) \/ (\E src : Insufficient(q, src)) \/ RetryRefund(q)
        PROVE  ctl'[r] = ctl[r]
    BY <1>1, <1>2 DEF Reject, Insufficient, RetryRefund
  <1>3. ASSUME NEW label, NEW a, Call(q, label, a)
        PROVE  ctl'[r] = ctl[r]
    BY <1>3 DEF Call
  <1>4. CASE PreConsume(q)
    <2>1. CASE Start(q)
      BY <2>1 DEF Start
    <2>2. CASE HasSub(q) \/ Overflow(q) \/ TryWallet(q) \/ TrySub(q)
      BY <1>1, <1>2, <2>2 DEF HasSub, Overflow, TryWallet, TrySub
    <2>3. CASE TokenRead(q) \/ TokenDec(q) \/ Rollback(q) \/ Fund(q)
      BY <1>1, <1>2, <2>3 DEF TokenRead, TokenDec, Rollback, Fund
    <2> QED
      BY <1>4, <2>1, <2>2, <2>3 DEF PreConsume
  <1>5. CASE Relaying(q)
    <2>1. CASE RelayRetry(q)
      BY <2>1 DEF RelayRetry
    <2>2. CASE RelaySuccess(q) \/ RelayFail(q)
      BY <1>3, <2>2 DEF RelaySuccess, RelayFail
    <2>3. CASE RelayPanics(q)
      BY <1>1, <2>3 DEF RelayPanics
    <2> QED
      BY <1>5, <2>1, <2>2, <2>3 DEF Relaying
  <1>6. CASE Closing(q)
    BY <1>1, <1>6 DEF Closing, Settle, SettleToken, Refund, ChargeFee, ChargeFeeToken
  <1>7. CASE Goroutine(q)
    BY <1>1, <1>2, <1>7
    DEF Goroutine, RefundWallet, RefundSub, RefundSubCommit, RefundToken
  <1> QED
    BY <1>4, <1>5, <1>6, <1>7 DEF Handler

(* Request r takes some amount, and what it took still covers its refund *)
TakesCovered(r) ==
    \E n \in Int : /\ Takes(r, n)
                   /\ CoversRefund(ctl'[r], sess'[r], paid'[r]["subscription"])

(* While no goroutine runs, the cover says only that nothing was overpaid. *)
LEMMA CoverAtNone ==
    ASSUME NEW r \in Requests, NEW n \in Int, Takes(r, n), IInv,
           ctl'[r].bg \notin {"fund", "commit"},
           paid[r]["subscription"] + n >= 0
    PROVE  TakesCovered(r)
  BY DEF TakesCovered, CoversRefund, Takes

(* The steps before the funding source is charged, and Fund itself *)
LEMMA PreConsumeTakes ==
    ASSUME IInv, CoverInv, NEW r \in Requests, PreConsume(r)
    PROVE  TakesCovered(r)
  <1>0. /\ paid[r]["subscription"] \in Int /\ paid[r]["subscription"] >= 0
        /\ sess[r].tok \in Nat
    BY Unpack DEF CoverInv, CoversRefund, Ledgers, Session
  <1>1. ctl[r].bg = "none"
    BY Unpack DEF PreConsume, Start, HasSub, Overflow, TryWallet, TrySub, TokenRead,
                  TokenDec, Fund, Rollback, RequestOk, OpeningOk, Opening
  <1>2. ctl'[r].bg = "none"
    BY <1>1, HandlerKeepsBg DEF Handler, PreConsume, Refund, Start, HasSub, Overflow,
       TryWallet, TrySub, TokenRead, TokenDec, Fund, Rollback
  <1>3. ASSUME Takes(r, 0) PROVE TakesCovered(r)
    BY <1>0, <1>2, <1>3, CoverAtNone
  <1>4. Amount(r) \in Nat
    BY AmountType
  <1>5. CASE Start(r) \/ HasSub(r) \/ Overflow(r) \/ TryWallet(r) \/ TrySub(r) \/ TokenRead(r)
    <2>1. NothingMoves
      BY <1>5 DEF Start, HasSub, Overflow, TryWallet, TrySub, TokenRead, NothingMoves
    <2> QED BY <1>3, <2>1, NothingTakes
  <1>6. CASE TokenDec(r)
    <2>1. NothingMoves \/ MoveToken(r, Amount(r))
      BY <1>6 DEF TokenDec
    <2> QED BY <1>3, <1>4, <2>1, NothingTakes
  <1>7. CASE Rollback(r)
    <2>1. NothingMoves \/ MoveToken(r, -sess[r].tok)
      BY <1>7 DEF Rollback
    <2> QED BY <1>0, <1>3, <2>1, NothingTakes
  <1>8. CASE Fund(r)
    <2>1. NothingMoves \/ MoveFunding(r, Amount(r))
      BY <1>8 DEF Fund
    <2>2. CASE NothingMoves
      BY <1>3, <2>2, NothingTakes
    <2>3. CASE MoveFunding(r, Amount(r))
      <3>1. Takes(r, 0) \/ Takes(r, Amount(r))
        BY <1>4, <2>3, FundingTakes
      <3> QED BY <1>0, <1>2, <1>3, <1>4, <3>1, CoverAtNone
    <2> QED BY <2>1, <2>2, <2>3
  <1> QED
    BY <1>5, <1>6, <1>7, <1>8 DEF PreConsume

(* Relaying moves no quota. *)
LEMMA RelayingTakes ==
    ASSUME IInv, CoverInv, NEW r \in Requests, Relaying(r)
    PROVE  TakesCovered(r)
  <1>0. paid[r]["subscription"] \in Int /\ paid[r]["subscription"] >= 0
    BY Unpack DEF CoverInv, CoversRefund, Ledgers
  <1>1. ctl[r].bg = "none"
    BY Unpack DEF Relaying, RelayRetry, RelaySuccess, RelayFail, RelayPanics, RequestOk,
       HoldingOk, Holding
  <1>2. ctl'[r].bg = "none"
    BY <1>1, HandlerKeepsBg DEF Handler, Refund, Relaying, RelayRetry, RelaySuccess,
       RelayFail, RelayPanics
  <1>3. NothingMoves
    BY DEF Relaying, RelayRetry, RelaySuccess, RelayFail, RelayPanics, NothingMoves
  <1> QED
    BY <1>0, <1>2, <1>3, NothingTakes, CoverAtNone

(* Settle moves the subscription to the actual consumption; Refund finds   *)
(* what it will give back; a fee only adds to the used amount.             *)
LEMMA ClosingTakes ==
    ASSUME IInv, CoverInv, NEW r \in Requests, Closing(r)
    PROVE  TakesCovered(r)
  <1> DEFINE n == SettleDelta(r)
  <1>0. /\ paid[r]["subscription"] \in Int /\ paid[r]["subscription"] >= 0
        /\ n \in Int /\ n = ctl[r].arg - sess[r].pre
        /\ ctl[r].arg \in Nat /\ sess[r].pre \in Nat /\ subUsed \in Nat
    BY Unpack
    DEF CoverInv, CoversRefund, Ledgers, Session, Control, SettleDelta, IInv, TypeOK
  <1> HIDE DEF n
  <1>1. ASSUME ctl'[r].bg = "none", Takes(r, 0) PROVE TakesCovered(r)
    BY <1>0, <1>1, CoverAtNone
  <1>2. CASE Settle(r) \/ SettleToken(r)
    <2>1. ctl[r].bg = "none"
      BY <1>2, Unpack DEF Settle, SettleToken, RequestOk, HoldingOk, Holding
    <2>2. ctl'[r].bg = "none"
      BY <1>2, <2>1, HandlerKeepsBg DEF Handler, Closing, Refund, Settle, SettleToken
    <2>3. \/ NothingMoves \/ MoveToken(r, n)
          \/ MoveFunding(r, n) /\ ctl[r].pc = "settle"
      BY <1>2 DEF Settle, SettleToken, n
    <2>4. CASE NothingMoves \/ MoveToken(r, n)
      BY <1>0, <1>1, <2>2, <2>4, NothingTakes
    <2>5. CASE MoveFunding(r, n) /\ ctl[r].pc = "settle"
      <3>1. sess[r].src = "subscription" => paid[r]["subscription"] >= sess[r].pre
        BY <2>5, Unpack DEF RequestOk, HoldingOk, Holding, HoldOk, Owes, Taken
      <3>2. \/ Takes(r, 0)
            \/ sess[r].src = "subscription" /\ Takes(r, n)
        BY <1>0, <2>5, FundingTakes
      <3>3. CASE sess[r].src = "subscription" /\ Takes(r, n)
        <4>1. paid[r]["subscription"] + n >= 0
          BY <1>0, <3>1, <3>3
        <4> QED BY <1>0, <2>2, <3>3, <4>1, CoverAtNone
      <3> QED BY <1>1, <2>2, <3>2, <3>3
    <2> QED BY <2>3, <2>4, <2>5
  <1>3. CASE Refund(r)
    <2>1. Takes(r, 0) /\ paid'[r] = paid[r]
      <3>1. NothingMoves
        BY <1>3 DEF Refund, NothingMoves
      <3> QED BY <3>1, NothingTakes DEF NothingMoves
    <2>2. /\ ctl[r].bg = "none"
          /\ sess[r].src = "subscription" =>
               paid[r]["subscription"] >= sess[r].consumed
      BY <1>3, Unpack DEF Refund, RequestOk, HoldingOk, Holding, HoldOk, Owes, Taken
    <2>3. CASE RefundMark(r) /\ StartGoroutine(r, AfterRefund(r))
      <3>1. /\ sess'[r].src = sess[r].src /\ sess'[r].consumed = sess[r].consumed
           
        BY <2>3, RefundMarkEffect
      <3>2. ctl'[r].bg = "fund"
        BY <2>3 DEF StartGoroutine, IInv, TypeOK, Control
      <3> QED
        BY <1>0, <2>1, <2>2, <3>1, <3>2 DEF TakesCovered, CoversRefund
    <2>4. CASE Goto(r, AfterRefund(r))
      <3>1. ctl'[r].bg = "none"
        BY <2>2, <2>4 DEF Goto, IInv, TypeOK, Control
      <3> QED BY <1>1, <2>1, <3>1
    <2> QED
      BY <1>3, <2>3, <2>4 DEF Refund, RefundMark
  <1>4. CASE ChargeFee(r) \/ ChargeFeeToken(r)
    <2>1. ctl'[r].bg = ctl[r].bg
      BY <1>4, HandlerKeepsBg DEF Handler, Closing, Refund, ChargeFee, ChargeFeeToken
    <2>2. sess'[r] = sess[r] /\ paid'[r] = paid[r]
      BY <1>4 DEF ChargeFee, ChargeFeeToken
    <2>3. subUsed' >= subUsed
      BY <1>0, <1>4 DEF ChargeFee, ChargeFeeToken, Clamp, ledgers
    <2> QED
      BY <1>0, <2>1, <2>2, <2>3 DEF CoverInv, TakesCovered, CoversRefund, Takes
  <1> QED
    BY <1>2, <1>3, <1>4 DEF Closing

(* The goroutine gives back at most what the session took, as long as it   *)
(* does not refund twice.                                                  *)
LEMMA GoroutineTakes ==
    ASSUME IInv, CoverInv, NEW r \in Requests, Goroutine(r),
           ctl[r].bg = "commit" => ctl'[r].bg # "fund"
    PROVE  TakesCovered(r)
  <1>0. /\ paid[r]["subscription"] \in Int /\ paid[r]["subscription"] >= 0
        /\ sess[r].consumed \in Nat /\ sess[r].tok \in Nat
        /\ sess'[r] = sess[r]
    BY Unpack
    DEF CoverInv, CoversRefund, Ledgers, Session, Goroutine, RefundWallet,
        RefundSub, RefundSubCommit, RefundToken
  <1>1. ASSUME ctl'[r].bg \in {"token", "end"}, Takes(r, 0) PROVE TakesCovered(r)
    BY <1>0, <1>1, CoverAtNone
  <1>2. CASE RefundWallet(r)
    <2>1. NothingMoves \/ MoveWallet(r, -sess[r].consumed)
      BY <1>2 DEF RefundWallet
    <2>2. ctl'[r].bg = "token"
      BY <1>2, BgGotoEffect DEF RefundWallet
    <2> QED BY <1>0, <1>1, <2>1, <2>2, NothingTakes
  <1>3. CASE RefundToken(r)
    <2>1. NothingMoves \/ MoveToken(r, -sess[r].tok)
      BY <1>3 DEF RefundToken
    <2>2. ctl'[r].bg = "end"
      BY <1>3, BgGotoEffect DEF RefundToken
    <2> QED BY <1>0, <1>1, <2>1, <2>2, NothingTakes
  <1>5. CASE RefundSub(r)
    <2>1. /\ ctl[r].bg = "fund" /\ sess[r].src = "subscription"
          /\ record[r] # "refunded"
      BY <1>5, Unpack DEF RefundSub, RequestOk, GoroutineOk
    <2>2. paid[r]["subscription"] >= sess[r].consumed
      BY <2>1 DEF CoverInv, CoversRefund
    <2>3. CASE MoveSub(r, -sess[r].consumed) /\ BgGoto(r, "commit")
      <3>1. -sess[r].consumed \in Int /\ Takes(r, -sess[r].consumed)
        BY <1>0, <2>3, MoveSubTakes
      <3>2. ctl'[r].bg = "commit"
        BY <2>3, BgGotoEffect
      <3>3. paid'[r]["subscription"] >= 0
        BY <1>0, <2>2, <3>1 DEF Takes
      <3> QED
        BY <1>0, <3>1, <3>2, <3>3 DEF TakesCovered, CoversRefund
    <2>4. CASE NothingMoves /\ RetryRefund(r)
      <3>1. Takes(r, 0) /\ paid'[r] = paid[r]
        BY <2>4, NothingTakes DEF NothingMoves
      <3>2. ctl'[r].bg \in {"fund", "token"}
        BY <2>4, RetryRefundEffect
      <3> QED
        BY <1>0, <2>2, <3>1, <3>2 DEF TakesCovered, CoversRefund
    <2> QED
      BY <1>5, <2>1, <2>3, <2>4 DEF RefundSub
  <1>6. CASE RefundSubCommit(r)
    <2>1. Takes(r, 0) /\ paid'[r] = paid[r]
      <3>1. NothingMoves
        BY <1>6 DEF RefundSubCommit, NothingMoves
      <3> QED BY <3>1, NothingTakes DEF NothingMoves
    <2>2. ctl[r].bg = "commit" /\ ctl'[r].bg = "token"
      BY <1>6, BgGotoEffect, RetryRefundEffect DEF RefundSubCommit
    <2> QED
      BY <1>0, <2>1, <2>2 DEF TakesCovered, CoversRefund
  <1> QED
    BY <1>2, <1>3, <1>5, <1>6 DEF Goroutine

(* The sums after request r's share has changed by n *)
LEMMA SumsAfter ==
    ASSUME NEW r \in Requests, NEW n \in Int, NEW d \in [Requests -> Int],
           NEW k \in Nat, SumsTo(d, k), d[r] + n >= 0
    PROVE  k + n \in Nat /\ SumsTo([d EXCEPT ![r] = d[r] + n], k + n)
  <1> PICK f \in [SUBSET Requests -> Nat] : Sums(f, d) /\ f[Requests] = k
    BY DEF SumsTo
  <1> DEFINE e == [d EXCEPT ![r] = d[r] + n]
             m == d[r] + n
             g == [s \in SUBSET Requests |-> IF r \in s THEN m + f[s \ {r}] ELSE f[s]]
  <1>0. m \in Nat
    OBVIOUS
  <1>1. ASSUME NEW s \in SUBSET Requests
        PROVE  /\ g[s] \in Nat
               /\ r \in s => g[s] = m + f[s \ {r}]
               /\ r \notin s => g[s] = f[s]
    <2>1. f[s] \in Nat /\ f[s \ {r}] \in Nat
      OBVIOUS
    <2> QED BY <1>0, <2>1
  <1> HIDE DEF g
  <1>2. g \in [SUBSET Requests -> Nat]
    BY <1>1 DEF g
  <1>3. ASSUME NEW s \in SUBSET Requests, NEW q \in s
        PROVE  g[s] = e[q] + g[s \ {q}]
    <2>1. /\ s \ {q} \in SUBSET Requests /\ s \ {r} \in SUBSET Requests
          /\ (s \ {q}) \ {r} = (s \ {r}) \ {q}
      OBVIOUS
    <2>2. CASE q = r
      BY <1>1, <2>1, <2>2
    <2>3. CASE q # r /\ r \in s
      <3>1. g[s] = m + f[s \ {r}]
        BY <1>1, <2>3
      <3>2. q \in s \ {r}
        BY <2>3
      <3>3. f[s \ {r}] = d[q] + f[(s \ {r}) \ {q}]
        BY <2>1, <3>2 DEF Sums
      <3>4. r \in s \ {q}
        BY <2>3
      <3>5. g[s \ {q}] = m + f[(s \ {r}) \ {q}]
        BY <1>1, <2>1, <3>4
      <3>6. e[q] = d[q] /\ d[q] \in Int
        BY <2>3
      <3>7. f[(s \ {r}) \ {q}] \in Nat
        OBVIOUS
      <3> HIDE DEF m
      <3> QED BY <1>0, <3>1, <3>3, <3>5, <3>6, <3>7
    <2>4. CASE r \notin s
      <3>1. g[s] = f[s] /\ g[s \ {q}] = f[s \ {q}]
        BY <1>1, <2>1, <2>4
      <3>2. f[s] = d[q] + f[s \ {q}]
        BY DEF Sums
      <3>3. e[q] = d[q]
        BY <2>4
      <3> QED BY <3>1, <3>2, <3>3
    <2> QED BY <2>2, <2>3, <2>4
  <1>4. Sums(g, e)
    BY <1>3 DEF Sums
  <1>5. g[Requests] = k + n
    <2>1. g[Requests] = m + f[Requests \ {r}]
      BY <1>1
    <2>2. f[Requests] = d[r] + f[Requests \ {r}]
      BY DEF Sums
    <2>3. f[Requests \ {r}] \in Nat /\ d[r] \in Int
      OBVIOUS
    <2> QED BY <2>1, <2>2, <2>3
  <1> QED BY <1>2, <1>4, <1>5 DEF SumsTo

(* A step that does not refund twice keeps the cover and the sum. *)
LEMMA UsageNext ==
    ASSUME IInv, CoverInv, UsageInv, [Next]_vars,
           \A r \in Requests : ctl[r].bg = "commit" => ctl'[r].bg # "fund"
    PROVE  CoverInv' /\ UsageInv'
  <1>0. /\ \A q \in Requests : paid[q]["subscription"] \in Int
        /\ subUsed \in Nat
    BY Unpack DEF IInv, TypeOK, Ledgers
  <1>1. CASE \E r \in Requests : Handler(r) \/ Goroutine(r)
    <2>1. PICK r \in Requests : Handler(r) \/ Goroutine(r)
      BY <1>1
    <2>2. TakesCovered(r)
      BY <2>1, PreConsumeTakes, RelayingTakes, ClosingTakes, GoroutineTakes
      DEF Handler
    <2>3. PICK n \in Int : /\ Takes(r, n)
                           /\ CoversRefund(ctl'[r], sess'[r], paid'[r]["subscription"])
      BY <2>2 DEF TakesCovered
    <2>4. ASSUME NEW q \in Requests \ {r}
          PROVE  ctl'[q] = ctl[q] /\ sess'[q] = sess[q] /\ paid'[q] = paid[q]
      BY <2>1, <2>4, OthersStay, OthersControl
    <2>5. CoverInv'
      BY <2>3, <2>4 DEF CoverInv
    <2>6. PICK k \in Nat : SumsTo(charged, k) /\ k <= subUsed
      BY DEF UsageInv
    <2>7. /\ paid'[r]["subscription"] = paid[r]["subscription"] + n
          /\ paid'[r]["subscription"] >= 0 /\ subUsed' >= subUsed + n
      BY <2>3 DEF Takes, CoversRefund
    <2>8. charged \in [Requests -> Int] /\ charged[r] + n >= 0
      BY <1>0, <2>7 DEF charged
    <2>9. charged' = [charged EXCEPT ![r] = charged[r] + n]
      BY <2>4, <2>7 DEF charged
    <2>10. k + n \in Nat /\ SumsTo(charged', k + n)
      BY <2>6, <2>8, <2>9, SumsAfter
    <2>11. k + n <= subUsed'
      <3>1. IInv'
        BY NextOk
      <3>2. subUsed' \in Nat
        BY <3>1 DEF IInv, TypeOK
      <3> QED BY <1>0, <2>6, <2>7, <3>2
    <2>12. UsageInv'
      BY <2>10, <2>11 DEF UsageInv
    <2> QED BY <2>5, <2>12
  <1>2. CASE UNCHANGED <<ctl, sess, paid, subUsed>>
    BY <1>2 DEF CoverInv, UsageInv, Sums, charged
  <1> QED
    BY <1>1, <1>2 DEF Next, SubEnds, AllFinished, vars

(* Nothing is taken and nothing used at the start. *)
LEMMA UsageInit == Init => CoverInv /\ UsageInv
  <1> SUFFICES ASSUME Init PROVE CoverInv /\ UsageInv
    OBVIOUS
  <1>1. CoverInv
    <2> SUFFICES ASSUME NEW r \in Requests
                 PROVE  CoversRefund(ctl[r], sess[r], paid[r]["subscription"])
      BY DEF CoverInv
    <2>1. ctl[r].bg = "none" /\ paid[r]["subscription"] = 0
      BY DEF Init, Ledgers
    <2> QED BY <2>1 DEF CoversRefund
  <1>2. UsageInv
    <2> DEFINE f == [s \in SUBSET Requests |-> 0]
    <2>1. f \in [SUBSET Requests -> Nat] /\ f[Requests] = 0
      OBVIOUS
    <2>2. ASSUME NEW s \in SUBSET Requests, NEW r \in s
          PROVE  f[s] = paid[r]["subscription"] + f[s \ {r}]
      BY DEF Init, Ledgers
    <2> HIDE DEF f
    <2>3. SumsTo(charged, 0)
      BY <2>1, <2>2 DEF SumsTo, Sums, charged
    <2>4. 0 <= subUsed
      BY DEF Init
    <2> QED BY <2>3, <2>4 DEF UsageInv
  <1> QED BY <1>1, <1>2

(* What a settled request used stays on the subscription, whatever holds,  *)
(* settlements, refunds and failures of other requests do, as long as no   *)
(* refund is tried again after its inner transaction committed             *)
(* (RefundSubscriptionPreConsume).                                         *)
THEOREM SettledUsageIsKept == Spec /\ NoHalfRefund => []SettledUsageStays
  <1>1. IInv /\ CoverInv /\ UsageInv => SettledUsageStays
    <2> SUFFICES ASSUME IInv, CoverInv, UsageInv, NEW r \in Requests
                 PROVE  subUsed >= paid[r]["subscription"]
      BY DEF SettledUsageStays
    <2>1. PICK f \in [SUBSET Requests -> Nat] : Sums(f, charged) /\ f[Requests] <= subUsed
      BY DEF UsageInv, SumsTo
    <2>2. f[Requests] = paid[r]["subscription"] + f[Requests \ {r}]
      BY <2>1 DEF Sums, charged
    <2>3. /\ f[Requests] \in Nat /\ f[Requests \ {r}] \in Nat /\ subUsed \in Nat
          /\ paid[r]["subscription"] \in Int
      BY Unpack DEF IInv, TypeOK, Ledgers
    <2> QED BY <2>1, <2>2, <2>3
  <1> DEFINE Once == \A r \in Requests : ctl[r].bg = "commit" => ctl'[r].bg # "fund"
  <1>2. IInv /\ CoverInv /\ UsageInv /\ [Next]_vars /\ [Once]_vars => (CoverInv /\ UsageInv)'
    <2>1. CASE UNCHANGED vars
      BY <2>1 DEF vars, CoverInv, UsageInv, Sums, charged
    <2>2. CASE Once
      BY <2>2, UsageNext
    <2> QED BY <2>1, <2>2
  <1>3. NoHalfRefund <=> [][Once]_vars
    BY DEF NoHalfRefund
  <1> HIDE DEF Once
  <1> QED
    BY <1>1, <1>2, <1>3, UsageInit, Inductive, PTL DEF Spec

=============================================================================
