--------------------------- MODULE PagesProofs ----------------------------
(***************************************************************************)
(* The three pages of the browser, for any number of visits, attempts,     *)
(* files, charges and run ids.  A handler of an earlier visit is known by  *)
(* the turn it began in: what it will write is guarded by that turn, and   *)
(* what is on screen was written in this one.                              *)
(***************************************************************************)
EXTENDS Pages, SequenceTheorems, FiniteSetTheorems, TLAPS

(* The payment page (servicing/[loanId]).                                  *)

(* What a visit's handler is doing. *)
Act ==
    {Idle}
    \cup [pc : {"sent"}, op : {"pay"}, body : Body]
    \cup [pc : {"sent"}, op : {"waive"}, body : {Nil}]
    \cup [pc : {"sent"}, op : {"adjust"}, body : {Nil}, quote : Nat]
    \cup [pc : {"answered"}, op : {"pay"}, body : Body,
          got : {"captured", "unapplied", "error"}, since : Nat]
    \cup [pc : {"answered"}, op : {"adjust", "waive"}, body : {Nil},
          got : {"done", "conflict", "error"}, since : Nat]
    \cup [pc : {"refresh"}, op : {"captured", "done", "conflict"}, since : Nat]

ShownBalance == [visit : Visits, read : Nat]
Attempt == [body : Body, state : {"unresolved", "captured", "resolved"}]
Texts == {"none", "paid", "contact", "failed", "done", "review", "reload"}
Notice == [text : Texts, visit : {0} \cup Visits, since : Nat]
Load == [pc : {"idle", "get", "done"}, since : Nat]

ScreenTypeOK ==
    /\ route \in Seq(Loans) /\ visit \in Visits
    /\ balance \in ShownBalance \cup {Nil}
    /\ last \in Attempt \cup {Nil}
    /\ busy \in BOOLEAN
    /\ notice \in Notice
    /\ act \in [Visits -> Act]
    /\ mount \in [Visits -> Load]

BankTypeOK ==
    /\ wire \in SUBSET Body
    /\ charge \in [PayKeys -> {"none", "captured", "unapplied"}]
    /\ moves \in [Loans -> Nat]
    /\ charged \in [PayKeys -> Nat]
    /\ minted \in [PayKeys -> {0} \cup Visits]
    /\ settled \in SUBSET PayKeys /\ lapsed \in SUBSET PayKeys

Paying(v) == act[v].pc \in {"sent", "answered"} /\ act[v].op = "pay"

(* A key is charged only once it has been minted, twice only once it has   *)
(* lapsed.                                                                 *)
ChargedByRecord ==
    \A k \in PayKeys :
        /\ charge[k] = "none" => charged[k] = 0
        /\ charge[k] # "none" => minted[k] # 0
        /\ charged[k] > 0 => charge[k] # "none"
        /\ charged[k] > 1 => k \in lapsed

(* Whatever is on its way carries a minted key.                            *)
SentIsMinted ==
    /\ \A v \in Visits : Paying(v) => minted[act[v].body.key] # 0
    /\ \A b \in wire : minted[b.key] # 0

(* Of this visit's keys only that of lastPayment can be unresolved, and    *)
(* the charge under way is lastPayment's.                                  *)
OneOpenIntent ==
    /\ \A k \in PayKeys : minted[k] <= visit
    /\ \A k \in PayKeys : minted[k] = visit /\ k \notin settled
           => last # Nil /\ last.body.key = k
    /\ last # Nil => /\ minted[last.body.key] = visit
                     /\ last.state = "resolved" => last.body.key \in settled
    /\ Paying(visit) => last # Nil /\ last.body = act[visit].body
    /\ \A j, k \in PayKeys : j # k /\ minted[j] # 0 /\ minted[j] = minted[k]
           => j \in settled \/ k \in settled

(* One handler at a time, of a page that has loaded.                       *)
OneHandler ==
    /\ \A v \in Visits : v > visit => act[v] = Idle
    /\ act[visit] # Idle => busy /\ balance # Nil /\ notice.text # "review"
    /\ balance = Nil => notice.text # "review"
    /\ balance # Nil => mount[visit].pc # "get"

PayPageInv ==
    /\ ScreenTypeOK /\ BankTypeOK
    /\ ChargedByRecord /\ SentIsMinted /\ OneOpenIntent
    /\ OneHandler /\ ScreenIsOfThisVisit

-----------------------------------------------------------------------------
(* What the shape of a handler's state says *)

(* What an act may be, at each of its statements.                          *)
LEMMA ActShape ==
  ASSUME NEW a \in Act
  PROVE  /\ a.pc \in {"idle", "sent", "answered", "refresh"}
         /\ a.pc = "idle" => a = Idle
         /\ a.pc \in {"sent", "answered"} =>
              \/ a.op = "pay" /\ a.body \in Body
              \/ a.op \in {"adjust", "waive"} /\ a.body = Nil
         /\ a.pc = "answered" => a.since \in Nat
         /\ a.pc = "answered" /\ a.op = "pay" => a.got \in {"captured", "unapplied", "error"}
         /\ a.pc = "answered" /\ a.op # "pay" => a.got \in {"done", "conflict", "error"}
         /\ a.pc = "refresh" => a.op \in {"captured", "done", "conflict"} /\ a.since \in Nat
<1>1. CASE a = Idle
  BY <1>1 DEF Idle
<1>2. CASE a \in [pc : {"sent"}, op : {"pay"}, body : Body]
  BY <1>2
<1>3. CASE a \in [pc : {"sent"}, op : {"waive"}, body : {Nil}]
  BY <1>3
<1>4. CASE a \in [pc : {"sent"}, op : {"adjust"}, body : {Nil}, quote : Nat]
  BY <1>4
<1>5. CASE a \in [pc : {"answered"}, op : {"pay"}, body : Body,
                  got : {"captured", "unapplied", "error"}, since : Nat]
  BY <1>5
<1>6. CASE a \in [pc : {"answered"}, op : {"adjust", "waive"}, body : {Nil},
                  got : {"done", "conflict", "error"}, since : Nat]
  BY <1>6
<1>7. CASE a \in [pc : {"refresh"}, op : {"captured", "done", "conflict"}, since : Nat]
  BY <1>7
<1> QED BY <1>1, <1>2, <1>3, <1>4, <1>5, <1>6, <1>7 DEF Act

(* An act that is answered is an act.                                      *)
LEMMA AnsweredIsAct ==
  ASSUME NEW a \in Act, a.pc \in {"sent", "answered"}, NEW n \in Nat, NEW got,
         \/ a.op = "pay" /\ got \in {"captured", "unapplied", "error"}
         \/ a.op # "pay" /\ got \in {"done", "conflict", "error"}
  PROVE  [pc |-> "answered", op |-> a.op, body |-> a.body, got |-> got, since |-> n] \in Act
<1>1. \/ a.op = "pay" /\ a.body \in Body
      \/ a.op \in {"adjust", "waive"} /\ a.body = Nil
  BY ActShape
<1>2. CASE a.op = "pay"
  <2>1. a.body \in Body /\ got \in {"captured", "unapplied", "error"}
    BY <1>1, <1>2
  <2> QED BY <1>2, <2>1 DEF Act
<1>3. CASE a.op # "pay"
  <2>1. a.op \in {"adjust", "waive"} /\ a.body = Nil /\ got \in {"done", "conflict", "error"}
    BY <1>1, <1>3
  <2> QED BY <2>1 DEF Act
<1> QED BY <1>2, <1>3

(* And so is one that is over.                                             *)
LEMMA IdleIsAct == Idle \in Act
BY DEF Act

-----------------------------------------------------------------------------
(* Types *)

(* The page is shown with nothing under way (PayPageInit).                 *)
LEMMA PayPageStarts == PayPageInit => PayPageInv
<1> SUFFICES ASSUME PayPageInit PROVE PayPageInv
  OBVIOUS
<1>1. PICK l \in Loans : route = <<l>>
  BY DEF PayPageInit
<1>2. route \in Seq(Loans) /\ visit = 1 /\ 1 \in Visits
  BY <1>1, PayPageAssumption DEF visit, Visits
<1>3. Quiet \in Notice /\ Quiet.visit = 0 /\ Quiet.text # "review"
  BY DEF Quiet, Notice, Texts
<1>4. act \in [Visits -> Act] /\ \A v \in Visits : act[v] = Idle
  BY IdleIsAct DEF PayPageInit
<1>5. mount \in [Visits -> Load]
  BY DEF PayPageInit, Load
<1>6. ScreenTypeOK
  BY <1>2, <1>3, <1>4, <1>5 DEF PayPageInit, ScreenTypeOK
<1>7. BankTypeOK
  BY DEF PayPageInit, BankTypeOK
<1>8. Idle.pc = "idle"
  BY DEF Idle
<1>9. ChargedByRecord /\ SentIsMinted
  BY <1>4, <1>8 DEF PayPageInit, ChargedByRecord, SentIsMinted, Paying
<1>10. OneOpenIntent
  BY <1>2, <1>4, <1>8 DEF PayPageInit, OneOpenIntent, Paying, Visits
<1>11. OneHandler /\ ScreenIsOfThisVisit
  BY <1>2, <1>3, <1>4 DEF PayPageInit, OneHandler, ScreenIsOfThisVisit
<1> QED BY <1>6, <1>7, <1>9, <1>10, <1>11 DEF PayPageInv

(* A handler that runs belongs to a visit there has been.                  *)
LEMMA HandlersVisit ==
  ASSUME ScreenTypeOK, OneHandler, NEW v \in Visits, act[v].pc # "idle"
  PROVE  v <= visit /\ route[v] \in Loans
<1>1. Idle.pc = "idle"
  BY DEF Idle
<1>2. ~ (v > visit)
  BY <1>1 DEF OneHandler
<1>3. visit \in Nat /\ route \in Seq(Loans) /\ visit = Len(route)
  BY DEF ScreenTypeOK, visit
<1> QED BY <1>2, <1>3 DEF Visits

(* The charges that payment-service makes or replays keep its types.       *)
LEMMA OutcomeTypes ==
  ASSUME BankTypeOK, NEW b \in Body, NEW got, Outcome(b, got)
  PROVE  /\ charge' \in [PayKeys -> {"none", "captured", "unapplied"}]
         /\ moves' \in [Loans -> Nat]
         /\ charged' \in [PayKeys -> Nat]
<1>1. b.key \in PayKeys /\ b.loan \in Loans
  BY DEF Body
<1>2. /\ charge \in [PayKeys -> {"none", "captured", "unapplied"}]
      /\ moves \in [Loans -> Nat] /\ charged \in [PayKeys -> Nat]
  BY DEF BankTypeOK
<1>3. CASE Charge(b, got) /\ got \in {"captured", "unapplied"}
  <2>1. moves' \in [Loans -> Nat]
    BY <1>1, <1>2, <1>3 DEF Charge, Moved
  <2>2. charge' \in [PayKeys -> {"none", "captured", "unapplied"}]
    BY <1>1, <1>2, <1>3 DEF Charge
  <2>3. charged' \in [PayKeys -> Nat]
    BY <1>1, <1>2, <1>3 DEF Charge
  <2> QED BY <2>1, <2>2, <2>3
<1>4. CASE UNCHANGED <<charge, charged, moves>>
  BY <1>2, <1>4
<1> QED BY <1>3, <1>4 DEF Outcome, Replay

(* A handler that sends keeps the page's types (Send).                     *)
LEMMA SendTypes ==
  ASSUME ScreenTypeOK, NEW a \in Act, Send(a)
  PROVE  /\ act' \in [Visits -> Act] /\ busy' \in BOOLEAN /\ notice' \in Notice
         /\ route' \in Seq(Loans) /\ visit' \in Visits
         /\ balance' \in ShownBalance \cup {Nil} /\ mount' \in [Visits -> Load]
BY DEF Send, ScreenTypeOK, Quiet, Notice, Texts, visit

(* And so does an answer to it (Answer).                                   *)
LEMMA AnswerTypes ==
  ASSUME ScreenTypeOK, OneHandler, NEW v \in Visits, act[v].pc \in {"sent", "answered"},
         moves' \in [Loans -> Nat], NEW got, Answer(v, got),
         \/ act[v].op = "pay" /\ got \in {"captured", "unapplied", "error"}
         \/ act[v].op # "pay" /\ got \in {"done", "conflict", "error"}
  PROVE  act' \in [Visits -> Act]
<1>1. act \in [Visits -> Act]
  BY DEF ScreenTypeOK
<1>2. route[v] \in Loans
  BY HandlersVisit
<1>3. PICK n \in Nat : n = moves'[route[v]]
  BY <1>2
<1>4. PICK a \in Act : a = [pc |-> "answered", op |-> act[v].op, body |-> act[v].body,
                            got |-> got, since |-> n]
  BY <1>1, AnsweredIsAct
<1>5. act' = [act EXCEPT ![v] = a]
  BY <1>3, <1>4 DEF Answer
<1> QED BY <1>1, <1>5

PayTypesOK == ScreenTypeOK /\ BankTypeOK

(* What leaves the services alone keeps their types.                       *)
LEMMA QuietBank == BankTypeOK /\ UNCHANGED <<bank, intents>> => BankTypeOK'
BY DEF BankTypeOK, bank, intents

(* What leaves the page alone keeps its types.                             *)
LEMMA QuietScreen == ScreenTypeOK /\ UNCHANGED <<screen, act, mount>> => ScreenTypeOK'
BY DEF ScreenTypeOK, screen, visit

(* A visit to a loan keeps the types (Navigate).                           *)
LEMMA NavigateTypes ==
  ASSUME PayTypesOK, NEW l \in Loans, Navigate(l) PROVE PayTypesOK'
<1>1. /\ route' = Append(route, l) /\ visit < MaxVisits
      /\ balance' = Nil /\ last' = Nil /\ busy' = FALSE /\ notice' = Quiet
      /\ mount' = [mount EXCEPT ![visit + 1] = [pc |-> "get", since |-> moves[l]]]
      /\ UNCHANGED <<act, bank, intents>>
  BY DEF Navigate
<1>2. route' \in Seq(Loans) /\ visit' = visit + 1 /\ visit' \in Visits
  BY <1>1, PayPageAssumption DEF PayTypesOK, ScreenTypeOK, visit, Visits
<1>3. Quiet \in Notice
  BY DEF Quiet, Notice, Texts
<1>4. [pc |-> "get", since |-> moves[l]] \in Load
  BY DEF PayTypesOK, BankTypeOK, Load
<1>5. mount' \in [Visits -> Load]
  BY <1>1, <1>4 DEF PayTypesOK, ScreenTypeOK
<1>6. ScreenTypeOK'
  BY <1>1, <1>2, <1>3, <1>5 DEF PayTypesOK, ScreenTypeOK
<1> QED BY <1>1, <1>6, QuietBank DEF PayTypesOK

(* And so does the loan that is read (LandLoan).                           *)
LEMMA LandLoanTypes ==
  ASSUME PayTypesOK, NEW v \in Visits, LandLoan(v) PROVE PayTypesOK'
<1>1. /\ mount' = [mount EXCEPT ![v] = [pc |-> "done", since |-> 0]]
      /\ UNCHANGED <<route, last, busy, notice, act, bank, intents>>
  BY DEF LandLoan
<1>2. [pc |-> "done", since |-> 0] \in Load
  BY DEF Load
<1>3. mount' \in [Visits -> Load]
  BY <1>1, <1>2 DEF PayTypesOK, ScreenTypeOK
<1>4. balance' \in ShownBalance \cup {Nil}
  <2>1. CASE UNCHANGED balance
    BY <2>1 DEF PayTypesOK, ScreenTypeOK
  <2>2. ASSUME Current(v), NEW n \in Read(v, mount[v].since),
               balance' = [visit |-> v, read |-> n]
        PROVE  balance' \in ShownBalance
    <3>1. mount[v].since \in Nat /\ moves[route[v]] \in Nat
      BY <2>2 DEF PayTypesOK, ScreenTypeOK, BankTypeOK, Load, Current, visit, Visits
    <3> QED BY <2>2, <3>1 DEF Read, ShownBalance
  <2> QED BY <2>1, <2>2 DEF LandLoan
<1>5. ScreenTypeOK'
  BY <1>1, <1>3, <1>4 DEF PayTypesOK, ScreenTypeOK, visit
<1> QED BY <1>1, <1>5, QuietBank DEF PayTypesOK

(* A payment that is sent keeps them (Submit).                             *)
LEMMA SubmitTypes ==
  ASSUME PayTypesOK, NEW b \in Body, Submit(b)
  PROVE  ScreenTypeOK' /\ UNCHANGED bank
<1>1. last' = [body |-> b, state |-> "unresolved"]
  BY DEF Submit
<1>2. last' \in Attempt
  BY <1>1 DEF Attempt
<1>3. PICK a \in Act : Send(a)
  <2>1. [pc |-> "sent", op |-> "pay", body |-> b] \in Act
    BY DEF Act
  <2> QED BY <2>1 DEF Submit
<1> QED BY <1>2, <1>3, SendTypes DEF PayTypesOK, ScreenTypeOK, Send

(* And so does each button of the page.                                    *)
LEMMA ButtonTypes ==
  ASSUME PayTypesOK,
         \/ \E k \in PayKeys, a \in Charges : MakePayment(k, a)
         \/ RetryPayment \/ StartNewPayment \/ AdjustBalance \/ WaiveFee
  PROVE  PayTypesOK'
<1>1. ASSUME NEW k \in PayKeys, NEW a \in Charges, MakePayment(k, a) PROVE PayTypesOK'
  <2>1. route[visit] \in Loans
    BY DEF PayTypesOK, ScreenTypeOK, visit, Visits
  <2>2. PICK b \in Body : Submit(b)
    BY <1>1, <2>1 DEF MakePayment, Body
  <2>3. ScreenTypeOK' /\ UNCHANGED bank
    BY <2>2, SubmitTypes
  <2>4. minted' \in [PayKeys -> {0} \cup Visits] /\ UNCHANGED <<settled, lapsed>>
    BY <1>1 DEF MakePayment, PayTypesOK, BankTypeOK, ScreenTypeOK
  <2> QED BY <2>3, <2>4 DEF PayTypesOK, BankTypeOK, bank
<1>2. ASSUME RetryPayment PROVE PayTypesOK'
  <2>1. last.body \in Body
    BY <1>2 DEF RetryPayment, PayTypesOK, ScreenTypeOK, Attempt
  <2>2. PICK b \in Body : Submit(b)
    BY <1>2, <2>1 DEF RetryPayment
  <2> QED BY <1>2, <2>2, SubmitTypes, QuietBank DEF RetryPayment, PayTypesOK
<1>3. ASSUME StartNewPayment PROVE PayTypesOK'
  <2>1. last.body.key \in PayKeys
    BY <1>3 DEF StartNewPayment, PayTypesOK, ScreenTypeOK, Attempt, Body
  <2>2. ScreenTypeOK'
    BY <1>3 DEF StartNewPayment, PayTypesOK, ScreenTypeOK, visit
  <2> QED BY <1>3, <2>1, <2>2 DEF StartNewPayment, PayTypesOK, BankTypeOK, bank
<1>4. ASSUME AdjustBalance PROVE PayTypesOK'
  <2>1. balance.read \in Nat
    BY <1>4 DEF AdjustBalance, Ready, PayTypesOK, ScreenTypeOK, ShownBalance
  <2>2. PICK a \in Act : Send(a)
    <3>1. [pc |-> "sent", op |-> "adjust", body |-> Nil, quote |-> balance.read] \in Act
      BY <2>1 DEF Act
    <3> QED BY <1>4, <3>1 DEF AdjustBalance
  <2>3. UNCHANGED <<last, bank, intents>>
    BY <1>4, <2>2 DEF AdjustBalance, Send
  <2> QED BY <2>2, <2>3, SendTypes, QuietBank DEF PayTypesOK, ScreenTypeOK
<1>5. ASSUME WaiveFee PROVE PayTypesOK'
  <2>1. PICK a \in Act : Send(a)
    <3>1. [pc |-> "sent", op |-> "waive", body |-> Nil] \in Act
      BY DEF Act
    <3> QED BY <1>5, <3>1 DEF WaiveFee
  <2>2. UNCHANGED <<last, bank, intents>>
    BY <1>5, <2>1 DEF WaiveFee, Send
  <2> QED BY <2>1, <2>2, SendTypes, QuietBank DEF PayTypesOK, ScreenTypeOK
<1> QED BY <1>1, <1>2, <1>3, <1>4, <1>5

(* The services' answers keep them (ServePayment, ServeAdjust,             *)
(* ServeWaiver, Lose).                                                     *)
LEMMA ServeTypes ==
  ASSUME PayTypesOK, OneHandler, NEW v \in Visits,
         ServePayment(v) \/ ServeAdjust(v) \/ ServeWaiver(v) \/ Lose(v)
  PROVE  PayTypesOK'
<1>1. act[v] \in Act /\ moves \in [Loans -> Nat]
  BY DEF PayTypesOK, ScreenTypeOK, BankTypeOK
<1>2. ASSUME ServePayment(v) PROVE PayTypesOK'
  <2>1. act[v].pc = "sent" /\ act[v].op = "pay" /\ act[v].body \in Body
    BY <1>1, <1>2, ActShape, PayPageAssumption DEF ServePayment
  <2>2. PICK got \in {"captured", "unapplied", "error"} :
            Outcome(act[v].body, got) /\ Answer(v, got)
    BY <1>2 DEF ServePayment
  <2>3. /\ charge' \in [PayKeys -> {"none", "captured", "unapplied"}]
        /\ moves' \in [Loans -> Nat]
        /\ charged' \in [PayKeys -> Nat]
    BY <2>1, <2>2, OutcomeTypes DEF PayTypesOK
  <2>4. act' \in [Visits -> Act]
    BY <2>1, <2>2, <2>3, AnswerTypes DEF PayTypesOK
  <2> QED BY <1>2, <2>3, <2>4
          DEF ServePayment, PayTypesOK, ScreenTypeOK, BankTypeOK, screen, intents, visit
<1>3. ASSUME ServeAdjust(v) PROVE PayTypesOK'
  <2>1. /\ act[v].pc = "sent" /\ act[v].op = "adjust" /\ route[v] \in Loans
        /\ UNCHANGED <<screen, mount, wire, charge, charged, intents>>
    BY <1>3, HandlersVisit DEF ServeAdjust, PayTypesOK
  <2>2. PICK got \in {"done", "conflict"} :
            Answer(v, got) /\ (Moved(route[v]) \/ UNCHANGED moves)
    BY <1>3 DEF ServeAdjust
  <2>3. moves' \in [Loans -> Nat]
    BY <1>1, <2>1, <2>2 DEF Moved
  <2>4. act' \in [Visits -> Act]
    BY <2>1, <2>2, <2>3, AnswerTypes DEF PayTypesOK
  <2> QED BY <2>1, <2>3, <2>4
          DEF PayTypesOK, ScreenTypeOK, BankTypeOK, screen, intents, visit
<1>4. ASSUME ServeWaiver(v) PROVE PayTypesOK'
  <2>1. /\ act[v].pc = "sent" /\ act[v].op = "waive" /\ Answer(v, "done")
        /\ UNCHANGED <<screen, mount, wire, charge, charged, moves, intents>>
    BY <1>4 DEF ServeWaiver
  <2>2. act' \in [Visits -> Act]
    BY <1>1, <2>1, AnswerTypes DEF PayTypesOK
  <2> QED BY <2>1, <2>2
          DEF PayTypesOK, ScreenTypeOK, BankTypeOK, screen, intents, visit
<1>5. ASSUME Lose(v) PROVE PayTypesOK'
  <2>1. /\ act[v].pc \in {"sent", "answered"} /\ Answer(v, "error")
        /\ UNCHANGED <<screen, mount, charge, charged, moves, intents>>
    BY <1>5 DEF Lose
  <2>2. act' \in [Visits -> Act]
    BY <1>1, <2>1, AnswerTypes DEF PayTypesOK
  <2>3. wire' \in SUBSET Body
    <3>1. act[v].pc = "sent" /\ act[v].op = "pay" => act[v].body \in Body
      BY <1>1, ActShape
    <3>2. wire' = wire \/ (act[v].pc = "sent" /\ act[v].op = "pay"
                             /\ wire' = wire \cup {act[v].body})
      BY <1>5 DEF Lose
    <3> QED BY <3>1, <3>2 DEF PayTypesOK, BankTypeOK
  <2> QED BY <2>1, <2>2, <2>3
          DEF PayTypesOK, ScreenTypeOK, BankTypeOK, screen, intents, visit
<1> QED BY <1>2, <1>3, <1>4, <1>5

(* And so does what happens beside the page (Arrive, Move, Lapse).         *)
LEMMA BankStepTypes ==
  ASSUME PayTypesOK,
         \/ \E b \in wire : Arrive(b)
         \/ \E l \in Loans : Move(l)
         \/ \E k \in PayKeys : Lapse(k)
  PROVE  PayTypesOK'
<1>1. ASSUME NEW b \in wire, Arrive(b) PROVE PayTypesOK'
  <2>1. b \in Body
    BY DEF PayTypesOK, BankTypeOK
  <2>2. PICK got : Outcome(b, got)
    BY <1>1 DEF Arrive
  <2>3. /\ charge' \in [PayKeys -> {"none", "captured", "unapplied"}]
        /\ moves' \in [Loans -> Nat] /\ charged' \in [PayKeys -> Nat]
    BY <2>1, <2>2, OutcomeTypes DEF PayTypesOK
  <2>4. BankTypeOK'
    BY <1>1, <2>3 DEF Arrive, PayTypesOK, BankTypeOK, intents
  <2> QED BY <1>1, <2>4, QuietScreen DEF Arrive, PayTypesOK
<1>2. ASSUME NEW l \in Loans, Move(l) PROVE PayTypesOK'
  <2>1. moves' \in [Loans -> Nat]
    BY <1>2 DEF Move, Moved, PayTypesOK, BankTypeOK
  <2>2. BankTypeOK'
    BY <1>2, <2>1 DEF Move, PayTypesOK, BankTypeOK, intents
  <2> QED BY <1>2, <2>2, QuietScreen DEF Move, PayTypesOK
<1>3. ASSUME NEW k \in PayKeys, Lapse(k) PROVE PayTypesOK'
  <2>1. BankTypeOK'
    BY <1>3 DEF Lapse, PayTypesOK, BankTypeOK, bank
  <2> QED BY <1>3, <2>1, QuietScreen DEF Lapse, PayTypesOK
<1> QED BY <1>1, <1>2, <1>3

(* A notice is one of the page's (Say).                                    *)
LEMMA SayTypes ==
  ASSUME NEW v \in Visits, NEW text \in Texts, NEW since \in Nat, Say(v, text, since)
  PROVE  notice' \in Notice
BY DEF Say, Notice

(* A handler that is resumed rests, or awaits the balance it asks for.     *)
LEMMA AwaitTypes ==
  ASSUME ScreenTypeOK, NEW v \in Visits, Await(v),
         act[v].pc = "answered", act[v].got \in {"captured", "done", "conflict"}
  PROVE  act' \in [Visits -> Act]
<1>1. act \in [Visits -> Act] /\ act[v].since \in Nat
  BY ActShape DEF ScreenTypeOK
<1>2. PICK a \in Act : a = [pc |-> "refresh", op |-> act[v].got, since |-> act[v].since]
  BY <1>1 DEF Act
<1> QED BY <1>1, <1>2 DEF Await

(* An answer that lands keeps them (PaymentLands, RepActionLands,          *)
(* RefreshLands, Drop).                                                    *)
LEMMA LandingTypes ==
  ASSUME PayTypesOK, NEW v \in Visits,
         Drop(v) \/ PaymentLands(v) \/ RepActionLands(v) \/ RefreshLands(v)
  PROVE  PayTypesOK'
<1>1. act[v] \in Act /\ act \in [Visits -> Act] /\ 0 \in Nat
  BY DEF PayTypesOK, ScreenTypeOK
<1>2. [act EXCEPT ![v] = Idle] \in [Visits -> Act]
  BY <1>1, IdleIsAct
<1>3. {"paid", "contact", "failed", "done", "review", "reload"} \subseteq Texts
  BY DEF Texts
<1>4. ASSUME Drop(v) PROVE PayTypesOK'
  <2>1. ScreenTypeOK'
    BY <1>2, <1>4 DEF Drop, PayTypesOK, ScreenTypeOK, screen, visit
  <2> QED BY <1>4, <2>1, QuietBank DEF Drop, PayTypesOK
<1>5. ASSUME PaymentLands(v) PROVE PayTypesOK'
  <2>1. /\ act[v].pc = "answered" /\ act[v].op = "pay"
        /\ UNCHANGED <<route, balance, mount, bank, minted, lapsed>>
    BY <1>5 DEF PaymentLands
  <2>2. act[v].body \in Body
    BY <1>1, <2>1, ActShape, PayPageAssumption
  <2>3. act[v].body.key \in PayKeys
    BY <2>2 DEF Body
  <2>4. CASE act[v].got = "captured"
    <3>1. /\ last' = [body |-> act[v].body, state |-> "resolved"]
          /\ settled' = settled \cup {act[v].body.key}
          /\ Say(v, "paid", 0) /\ Await(v) /\ UNCHANGED busy
      BY <1>5, <2>4 DEF PaymentLands
    <3>2. last' \in Attempt
      BY <2>2, <3>1 DEF Attempt
    <3>3. notice' \in Notice
      BY <1>1, <1>3, <3>1, SayTypes
    <3>4. act' \in [Visits -> Act]
      BY <2>1, <2>4, <3>1, AwaitTypes DEF PayTypesOK
    <3>5. ScreenTypeOK'
      BY <2>1, <3>1, <3>2, <3>3, <3>4 DEF PayTypesOK, ScreenTypeOK, visit
    <3>6. BankTypeOK'
      BY <2>1, <2>3, <3>1 DEF PayTypesOK, BankTypeOK, bank
    <3> QED BY <3>5, <3>6 DEF PayTypesOK
  <2>5. CASE act[v].got = "unapplied"
    <3>1. /\ last' = [body |-> act[v].body, state |-> "captured"]
          /\ Finish(v, "contact", 0) /\ UNCHANGED settled
      BY <1>5, <2>5 DEF PaymentLands
    <3>2. last' \in Attempt
      BY <2>2, <3>1 DEF Attempt
    <3>3. notice' \in Notice
      BY <1>1, <1>3, <3>1, SayTypes DEF Finish
    <3>4. ScreenTypeOK'
      BY <1>2, <2>1, <3>1, <3>2, <3>3 DEF PayTypesOK, ScreenTypeOK, Finish, visit
    <3> QED BY <2>1, <3>1, <3>4, QuietBank DEF PayTypesOK, intents
  <2>6. CASE act[v].got = "error"
    <3>1. Finish(v, "failed", 0) /\ UNCHANGED <<last, settled>>
      BY <1>5, <2>6 DEF PaymentLands
    <3>2. notice' \in Notice
      BY <1>1, <1>3, <3>1, SayTypes DEF Finish
    <3>3. ScreenTypeOK'
      BY <1>2, <2>1, <3>1, <3>2 DEF PayTypesOK, ScreenTypeOK, Finish, visit
    <3> QED BY <2>1, <3>1, <3>3, QuietBank DEF PayTypesOK, intents
  <2> QED BY <1>5, <2>4, <2>5, <2>6 DEF PaymentLands
<1>6. ASSUME RepActionLands(v) PROVE PayTypesOK'
  <2>1. /\ act[v].pc = "answered"
        /\ UNCHANGED <<route, balance, last, mount, bank, intents>>
    BY <1>6 DEF RepActionLands
  <2>2. \/ act[v].got = "done" /\ Say(v, "done", 0) /\ Await(v) /\ UNCHANGED busy
        \/ act[v].got = "conflict" /\ Await(v) /\ UNCHANGED <<busy, notice>>
        \/ Finish(v, "failed", 0)
    BY <1>6 DEF RepActionLands
  <2>3. act' \in [Visits -> Act] /\ busy' \in BOOLEAN /\ notice' \in Notice
    BY <1>1, <1>2, <1>3, <2>1, <2>2, AwaitTypes, SayTypes
       DEF PayTypesOK, ScreenTypeOK, Finish
  <2>4. ScreenTypeOK'
    BY <2>1, <2>3 DEF PayTypesOK, ScreenTypeOK, visit
  <2> QED BY <2>1, <2>4, QuietBank DEF PayTypesOK
<1>7. ASSUME RefreshLands(v) PROVE PayTypesOK'
  <2>1. /\ act[v].pc = "refresh" /\ Current(v)
        /\ busy' = FALSE /\ act' = [act EXCEPT ![v] = Idle]
        /\ UNCHANGED <<route, last, mount, bank, intents>>
    BY <1>7 DEF RefreshLands
  <2>2. act[v].since \in Nat /\ moves[route[v]] \in Nat
    BY <1>1, <2>1, ActShape
       DEF PayTypesOK, ScreenTypeOK, BankTypeOK, Current, visit, Visits
  <2>3. PICK read \in Read(v, act[v].since) \cup {Nil} :
          /\ balance' = IF read = Nil THEN balance ELSE [visit |-> v, read |-> read]
          /\ IF act[v].op = "conflict"
             THEN Say(v, ConflictText(read), act[v].since)
             ELSE UNCHANGED notice
    BY <1>7 DEF RefreshLands
  <2>4. balance' \in ShownBalance \cup {Nil}
    <3>1. CASE read = Nil
      BY <2>3, <3>1 DEF PayTypesOK, ScreenTypeOK
    <3>2. CASE read # Nil
      <4>1. read \in Nat
        BY <2>2, <2>3, <3>2 DEF Read
      <4> QED BY <2>3, <3>2, <4>1 DEF ShownBalance
    <3> QED BY <3>1, <3>2
  <2>5. notice' \in Notice
    <3>1. ConflictText(read) \in Texts
      BY DEF ConflictText, Texts
    <3> QED BY <2>2, <2>3, <3>1, SayTypes DEF PayTypesOK, ScreenTypeOK
  <2>6. ScreenTypeOK'
    BY <1>2, <2>1, <2>4, <2>5 DEF PayTypesOK, ScreenTypeOK, visit
  <2> QED BY <2>1, <2>6, QuietBank DEF PayTypesOK
<1> QED BY <1>4, <1>5, <1>6, <1>7

(* So every step of the page does (PayPageNext).                           *)
LEMMA PayTypesStep ==
  PayTypesOK /\ OneHandler /\ [PayPageNext]_payPageVars => PayTypesOK'
<1> SUFFICES ASSUME PayTypesOK, OneHandler, [PayPageNext]_payPageVars PROVE PayTypesOK'
  OBVIOUS
<1>1. CASE UNCHANGED payPageVars
  BY <1>1, QuietBank, QuietScreen DEF payPageVars, PayTypesOK
<1>2. CASE PayPageNext
  BY <1>2, NavigateTypes, LandLoanTypes, ButtonTypes, ServeTypes, BankStepTypes,
     LandingTypes DEF PayPageNext
<1> QED BY <1>1, <1>2

-----------------------------------------------------------------------------
(* The money: steps that change neither a key nor what is sent, then those *)
(* that do *)

IntentsInv == ChargedByRecord /\ SentIsMinted /\ OneOpenIntent

(* An outcome is told of the key it was asked with, and charges it once    *)
(* (Outcome).                                                              *)
LEMMA OutcomeStep ==
  ASSUME BankTypeOK, ChargedByRecord, NEW b \in Body, minted[b.key] # 0, NEW got,
         Outcome(b, got), UNCHANGED <<minted, lapsed>>
  PROVE  ChargedByRecord'
<1>1. b.key \in PayKeys
  BY DEF Body
<1>2. /\ charge \in [PayKeys -> {"none", "captured", "unapplied"}]
      /\ charged \in [PayKeys -> Nat]
  BY DEF BankTypeOK
<1>3. CASE UNCHANGED <<charge, charged>>
  BY <1>3 DEF ChargedByRecord
<1>4. CASE Charge(b, got) /\ got \in {"captured", "unapplied"}
  <2>1. /\ charged' = [charged EXCEPT ![b.key] = charged[b.key] + 1]
        /\ charge' = [charge EXCEPT ![b.key] = got]
        /\ \/ charge[b.key] = "none"
           \/ b.key \in lapsed
    BY <1>4 DEF Charge
  <2>2. ASSUME NEW k \in PayKeys
        PROVE  /\ charge'[k] = "none" => charged'[k] = 0
               /\ charge'[k] # "none" => minted[k] # 0
               /\ charged'[k] > 0 => charge'[k] # "none"
               /\ charged'[k] > 1 => k \in lapsed
    <3>1. CASE k = b.key
      BY <1>1, <1>2, <1>4, <2>1, <3>1 DEF ChargedByRecord
    <3>2. CASE k # b.key
      BY <1>1, <1>2, <2>1, <3>2 DEF ChargedByRecord
    <3> QED BY <3>1, <3>2
  <2> QED BY <2>2 DEF ChargedByRecord
<1> QED BY <1>3, <1>4 DEF Outcome, Replay

Finishes(v) == act' = [act EXCEPT ![v] = Idle]

(* What a handler sends on is what it was given: no other body gets out.   *)
LEMMA KeptBodies ==
  ASSUME PayTypesOK, SentIsMinted, OneOpenIntent, UNCHANGED <<route, last, minted, settled>>,
         \A u \in Visits : Paying(u)' => Paying(u) /\ act'[u].body = act[u].body,
         \A b \in wire' : b \in wire \/ \E u \in Visits : Paying(u) /\ b = act[u].body
  PROVE  SentIsMinted' /\ OneOpenIntent'
<1>1. SentIsMinted'
  BY DEF SentIsMinted
<1>2. visit' = visit /\ visit \in Visits
  BY DEF visit, PayTypesOK, ScreenTypeOK
<1>3. Paying(visit)' => last # Nil /\ last.body = act'[visit].body
  BY <1>2 DEF OneOpenIntent
<1>4. OneOpenIntent'
  BY <1>2, <1>3 DEF OneOpenIntent
<1> QED BY <1>1, <1>4

(* The same for an answer: its body is that of the call it is made to.     *)
LEMMA AnswerKeeps ==
  ASSUME PayTypesOK, NEW v \in Visits, act[v].pc \in {"sent", "answered"}, NEW got,
         Answer(v, got)
  PROVE  \A u \in Visits : Paying(u)' => Paying(u) /\ act'[u].body = act[u].body
<1>1. act \in [Visits -> Act]
  BY DEF PayTypesOK, ScreenTypeOK
<1>2. \A u \in Visits : u # v => act'[u] = act[u]
  BY <1>1 DEF Answer
<1>3. act'[v].op = act[v].op /\ act'[v].body = act[v].body
  BY <1>1 DEF Answer
<1> QED BY <1>2, <1>3 DEF Paying

(* A visit forgets no intent that may still be charged (Navigate).         *)
LEMMA NavigateIntents ==
  ASSUME PayTypesOK, OneHandler, IntentsInv, NEW l \in Loans, Navigate(l)
  PROVE  IntentsInv'
<1>1. /\ route' = Append(route, l) /\ visit < MaxVisits /\ last' = Nil
      /\ UNCHANGED <<act, bank, intents>>
  BY DEF Navigate
<1>2. visit' = visit + 1 /\ visit \in Nat /\ visit' \in Visits
  BY <1>1, PayPageAssumption DEF PayTypesOK, ScreenTypeOK, visit, Visits
<1>3. ChargedByRecord' /\ SentIsMinted'
  BY <1>1 DEF IntentsInv, ChargedByRecord, SentIsMinted, Paying, bank, intents
<1>4. \A k \in PayKeys : minted[k] \in Nat /\ minted[k] < visit'
  BY <1>2 DEF PayTypesOK, BankTypeOK, IntentsInv, OneOpenIntent, Visits
<1>5. act'[visit + 1].pc = "idle"
  <2>1. visit + 1 \in Visits /\ visit + 1 > visit
    BY <1>2
  <2> QED BY <1>1, <2>1 DEF OneHandler, Idle
<1>6. OneOpenIntent'
  <2>1. \A k \in PayKeys : minted'[k] <= visit' /\ minted'[k] # visit'
    BY <1>1, <1>2, <1>4 DEF intents
  <2>2. \A j, k \in PayKeys : j # k /\ minted'[j] # 0 /\ minted'[j] = minted'[k]
           => j \in settled' \/ k \in settled'
    BY <1>1 DEF intents, IntentsInv, OneOpenIntent
  <2> QED BY <1>1, <1>2, <1>5, <2>1, <2>2 DEF OneOpenIntent, Paying
<1> QED BY <1>3, <1>6 DEF IntentsInv

(* What a button sends is what lastPayment then holds, and nothing else is *)
(* under way on this visit.                                                *)
LEMMA SendKeeps ==
  ASSUME PayTypesOK, NEW a, Send(a)
  PROVE  /\ visit' = visit /\ visit \in Visits
         /\ act'[visit] = a
         /\ \A u \in Visits : u # visit => act'[u] = act[u]
BY DEF PayTypesOK, ScreenTypeOK, Send, visit

(* A submission is of the open intent (Submit).                            *)
LEMMA SubmitIntents ==
  ASSUME PayTypesOK, IntentsInv, NEW b \in Body, Submit(b), UNCHANGED <<settled, lapsed>>,
         minted' \in [PayKeys -> {0} \cup Visits],
         minted'[b.key] = visit,
         \A k \in PayKeys : k # b.key => minted'[k] = minted[k],
         minted[b.key] \in {0, visit},
         \A k \in PayKeys : k # b.key /\ minted[k] = visit => k \in settled
  PROVE  IntentsInv'
<1>1. /\ last' = [body |-> b, state |-> "unresolved"]
      /\ UNCHANGED bank
  BY DEF Submit, Send
<1>2. /\ visit' = visit /\ visit \in Visits
      /\ act'[visit] = [pc |-> "sent", op |-> "pay", body |-> b]
      /\ \A u \in Visits : u # visit => act'[u] = act[u]
  BY SendKeeps DEF Submit
<1>3. b.key \in PayKeys /\ visit # 0 /\ visit \in Nat
  BY <1>2 DEF Body, Visits
<1>4. \A k \in PayKeys : minted[k] # 0 => minted'[k] # 0
  BY <1>3
<1>5. ChargedByRecord'
  BY <1>1, <1>4 DEF IntentsInv, ChargedByRecord, bank
<1>6. SentIsMinted'
  <2>1. ASSUME NEW u \in Visits, Paying(u)' PROVE minted'[act'[u].body.key] # 0
    <3>1. CASE u = visit
      BY <1>2, <1>3, <3>1
    <3>2. CASE u # visit
      <4>1. Paying(u) /\ act'[u].body = act[u].body
        BY <1>2, <2>1, <3>2 DEF Paying
      <4>2. act[u].body \in Body
        BY <4>1, ActShape, PayPageAssumption DEF Paying, PayTypesOK, ScreenTypeOK
      <4> QED BY <1>4, <4>1, <4>2 DEF IntentsInv, SentIsMinted, Body
    <3> QED BY <3>1, <3>2
  <2>2. ASSUME NEW c \in wire' PROVE minted'[c.key] # 0
    BY <1>1, <1>4 DEF IntentsInv, SentIsMinted, bank, PayTypesOK, BankTypeOK, Body
  <2> QED BY <2>1, <2>2 DEF SentIsMinted
<1>7. OneOpenIntent'
  <2>1. last' # Nil /\ last'.body = b
    <3>1. last' \in Attempt
      BY <1>1 DEF Attempt
    <3> QED BY <1>1, <3>1, PayPageAssumption DEF Attempt
  <2>2. \A k \in PayKeys : minted'[k] <= visit
    BY <1>2, <1>3 DEF IntentsInv, OneOpenIntent
  <2>3. \A k \in PayKeys : minted'[k] = visit /\ k \notin settled => b.key = k
    OBVIOUS
  <2>4. last'.state # "resolved"
    BY <1>1
  <2>5. ASSUME NEW j \in PayKeys, NEW k \in PayKeys, j # k, minted'[j] # 0,
               minted'[j] = minted'[k]
        PROVE  j \in settled \/ k \in settled
    <3>1. CASE j # b.key /\ k # b.key
      BY <2>5, <3>1 DEF IntentsInv, OneOpenIntent
    <3>2. CASE j = b.key
      BY <2>5, <3>2
    <3>3. CASE k = b.key
      BY <2>5, <3>3
    <3> QED BY <3>1, <3>2, <3>3
  <2>6. act'[visit].body = b
    BY <1>2
  <2> QED BY <1>2, <2>1, <2>2, <2>3, <2>4, <2>5, <2>6 DEF OneOpenIntent
<1> QED BY <1>5, <1>6, <1>7 DEF IntentsInv

(* What leaves keys and charges alone keeps the intents.                   *)
LEMMA QuietIntents ==
  IntentsInv /\ UNCHANGED <<route, last, act, bank, intents>> => IntentsInv'
BY DEF IntentsInv, ChargedByRecord, SentIsMinted, OneOpenIntent, Paying, visit, bank, intents

(* A button opens an intent only when none is in doubt (MakePayment,       *)
(* StartNewPayment).                                                       *)
LEMMA ButtonIntents ==
  ASSUME PayTypesOK, PayTypesOK', OneHandler, IntentsInv,
         \/ \E k \in PayKeys, a \in Charges : MakePayment(k, a)
         \/ RetryPayment \/ StartNewPayment \/ AdjustBalance \/ WaiveFee
  PROVE  IntentsInv'
<1>1. ASSUME NEW k \in PayKeys, NEW a \in Charges, MakePayment(k, a) PROVE IntentsInv'
  <2>1. visit \in Visits /\ visit # 0 /\ route[visit] \in Loans
    BY DEF PayTypesOK, ScreenTypeOK, visit, Visits
  <2>2. PICK b \in Body : b.key = k /\ Submit(b)
    BY <1>1, <2>1 DEF MakePayment, Body
  <2>3. /\ minted' = [minted EXCEPT ![k] = visit] /\ minted[k] = 0
        /\ UNCHANGED <<settled, lapsed>>
    BY <1>1 DEF MakePayment
  <2>4. minted' \in [PayKeys -> {0} \cup Visits] /\ minted \in [PayKeys -> {0} \cup Visits]
    BY DEF PayTypesOK, BankTypeOK
  <2>5. minted'[k] = visit /\ \A j \in PayKeys : j # k => minted'[j] = minted[j]
    BY <2>3, <2>4
  <2>6. ASSUME NEW j \in PayKeys, minted[j] = visit PROVE j \in settled
    <3>1. ~ (last # Nil /\ last.state # "resolved")
      BY <1>1 DEF MakePayment, BlocksNewIntent
    <3> QED BY <2>6, <3>1 DEF IntentsInv, OneOpenIntent
  <2> QED BY <2>2, <2>3, <2>4, <2>5, <2>6, SubmitIntents
<1>2. ASSUME RetryPayment PROVE IntentsInv'
  <2>1. last # Nil /\ last.body \in Body /\ minted[last.body.key] = visit
    BY <1>2 DEF RetryPayment, PayTypesOK, ScreenTypeOK, Attempt, IntentsInv, OneOpenIntent
  <2>2. PICK b \in Body : b = last.body /\ Submit(b)
    BY <1>2, <2>1 DEF RetryPayment
  <2>3. \A k \in PayKeys : k # b.key /\ minted[k] = visit => k \in settled
    BY <2>1, <2>2 DEF IntentsInv, OneOpenIntent
  <2>4. UNCHANGED <<minted, settled, lapsed>>
    BY <1>2 DEF RetryPayment, intents
  <2> QED BY <2>1, <2>2, <2>3, <2>4, SubmitIntents DEF PayTypesOK, BankTypeOK
<1>3. ASSUME StartNewPayment PROVE IntentsInv'
  <2>1. /\ last # Nil /\ ~ busy /\ last' = Nil
        /\ settled' = settled \cup {last.body.key}
        /\ UNCHANGED <<route, act, bank, minted, lapsed>>
    BY <1>3 DEF StartNewPayment, Ready
  <2>2. visit' = visit
    BY <2>1 DEF visit
  <2>3. act[visit].pc = "idle"
    BY <2>1 DEF OneHandler, Idle
  <2>4. ChargedByRecord' /\ SentIsMinted'
    BY <2>1 DEF IntentsInv, ChargedByRecord, SentIsMinted, Paying, bank
  <2>5. \A k \in PayKeys : minted[k] = visit => k \in settled'
    BY <2>1 DEF IntentsInv, OneOpenIntent
  <2>6. OneOpenIntent'
    BY <2>1, <2>2, <2>3, <2>5 DEF IntentsInv, OneOpenIntent, Paying
  <2> QED BY <2>4, <2>6 DEF IntentsInv
<1>4. ASSUME AdjustBalance \/ WaiveFee PROVE IntentsInv'
  <2>1. PICK a : Send(a) /\ a.op # "pay"
    BY <1>4 DEF AdjustBalance, WaiveFee
  <2>2. UNCHANGED <<route, last, bank, minted, settled, lapsed>>
    BY <1>4, <2>1 DEF AdjustBalance, WaiveFee, Send, intents
  <2>3. \A u \in Visits : Paying(u)' => Paying(u) /\ act'[u].body = act[u].body
    BY <2>1, SendKeeps DEF Paying
  <2>4. SentIsMinted' /\ OneOpenIntent'
    BY <2>2, <2>3, KeptBodies DEF IntentsInv, bank
  <2>5. ChargedByRecord'
    BY <2>2 DEF IntentsInv, ChargedByRecord, bank
  <2> QED BY <2>4, <2>5 DEF IntentsInv
<1> QED BY <1>1, <1>2, <1>3, <1>4

(* What the services do for a payment is of its intent (ServePayment).     *)
LEMMA ServeIntents ==
  ASSUME PayTypesOK, IntentsInv, NEW v \in Visits,
         ServePayment(v) \/ ServeAdjust(v) \/ ServeWaiver(v) \/ Lose(v)
  PROVE  IntentsInv'
<1>1. /\ act[v].pc \in {"sent", "answered"} /\ \E got : Answer(v, got)
      /\ UNCHANGED <<route, last, minted, settled, lapsed>>
  BY DEF ServePayment, ServeAdjust, ServeWaiver, Lose, screen, intents
<1>2. \A u \in Visits : Paying(u)' => Paying(u) /\ act'[u].body = act[u].body
  BY <1>1, AnswerKeeps
<1>3. \A b \in wire' : b \in wire \/ \E u \in Visits : Paying(u) /\ b = act[u].body
  <2>1. CASE Lose(v)
    <3>1. wire' = wire \/ (act[v].pc = "sent" /\ act[v].op = "pay"
                             /\ wire' = wire \cup {act[v].body})
      BY <2>1 DEF Lose
    <3>2. act[v].pc = "sent" /\ act[v].op = "pay" => Paying(v)
      BY DEF Paying
    <3> QED BY <3>1, <3>2
  <2>2. CASE UNCHANGED wire
    BY <2>2
  <2> QED BY <2>1, <2>2 DEF ServePayment, ServeAdjust, ServeWaiver
<1>4. SentIsMinted' /\ OneOpenIntent'
  BY <1>1, <1>2, <1>3, KeptBodies DEF IntentsInv
<1>5. ChargedByRecord'
  <2>1. CASE ServePayment(v)
    <3>1. act[v] \in Act /\ Paying(v)
      BY <2>1 DEF ServePayment, Paying, PayTypesOK, ScreenTypeOK
    <3>2. act[v].body \in Body
      BY <3>1, ActShape, PayPageAssumption DEF Paying
    <3>3. minted[act[v].body.key] # 0
      BY <3>1 DEF IntentsInv, SentIsMinted
    <3>4. PICK got : Outcome(act[v].body, got)
      BY <2>1 DEF ServePayment
    <3> QED BY <1>1, <3>2, <3>3, <3>4, OutcomeStep DEF PayTypesOK, IntentsInv
  <2>2. CASE UNCHANGED <<charge, charged>>
    BY <1>1, <2>2 DEF IntentsInv, ChargedByRecord
  <2> QED BY <2>1, <2>2 DEF ServeAdjust, ServeWaiver, Lose
<1> QED BY <1>4, <1>5 DEF IntentsInv

(* And so is what reaches them late (Arrive).                              *)
LEMMA BankStepIntents ==
  ASSUME PayTypesOK, IntentsInv,
         \/ \E b \in wire : Arrive(b)
         \/ \E l \in Loans : Move(l)
         \/ \E k \in PayKeys : Lapse(k)
  PROVE  IntentsInv'
<1>1. UNCHANGED <<route, last, act, minted, settled>> /\ wire' \subseteq wire
  BY DEF Arrive, Move, Lapse, screen, bank, intents
<1>2. SentIsMinted' /\ OneOpenIntent'
  BY <1>1, KeptBodies DEF IntentsInv, Paying
<1>3. ChargedByRecord'
  <2>1. ASSUME NEW b \in wire, Arrive(b) PROVE ChargedByRecord'
    <3>1. b \in Body /\ minted[b.key] # 0
      BY DEF PayTypesOK, BankTypeOK, IntentsInv, SentIsMinted
    <3>2. PICK got : Outcome(b, got)
      BY <2>1 DEF Arrive
    <3>3. UNCHANGED <<minted, lapsed>>
      BY <2>1 DEF Arrive, intents
    <3> QED BY <3>1, <3>2, <3>3, OutcomeStep DEF PayTypesOK, IntentsInv
  <2>2. ASSUME NEW l \in Loans, Move(l) PROVE ChargedByRecord'
    BY <2>2 DEF Move, IntentsInv, ChargedByRecord, intents
  <2>3. ASSUME NEW k \in PayKeys, Lapse(k) PROVE ChargedByRecord'
    BY <2>3 DEF Lapse, IntentsInv, ChargedByRecord, bank
  <2> QED BY <2>1, <2>2, <2>3
<1> QED BY <1>2, <1>3 DEF IntentsInv

(* An answer settles the intent it is of (PaymentLands).                   *)
LEMMA LandingIntents ==
  ASSUME PayTypesOK, IntentsInv, NEW v \in Visits,
         Drop(v) \/ PaymentLands(v) \/ RepActionLands(v) \/ RefreshLands(v)
  PROVE  IntentsInv'
<1>1. /\ act[v].pc \in {"answered", "refresh"}
      /\ UNCHANGED <<route, bank, minted, lapsed>>
      /\ Finishes(v) \/ Await(v)
  BY DEF Drop, PaymentLands, RepActionLands, RefreshLands, screen, intents, Finish, Finishes
<1>2. /\ ~ Paying(v)'
      /\ \A u \in Visits : u # v => act'[u] = act[u]
  BY <1>1 DEF PayTypesOK, ScreenTypeOK, Finishes, Await, Paying, Idle
<1>3. \A u \in Visits : Paying(u)' => Paying(u) /\ act'[u].body = act[u].body
  BY <1>2 DEF Paying
<1>4. ChargedByRecord' /\ wire' = wire
  BY <1>1 DEF IntentsInv, ChargedByRecord, bank
<1>5. CASE UNCHANGED <<last, settled>>
  BY <1>1, <1>3, <1>4, <1>5, KeptBodies DEF IntentsInv
<1>6. CASE PaymentLands(v)
  <2>1. v = visit /\ Paying(v) /\ visit' = visit
    BY <1>1, <1>6 DEF PaymentLands, Current, Paying, visit
  <2>2. last # Nil /\ last.body = act[v].body /\ minted[last.body.key] = visit
    BY <2>1 DEF IntentsInv, OneOpenIntent
  <2>3. \/ /\ last' = [body |-> last.body, state |-> "resolved"]
           /\ settled' = settled \cup {last.body.key}
        \/ /\ last' = [body |-> last.body, state |-> "captured"]
           /\ UNCHANGED settled
        \/ UNCHANGED <<last, settled>>
    BY <1>6, <2>2 DEF PaymentLands
  <2>4. SentIsMinted'
    BY <1>1, <1>3, <1>4 DEF IntentsInv, SentIsMinted
  <2>5. CASE /\ last' = [body |-> last.body, state |-> "resolved"]
             /\ settled' = settled \cup {last.body.key}
    <3>1. last' # Nil /\ last'.body = last.body /\ last'.body.key \in settled'
      <4>1. last' \in Attempt
        BY <2>2, <2>5 DEF Attempt, PayTypesOK, ScreenTypeOK
      <4> QED BY <2>5, <4>1, PayPageAssumption DEF Attempt
    <3>2. OneOpenIntent'
      BY <1>1, <1>2, <2>1, <2>2, <2>5, <3>1 DEF IntentsInv, OneOpenIntent
    <3> QED BY <1>4, <2>4, <3>2 DEF IntentsInv
  <2>6. CASE /\ last' = [body |-> last.body, state |-> "captured"]
             /\ UNCHANGED settled
    <3>1. last' # Nil /\ last'.body = last.body /\ last'.state # "resolved"
      <4>1. last' \in Attempt
        BY <2>2, <2>6 DEF Attempt, PayTypesOK, ScreenTypeOK
      <4> QED BY <2>6, <4>1, PayPageAssumption DEF Attempt
    <3>2. OneOpenIntent'
      BY <1>1, <1>2, <2>1, <2>2, <2>6, <3>1 DEF IntentsInv, OneOpenIntent
    <3> QED BY <1>4, <2>4, <3>2 DEF IntentsInv
  <2> QED BY <1>5, <2>3, <2>5, <2>6
<1> QED BY <1>5, <1>6 DEF Drop, RepActionLands, RefreshLands, screen, intents

(* So every step keeps the intents (PayPageNext).                          *)
LEMMA IntentsStep ==
  PayTypesOK /\ PayTypesOK' /\ OneHandler /\ IntentsInv /\ [PayPageNext]_payPageVars
    => IntentsInv'
<1> SUFFICES ASSUME PayTypesOK, PayTypesOK', OneHandler, IntentsInv,
                    [PayPageNext]_payPageVars
             PROVE  IntentsInv'
  OBVIOUS
<1>1. CASE UNCHANGED payPageVars
  BY <1>1, QuietIntents DEF payPageVars, screen
<1>2. ASSUME NEW v \in Visits, LandLoan(v) PROVE IntentsInv'
  BY <1>2, QuietIntents DEF LandLoan
<1>3. CASE PayPageNext
  BY <1>2, <1>3, NavigateIntents, ButtonIntents, ServeIntents, BankStepIntents,
     LandingIntents DEF PayPageNext
<1> QED BY <1>1, <1>3

-----------------------------------------------------------------------------
(* The screen *)

ScreenInv == OneHandler /\ ScreenIsOfThisVisit

(* What leaves the screen alone keeps it of this visit.                    *)
LEMMA QuietScreens ==
  ScreenInv /\ UNCHANGED <<screen, mount, minted>> /\ PayTypesOK
  /\ (\A u \in Visits : act'[u] # Idle => act[u] # Idle) => ScreenInv'
BY DEF ScreenInv, OneHandler, ScreenIsOfThisVisit, screen, visit, PayTypesOK, ScreenTypeOK

(* A balance that is read again is shown to the visit that asked           *)
(* (RefreshLands).                                                         *)
LEMMA ReviewIsShown ==
  ASSUME PayTypesOK, PayTypesOK', NEW v \in Visits, RefreshLands(v), ScreenInv, v = visit
  PROVE  ScreenInv'
<1>1. /\ act[v].pc = "refresh" /\ act' = [act EXCEPT ![v] = Idle]
      /\ UNCHANGED <<route, last, mount, bank, intents>>
  BY DEF RefreshLands
<1>2. /\ visit' = visit /\ visit \in Visits /\ visit # 0
      /\ act \in [Visits -> Act]
  BY <1>1 DEF visit, PayTypesOK, ScreenTypeOK, Visits
<1>3. act[v] # Idle
  BY <1>1 DEF Idle
<1>4. balance # Nil /\ notice.text # "review" /\ balance.visit = visit
  BY <1>3, <1>2 DEF ScreenInv, OneHandler, ScreenIsOfThisVisit
<1>5. act[v].since \in Nat /\ moves[route[v]] \in Nat
  BY <1>1, <1>2, ActShape DEF PayTypesOK, ScreenTypeOK, BankTypeOK, visit, Visits
<1>6. PICK read \in Read(v, act[v].since) \cup {Nil} :
          /\ balance' = IF read = Nil THEN balance ELSE [visit |-> v, read |-> read]
          /\ IF act[v].op = "conflict"
             THEN Say(v, ConflictText(read), act[v].since)
             ELSE UNCHANGED notice
  BY DEF RefreshLands
<1>7. balance' # Nil /\ balance'.visit = visit
  <2>1. CASE read = Nil
    BY <1>4, <1>6, <2>1
  <2>2. CASE read # Nil
    <3>1. balance' = [visit |-> v, read |-> read] /\ read \in Nat
      BY <1>5, <1>6, <2>2 DEF Read
    <3>2. balance' \in [visit : 1..MaxVisits, read : Nat]
      BY <3>1 DEF Visits
    <3> QED BY <3>1, <3>2, PayPageAssumption
  <2> QED BY <2>1, <2>2
<1>8. /\ notice'.visit \in {0, visit}
      /\ notice'.text = "review" => balance'.read >= notice'.since
  <2>1. CASE act[v].op = "conflict"
    <3>1. notice' = [text |-> ConflictText(read), visit |-> v, since |-> act[v].since]
      BY <1>6, <2>1 DEF Say
    <3>2. CASE read = Nil
      BY <3>1, <3>2 DEF ConflictText
    <3>3. CASE read # Nil
      BY <1>5, <1>6, <3>1, <3>3 DEF Read
    <3> QED BY <3>2, <3>3
  <2>2. CASE act[v].op # "conflict"
    BY <1>4, <1>6, <2>2 DEF ScreenInv, ScreenIsOfThisVisit
  <2> QED BY <2>1, <2>2
<1>9. OneHandler'
  <2>1. act'[visit] = Idle /\ \A u \in Visits : u > visit => act'[u] = Idle
    BY <1>1, <1>2 DEF ScreenInv, OneHandler
  <2>2. mount'[visit].pc # "get"
    BY <1>1, <1>4 DEF ScreenInv, OneHandler
  <2> QED BY <1>2, <1>7, <2>1, <2>2 DEF OneHandler
<1>10. ScreenIsOfThisVisit'
  BY <1>1, <1>2, <1>7, <1>8 DEF ScreenInv, ScreenIsOfThisVisit, intents
<1> QED BY <1>9, <1>10 DEF ScreenInv

(* What a button shows is of the visit it is pressed in.                   *)
LEMMA ButtonScreens ==
  ASSUME PayTypesOK, PayTypesOK', ScreenInv, OneOpenIntent',
         \/ \E k \in PayKeys, a \in Charges : MakePayment(k, a)
         \/ RetryPayment \/ AdjustBalance \/ WaiveFee
  PROVE  ScreenInv'
<1>1. /\ balance # Nil /\ busy' = TRUE /\ notice' = Quiet
      /\ UNCHANGED <<route, balance, mount>>
      /\ \E a : act' = [act EXCEPT ![visit] = a]
  BY DEF MakePayment, RetryPayment, AdjustBalance, WaiveFee, Submit, Send, Ready
<1>2. visit' = visit /\ visit \in Visits /\ visit \in Nat
  BY <1>1 DEF visit, PayTypesOK, ScreenTypeOK, Visits
<1>3. Quiet.text = "none" /\ Quiet.visit = 0
  BY DEF Quiet
<1>4. \A u \in Visits : u > visit => act'[u] = Idle
  BY <1>1, <1>2 DEF ScreenInv, OneHandler, PayTypesOK, ScreenTypeOK, Visits
<1>5. OneHandler'
  BY <1>1, <1>2, <1>3, <1>4 DEF ScreenInv, OneHandler
<1>6. ScreenIsOfThisVisit'
  BY <1>1, <1>2, <1>3 DEF ScreenInv, ScreenIsOfThisVisit, OneOpenIntent
<1> QED BY <1>5, <1>6 DEF ScreenInv

(* A visit starts with a screen of its own (Navigate).                     *)
LEMMA NavigateScreens ==
  ASSUME PayTypesOK, PayTypesOK', ScreenInv, OneOpenIntent', NEW l \in Loans, Navigate(l)
  PROVE  ScreenInv'
<1>1. /\ route' = Append(route, l) /\ visit < MaxVisits
      /\ balance' = Nil /\ last' = Nil /\ busy' = FALSE /\ notice' = Quiet
      /\ UNCHANGED act
  BY DEF Navigate
<1>2. visit' = visit + 1 /\ visit \in Nat /\ visit + 1 \in Visits
  BY <1>1, PayPageAssumption DEF PayTypesOK, ScreenTypeOK, visit, Visits
<1>3. Quiet.text = "none" /\ Quiet.visit = 0
  BY DEF Quiet
<1>4. \A u \in Visits : u > visit => act[u] = Idle
  BY DEF ScreenInv, OneHandler
<1>5. act'[visit + 1] = Idle /\ \A u \in Visits : u > visit + 1 => act'[u] = Idle
  BY <1>1, <1>2, <1>4 DEF Visits
<1>6. OneHandler'
  BY <1>1, <1>2, <1>3, <1>5 DEF OneHandler
<1>7. ScreenIsOfThisVisit'
  BY <1>1, <1>2, <1>3 DEF ScreenIsOfThisVisit
<1> QED BY <1>6, <1>7 DEF ScreenInv

(* And shows only the loan it has asked for (LandLoan).                    *)
LEMMA LandLoanScreens ==
  ASSUME PayTypesOK, PayTypesOK', ScreenInv, NEW v \in Visits, LandLoan(v)
  PROVE  ScreenInv'
<1>1. /\ mount[v].pc = "get"
      /\ mount' = [mount EXCEPT ![v] = [pc |-> "done", since |-> 0]]
      /\ UNCHANGED <<route, last, busy, notice, act, bank, intents>>
  BY DEF LandLoan
<1>2. /\ visit' = visit /\ visit \in Visits
      /\ mount'[v].pc = "done" /\ \A u \in Visits : u # v => mount'[u] = mount[u]
  BY <1>1 DEF visit, PayTypesOK, ScreenTypeOK
<1>3. CASE UNCHANGED balance
  <2>1. balance' # Nil => mount'[visit].pc # "get"
    BY <1>2, <1>3 DEF ScreenInv, OneHandler
  <2> QED BY <1>1, <1>2, <1>3, <2>1 DEF ScreenInv, OneHandler, ScreenIsOfThisVisit, intents
<1>4. CASE v = visit /\ \E n \in Read(v, mount[v].since) : balance' = [visit |-> v, read |-> n]
  <2>1. balance = Nil
    BY <1>1, <1>4 DEF ScreenInv, OneHandler
  <2>2. act[visit] = Idle /\ notice.text # "review"
    BY <2>1 DEF ScreenInv, OneHandler
  <2>3. balance'.visit = visit
    BY <1>4
  <2>4. OneHandler'
    BY <1>1, <1>2, <1>4, <2>2 DEF ScreenInv, OneHandler
  <2>5. ScreenIsOfThisVisit'
    BY <1>1, <1>2, <2>2, <2>3 DEF ScreenInv, ScreenIsOfThisVisit, intents
  <2> QED BY <2>4, <2>5 DEF ScreenInv
<1> QED BY <1>3, <1>4 DEF LandLoan, Current

(* An answer of an earlier visit is not shown (PaymentLands,               *)
(* RepActionLands).                                                        *)
LEMMA LandingScreens ==
  ASSUME PayTypesOK, PayTypesOK', ScreenInv, OneOpenIntent', NEW v \in Visits,
         PaymentLands(v) \/ RepActionLands(v)
  PROVE  ScreenInv'
<1>1. /\ act[v].pc = "answered" /\ v = visit
      /\ UNCHANGED <<route, balance, mount>>
  BY DEF PaymentLands, RepActionLands, Current
<1>2. /\ visit' = visit /\ visit \in Visits
      /\ act[visit] # Idle
  BY <1>1 DEF visit, PayTypesOK, ScreenTypeOK, Idle
<1>3. busy /\ balance # Nil /\ notice.text # "review"
  BY <1>2 DEF ScreenInv, OneHandler
<1>4. /\ notice'.visit \in {0, visit} /\ notice'.text # "review"
      /\ \/ Finishes(v)
         \/ Await(v) /\ UNCHANGED busy
  <2>1. \/ Say(v, "paid", 0) /\ Await(v) /\ UNCHANGED busy
        \/ Finish(v, "contact", 0)
        \/ Finish(v, "failed", 0)
        \/ Say(v, "done", 0) /\ Await(v) /\ UNCHANGED busy
        \/ Await(v) /\ UNCHANGED <<busy, notice>>
    BY DEF PaymentLands, RepActionLands
  <2>2. notice.visit \in {0, visit}
    BY DEF ScreenInv, ScreenIsOfThisVisit
  <2>3. ASSUME NEW text \in {"paid", "contact", "failed", "done"}, Say(v, text, 0)
        PROVE  notice'.visit \in {0, visit} /\ notice'.text # "review"
    BY <1>1, <2>3 DEF Say
  <2> QED BY <1>3, <2>1, <2>2, <2>3 DEF Finish, Finishes
<1>5. /\ \A u \in Visits : u > visit => act'[u] = Idle
      /\ act'[visit] # Idle => busy'
  <2>1. act \in [Visits -> Act] /\ ~ (visit > visit)
    BY <1>2 DEF PayTypesOK, ScreenTypeOK, Visits
  <2>2. \A u \in Visits : u > visit => act[u] = Idle
    BY DEF ScreenInv, OneHandler
  <2>3. \A u \in Visits : u # visit => act'[u] = act[u]
    BY <1>1, <1>4, <2>1 DEF Finishes, Await
  <2>4. CASE Finishes(v)
    <3>1. act'[visit] = Idle
      BY <1>1, <1>2, <2>1, <2>4 DEF Finishes
    <3> QED BY <2>1, <2>2, <2>3, <3>1
  <2>5. CASE UNCHANGED busy
    BY <1>3, <2>1, <2>2, <2>3, <2>5
  <2> QED BY <1>4, <2>4, <2>5
<1>6. OneHandler'
  BY <1>1, <1>2, <1>3, <1>4, <1>5 DEF ScreenInv, OneHandler
<1>7. ScreenIsOfThisVisit'
  BY <1>1, <1>2, <1>4 DEF ScreenInv, ScreenIsOfThisVisit, OneOpenIntent
<1> QED BY <1>6, <1>7 DEF ScreenInv

(* So every step keeps the screen of this visit (PayPageNext).             *)
LEMMA ScreensStep ==
  PayTypesOK /\ PayTypesOK' /\ OneOpenIntent' /\ ScreenInv /\ [PayPageNext]_payPageVars
    => ScreenInv'
<1> SUFFICES ASSUME PayTypesOK, PayTypesOK', OneOpenIntent', ScreenInv,
                    [PayPageNext]_payPageVars
             PROVE  ScreenInv'
  OBVIOUS
<1>1. CASE UNCHANGED payPageVars
  BY <1>1, QuietScreens DEF payPageVars, intents
<1>2. ASSUME NEW v \in Visits, ServePayment(v) \/ ServeAdjust(v) \/ ServeWaiver(v) \/ Lose(v)
      PROVE  ScreenInv'
  <2>1. /\ act[v].pc \in {"sent", "answered"} /\ \E got : Answer(v, got)
        /\ UNCHANGED <<screen, mount, minted>>
    BY <1>2 DEF ServePayment, ServeAdjust, ServeWaiver, Lose, intents
  <2>2. act[v] # Idle
    BY <2>1 DEF Idle
  <2>3. \A u \in Visits : act'[u] # Idle => act[u] # Idle
    BY <2>1, <2>2 DEF Answer, PayTypesOK, ScreenTypeOK
  <2> QED BY <2>1, <2>3, QuietScreens
<1>3. ASSUME \/ \E b \in wire : Arrive(b)
             \/ \E l \in Loans : Move(l)
             \/ \E k \in PayKeys : Lapse(k)
      PROVE  ScreenInv'
  BY <1>3, QuietScreens DEF Arrive, Move, Lapse, intents
<1>4. ASSUME NEW v \in Visits, Drop(v) PROVE ScreenInv'
  <2>1. \A u \in Visits : act'[u] # Idle => act[u] # Idle
    BY <1>4 DEF Drop, PayTypesOK, ScreenTypeOK
  <2> QED BY <1>4, <2>1, QuietScreens DEF Drop, intents
<1>5. ASSUME NEW v \in Visits, RefreshLands(v) PROVE ScreenInv'
  <2>1. v = visit
    BY <1>5 DEF RefreshLands, Current
  <2> QED BY <1>5, <2>1, ReviewIsShown
<1>6. ASSUME StartNewPayment PROVE ScreenInv'
  BY <1>6 DEF StartNewPayment, ScreenInv, OneHandler, ScreenIsOfThisVisit, visit
<1>7. CASE PayPageNext
  BY <1>2, <1>3, <1>4, <1>5, <1>6, <1>7, NavigateScreens, LandLoanScreens, ButtonScreens,
     LandingScreens DEF PayPageNext
<1> QED BY <1>1, <1>7

(* So the payment page's invariant holds in every state.                   *)
LEMMA PayPageInvHolds == PayPageSpec => []PayPageInv
<1>1. PayPageInv <=> PayTypesOK /\ IntentsInv /\ ScreenInv
  BY DEF PayPageInv, PayTypesOK, IntentsInv, ScreenInv
<1>2. PayPageInv /\ [PayPageNext]_payPageVars => PayPageInv'
  <2> SUFFICES ASSUME PayPageInv, [PayPageNext]_payPageVars PROVE PayPageInv'
    OBVIOUS
  <2>1. PayTypesOK /\ OneHandler /\ IntentsInv /\ ScreenInv
    BY <1>1 DEF ScreenInv
  <2>2. PayTypesOK'
    BY <2>1, PayTypesStep
  <2>3. IntentsInv'
    BY <2>1, <2>2, IntentsStep
  <2>4. ScreenInv'
    BY <2>1, <2>2, <2>3, ScreensStep DEF IntentsInv
  <2> QED BY <2>2, <2>3, <2>4 DEF PayPageInv, PayTypesOK, IntentsInv, ScreenInv
<1> QED BY <1>2, PayPageStarts, PTL DEF PayPageSpec

(* The payment page never leaves its types: each visit's handler is at      *)
(* rest, sent, answered or reading the balance again (actionBusy,          *)
(* lastPayment, submitPayment).                                            *)
THEOREM PayPageTypeHolds == PayPageSpec => [](ScreenTypeOK /\ BankTypeOK)
BY PayPageInvHolds, PTL DEF PayPageInv

(* However many visits, keys, retries and lost or late answers: the open   *)
(* keys of a visit never leave two charges that nobody resolved, as        *)
(* blocksNewIntent refuses a fresh key while one is unresolved.            *)
THEOREM ChargesAreMeant == PayPageSpec => []NoUnmeantCharge
<1>1. PayPageInv => NoUnmeantCharge
  <2> SUFFICES ASSUME PayPageInv PROVE NoUnmeantCharge
    OBVIOUS
  <2>1. \A k \in PayKeys : charged[k] > 0 => minted[k] # 0
    BY DEF PayPageInv, ChargedByRecord
  <2> QED BY <2>1 DEF PayPageInv, ChargedByRecord, OneOpenIntent, NoUnmeantCharge
<1> QED BY <1>1, PayPageInvHolds, PTL

(* What the payment page shows is of the visit on screen, and a balance to *)
(* be reviewed is no older than the movement that refused the correction   *)
(* (routeGenRef, adjustBalance's 409 branch).                              *)
THEOREM PaymentScreenIsOfThisVisit == PayPageSpec => []ScreenIsOfThisVisit
<1>1. PayPageInv => ScreenIsOfThisVisit
  BY DEF PayPageInv
<1> QED BY <1>1, PayPageInvHolds, PTL

-----------------------------------------------------------------------------
(* The officer's page (underwriting/[appId]).                              *)

Use == [turn : {0} \cup Turns, op : {"none", "decide", "assist"}]

DeskTypeOK ==
    /\ path \in Seq(Files) /\ turn \in Turns
    /\ block \in [chain : {0} \cup Turns, document : {0} \cup Turns]
    /\ reloaded \in BOOLEAN
    /\ usedBy \in [RunIds -> Use]
    /\ confirmed \in [Turns -> Nat]

(* The keys a visit has minted for one of its two buttons.                 *)
MintedBy(v, op) == {k \in RunIds : usedBy[k] = [turn |-> v, op |-> op]}

(* A visit mints one key for Run decision, and holds on to it.             *)
OneDecisionKey ==
    /\ \A k \in MintedBy(turn, "decide") : decisionKey = k
    /\ \A v \in Turns : \A j, k \in MintedBy(v, "decide") : j = k

(* It mints one for the assistant whenever the last was let go, which only *)
(* an answered run does.                                                   *)
AKeyPerAnswer ==
    /\ \A v \in Turns : /\ IsFiniteSet(MintedBy(v, "assist"))
                        /\ Cardinality(MintedBy(v, "assist")) <= confirmed[v] + 1
    /\ assistantKey = NoId
           => Cardinality(MintedBy(turn, "assist")) <= confirmed[turn]

KeysAreOfVisits == \A k \in RunIds : usedBy[k].turn <= turn

KeysInv == OneDecisionKey /\ AKeyPerAnswer /\ KeysAreOfVisits

DeskInv == DeskTypeOK /\ KeysInv /\ PanelsAgree /\ DeskIsOfThisVisit

-----------------------------------------------------------------------------
(* Keys *)

(* A fresh key goes to the visit and the button that minted it.            *)
LEMMA MintSets ==
  ASSUME DeskTypeOK, KeysAreOfVisits, NEW op \in {"decide", "assist"}, NEW k \in RunIds,
         usedBy[k].turn = 0, usedBy' = [usedBy EXCEPT ![k] = [turn |-> turn, op |-> op]]
  PROVE  /\ KeysAreOfVisits' \/ turn' # turn
         /\ \A v \in Turns, o \in {"decide", "assist"} :
               MintedBy(v, o)' = IF v = turn /\ o = op THEN MintedBy(v, o) \cup {k}
                                                       ELSE MintedBy(v, o)
         /\ k \notin MintedBy(turn, op)
<1>1. usedBy \in [RunIds -> Use] /\ turn \in Turns /\ turn \in Nat /\ turn # 0
  BY DEF DeskTypeOK, Turns
<1>2. \A j \in RunIds : usedBy'[j] = IF j = k THEN [turn |-> turn, op |-> op] ELSE usedBy[j]
  BY <1>1
<1>3. \A v \in Turns : \A o : usedBy[k] # [turn |-> v, op |-> o]
  BY DEF Turns
<1>4. KeysAreOfVisits' \/ turn' # turn
  BY <1>1, <1>2 DEF KeysAreOfVisits
<1>5. ASSUME NEW v \in Turns, NEW o \in {"decide", "assist"}
      PROVE  MintedBy(v, o)' = IF v = turn /\ o = op THEN MintedBy(v, o) \cup {k}
                                                     ELSE MintedBy(v, o)
  <2>1. \A j \in RunIds : j # k =>
           (usedBy'[j] = [turn |-> v, op |-> o] <=> usedBy[j] = [turn |-> v, op |-> o])
    BY <1>2
  <2>2. usedBy'[k] = [turn |-> v, op |-> o] <=> v = turn /\ o = op
    <3>1. usedBy'[k] = [turn |-> turn, op |-> op]
      BY <1>2
    <3>2. [turn |-> turn, op |-> op] = [turn |-> v, op |-> o] <=> v = turn /\ o = op
      <4>1. [turn |-> turn, op |-> op].turn = turn /\ [turn |-> turn, op |-> op].op = op
        OBVIOUS
      <4>2. [turn |-> v, op |-> o].turn = v /\ [turn |-> v, op |-> o].op = o
        OBVIOUS
      <4> QED BY <4>1, <4>2
    <3> QED BY <3>1, <3>2
  <2>3. k \notin MintedBy(v, o)
    BY <1>3 DEF MintedBy
  <2>4. \A j : j \in MintedBy(v, o)' <=> j \in RunIds /\ usedBy'[j] = [turn |-> v, op |-> o]
    BY DEF MintedBy
  <2>5. \A j : j \in MintedBy(v, o) <=> j \in RunIds /\ usedBy[j] = [turn |-> v, op |-> o]
    BY DEF MintedBy
  <2>6. CASE v = turn /\ o = op
    BY <2>1, <2>2, <2>4, <2>5, <2>6
  <2>7. CASE ~ (v = turn /\ o = op)
    <3>1. \A j \in RunIds :
             usedBy'[j] = [turn |-> v, op |-> o] <=> usedBy[j] = [turn |-> v, op |-> o]
      BY <1>3, <2>1, <2>2, <2>7
    <3>2. MintedBy(v, o)' = MintedBy(v, o)
      BY <3>1 DEF MintedBy
    <3> QED BY <2>7, <3>2
  <2> QED BY <2>6, <2>7
<1>6. k \notin MintedBy(turn, op)
  BY <1>1, <1>3 DEF MintedBy
<1> QED BY <1>4, <1>5, <1>6

(* What leaves the run ids alone keeps them of one attempt each.           *)
LEMMA QuietKeys ==
  ASSUME KeysInv, UNCHANGED <<path, decisionKey, assistantKey, usedBy, confirmed>>
  PROVE  KeysInv'
BY DEF KeysInv, OneDecisionKey, AKeyPerAnswer, KeysAreOfVisits, MintedBy, turn

(* A minted id is used by what minted it (Mints).                          *)
LEMMA MintTypes ==
  ASSUME DeskTypeOK, NEW op \in {"decide", "assist"}, NEW k \in RunIds,
         NEW held, Mints(held, op, k)
  PROVE  usedBy' \in [RunIds -> Use]
<1>1. [turn |-> turn, op |-> op] \in Use
  BY DEF DeskTypeOK, Use
<1> QED BY <1>1 DEF Mints, DeskTypeOK

(* A decision mints an id, or sends the one in doubt again (RunDecision).  *)
LEMMA RunDecisionKeys ==
  ASSUME DeskTypeOK, KeysInv, NEW k \in RunIds, RunDecision(k)
  PROVE  KeysInv'
<1>1. /\ Mints(decisionKey, "decide", k) /\ decisionKey' = k
      /\ UNCHANGED <<path, assistantKey, confirmed>>
  BY DEF RunDecision, Begin
<1>2. turn' = turn /\ turn \in Turns
  BY <1>1 DEF turn, DeskTypeOK
<1>3. CASE decisionKey # NoId
  <2>1. k = decisionKey /\ usedBy' = usedBy
    BY <1>1, <1>3 DEF Mints
  <2> QED BY <1>1, <2>1, QuietKeys
<1>4. CASE decisionKey = NoId
  <2>1. /\ usedBy[k].turn = 0
        /\ usedBy' = [usedBy EXCEPT ![k] = [turn |-> turn, op |-> "decide"]]
    BY <1>1, <1>4 DEF Mints
  <2>2. /\ KeysAreOfVisits'
        /\ \A v \in Turns : MintedBy(v, "assist")' = MintedBy(v, "assist")
        /\ \A v \in Turns : v # turn => MintedBy(v, "decide")' = MintedBy(v, "decide")
        /\ MintedBy(turn, "decide")' = MintedBy(turn, "decide") \cup {k}
    BY <1>2, <2>1, MintSets DEF KeysInv
  <2>3. MintedBy(turn, "decide") = {}
    <3>1. \A j \in MintedBy(turn, "decide") : j \in RunIds /\ j = NoId
      BY <1>4 DEF KeysInv, OneDecisionKey, MintedBy
    <3> QED BY <3>1, DeskAssumption
  <2>4. OneDecisionKey'
    <3>1. \A j \in MintedBy(turn, "decide")' : j = k
      BY <2>2, <2>3
    <3>2. \A v \in Turns : \A i, j \in MintedBy(v, "decide")' : i = j
      <4>1. ASSUME NEW v \in Turns, v # turn
            PROVE  \A i, j \in MintedBy(v, "decide")' : i = j
        BY <2>2, <4>1 DEF KeysInv, OneDecisionKey
      <4> QED BY <3>1, <4>1, <1>2
    <3> QED BY <1>1, <1>2, <3>1, <3>2 DEF OneDecisionKey
  <2>5. AKeyPerAnswer'
    BY <1>1, <1>2, <2>2 DEF KeysInv, AKeyPerAnswer
  <2> QED BY <2>2, <2>4, <2>5 DEF KeysInv
<1> QED BY <1>3, <1>4

(* And so does the assistant (RunAssistant).                               *)
LEMMA RunAssistantKeys ==
  ASSUME DeskTypeOK, KeysInv, NEW k \in RunIds, RunAssistant(k)
  PROVE  KeysInv'
<1>1. /\ Mints(assistantKey, "assist", k) /\ assistantKey' = k
      /\ UNCHANGED <<path, decisionKey, confirmed>>
  BY DEF RunAssistant, Begin
<1>2. turn' = turn /\ turn \in Turns
  BY <1>1 DEF turn, DeskTypeOK
<1>3. CASE assistantKey # NoId
  <2>1. k = assistantKey /\ usedBy' = usedBy
    BY <1>1, <1>3 DEF Mints
  <2> QED BY <1>1, <2>1, QuietKeys
<1>4. CASE assistantKey = NoId
  <2>1. /\ usedBy[k].turn = 0
        /\ usedBy' = [usedBy EXCEPT ![k] = [turn |-> turn, op |-> "assist"]]
    BY <1>1, <1>4 DEF Mints
  <2>2. /\ KeysAreOfVisits'
        /\ \A v \in Turns : MintedBy(v, "decide")' = MintedBy(v, "decide")
        /\ \A v \in Turns : v # turn => MintedBy(v, "assist")' = MintedBy(v, "assist")
        /\ MintedBy(turn, "assist")' = MintedBy(turn, "assist") \cup {k}
        /\ k \notin MintedBy(turn, "assist")
    BY <1>2, <2>1, MintSets DEF KeysInv
  <2>3. /\ IsFiniteSet(MintedBy(turn, "assist"))
        /\ Cardinality(MintedBy(turn, "assist")) <= confirmed[turn]
        /\ confirmed[turn] \in Nat
    BY <1>2, <1>4 DEF KeysInv, AKeyPerAnswer, DeskTypeOK
  <2>4. PICK M : M = MintedBy(turn, "assist")
    OBVIOUS
  <2>5. /\ IsFiniteSet(M \cup {k})
        /\ Cardinality(M \cup {k}) = Cardinality(M) + 1 /\ Cardinality(M) \in Nat
    BY <2>2, <2>3, <2>4, FS_AddElement, FS_CardinalityType
  <2>6. ASSUME NEW v \in Turns
        PROVE  /\ IsFiniteSet(MintedBy(v, "assist")')
               /\ Cardinality(MintedBy(v, "assist")') <= confirmed[v] + 1
    <3>1. CASE v = turn
      <4>1. MintedBy(v, "assist")' = M \cup {k}
        BY <2>1, <2>4, <3>1, <1>2, MintSets DEF KeysInv
      <4>2. Cardinality(M) <= confirmed[v] /\ confirmed[v] \in Nat
        BY <2>3, <2>4, <3>1
      <4>3. IsFiniteSet(M \cup {k}) /\ Cardinality(M \cup {k}) <= confirmed[v] + 1
        BY <2>5, <4>2
      <4> QED BY <4>1, <4>3, Zenon
    <3>2. CASE v # turn
      BY <2>2, <3>2 DEF KeysInv, AKeyPerAnswer
    <3> QED BY <3>1, <3>2
  <2>7. AKeyPerAnswer'
    BY <1>1, <2>6, DeskAssumption DEF AKeyPerAnswer
  <2>8. OneDecisionKey'
    BY <1>1, <1>2, <2>2 DEF KeysInv, OneDecisionKey
  <2> QED BY <2>2, <2>7, <2>8 DEF KeysInv
<1> QED BY <1>3, <1>4

(* Another file's ids are dropped when it is closed (Open).                *)
LEMMA OpenKeys ==
  ASSUME DeskTypeOK, KeysInv, NEW a \in Files, Open(a)
  PROVE  KeysInv'
<1>1. /\ turn < MaxTurns /\ path' = Append(path, a)
      /\ decisionKey' = NoId /\ assistantKey' = NoId
      /\ UNCHANGED <<usedBy, confirmed>>
  BY DEF Open
<1>2. turn' = turn + 1 /\ turn \in Nat /\ turn + 1 \in Turns
  BY <1>1, DeskAssumption DEF DeskTypeOK, turn, Turns
<1>3. \A v, o : MintedBy(v, o)' = MintedBy(v, o)
  BY <1>1 DEF MintedBy
<1>4. \A o : MintedBy(turn + 1, o) = {}
  <2>1. \A k \in RunIds : usedBy[k].turn \in Nat /\ usedBy[k].turn <= turn
    BY DEF KeysInv, KeysAreOfVisits, DeskTypeOK, Use, Turns
  <2> QED BY <1>2, <2>1 DEF MintedBy
<1>5. KeysAreOfVisits'
  BY <1>1, <1>2 DEF KeysInv, KeysAreOfVisits, DeskTypeOK, Use, Turns
<1>6. OneDecisionKey'
  <2>1. \A k \in RunIds : usedBy'[k] # [turn |-> turn', op |-> "decide"]
    BY <1>1, <1>2, <1>4 DEF MintedBy
  <2>2. \A k \in MintedBy(turn, "decide")' : decisionKey' = k
    BY <2>1 DEF MintedBy
  <2>3. \A v \in Turns : \A j, k \in MintedBy(v, "decide")' : j = k
    BY <1>1 DEF KeysInv, OneDecisionKey, MintedBy
  <2> QED BY <2>2, <2>3 DEF OneDecisionKey
<1>7. AKeyPerAnswer'
  <2>1. Cardinality(MintedBy(turn + 1, "assist")) = 0
    BY <1>4, FS_EmptySet
  <2>2. confirmed[turn + 1] \in Nat
    BY <1>2 DEF DeskTypeOK
  <2> QED BY <1>1, <1>2, <1>3, <2>1, <2>2 DEF KeysInv, AKeyPerAnswer
<1> QED BY <1>5, <1>6, <1>7 DEF KeysInv

(* A run that was answered lets its key go, and counts.                    *)
LEMMA AssistantKeys ==
  ASSUME DeskTypeOK, KeysInv, NEW v \in Turns, AssistantLands(v)
  PROVE  KeysInv'
<1>1. /\ v = turn /\ UNCHANGED <<path, decisionKey, usedBy>>
      /\ \/ assistantKey' = NoId /\ confirmed' = [confirmed EXCEPT ![v] = @ + 1]
         \/ UNCHANGED <<assistantKey, confirmed>>
  BY DEF AssistantLands, OnScreen
<1>2. CASE UNCHANGED <<assistantKey, confirmed>>
  BY <1>1, <1>2, QuietKeys
<1>3. CASE assistantKey' = NoId /\ confirmed' = [confirmed EXCEPT ![v] = @ + 1]
  <2>1. turn' = turn /\ \A w, o : MintedBy(w, o)' = MintedBy(w, o)
    BY <1>1 DEF turn, MintedBy
  <2>2. /\ \A w \in Turns : confirmed[w] \in Nat /\ confirmed'[w] \in Nat
        /\ \A w \in Turns : confirmed[w] <= confirmed'[w]
        /\ confirmed'[turn] = confirmed[turn] + 1
    BY <1>1, <1>3 DEF DeskTypeOK
  <2>3. \A w \in Turns : Cardinality(MintedBy(w, "assist")) \in Nat
    BY FS_CardinalityType DEF KeysInv, AKeyPerAnswer
  <2>4. ASSUME NEW w \in Turns
        PROVE  /\ IsFiniteSet(MintedBy(w, "assist"))
               /\ Cardinality(MintedBy(w, "assist")) <= confirmed'[w] + 1
    BY <2>2, <2>3 DEF KeysInv, AKeyPerAnswer
  <2>5. Cardinality(MintedBy(turn, "assist")) <= confirmed'[turn]
    BY <1>1, <2>2 DEF KeysInv, AKeyPerAnswer
  <2>6. AKeyPerAnswer'
    BY <2>1, <2>4, <2>5 DEF AKeyPerAnswer
  <2> QED BY <1>1, <2>1, <2>6 DEF KeysInv, OneDecisionKey, KeysAreOfVisits
<1> QED BY <1>1, <1>2, <1>3

-----------------------------------------------------------------------------
(* The screen *)

OnTheDesk == PanelsAgree /\ DeskIsOfThisVisit

(* No file is open at first (DeskInit).                                    *)
LEMMA DeskStarts == DeskInit => DeskInv
<1> SUFFICES ASSUME DeskInit PROVE DeskInv
  OBVIOUS
<1>1. PICK a \in Files : path = <<a>>
  BY DEF DeskInit
<1>2. path \in Seq(Files) /\ turn = 1 /\ 1 \in Turns
  BY <1>1, DeskAssumption DEF turn, Turns
<1>3. [turn |-> 0, op |-> "none"] \in Use
  BY DEF Use
<1>4. DeskTypeOK
  BY <1>2, <1>3 DEF DeskInit, DeskTypeOK
<1>5. \A v \in Turns : \A op : MintedBy(v, op) = {}
  BY DEF DeskInit, MintedBy, Turns
<1>6. KeysInv
  <2>1. IsFiniteSet({}) /\ Cardinality({}) = 0
    BY FS_EmptySet
  <2>2. \A v \in Turns : confirmed[v] = 0
    BY DEF DeskInit
  <2>3. AKeyPerAnswer
    <3>1. \A v \in Turns : /\ IsFiniteSet(MintedBy(v, "assist"))
                             /\ Cardinality(MintedBy(v, "assist")) = 0
      BY <1>5, <2>1
    <3> QED BY <1>2, <2>2, <3>1 DEF AKeyPerAnswer
  <2>4. OneDecisionKey
    BY <1>2, <1>5 DEF OneDecisionKey
  <2>5. KeysAreOfVisits
    BY <1>2 DEF DeskInit, KeysAreOfVisits
  <2> QED BY <2>3, <2>4, <2>5 DEF KeysInv
<1>7. PanelsAgree /\ DeskIsOfThisVisit
  BY DEF DeskInit, PanelsAgree, DeskIsOfThisVisit, Blank
<1> QED BY <1>4, <1>6, <1>7 DEF DeskInv

(* What leaves the panels alone keeps them of this turn.                   *)
LEMMA QuietDesk ==
  ASSUME OnTheDesk, UNCHANGED <<path, shown, panel, card, block, reloaded, strays>>,
         told' \in {0, told, turn}
  PROVE  OnTheDesk'
BY DEF OnTheDesk, PanelsAgree, DeskIsOfThisVisit, turn

(* A load that writes shows its visit's, which is this turn's or one whose *)
(* re-check strayed (Reloaded, RecheckLands).                              *)
LEMMA ReloadedDesk ==
  ASSUME DeskTypeOK, OnTheDesk, NEW v \in Turns, Reloaded(v),
         strays \subseteq strays', v \in {turn} \cup strays',
         UNCHANGED <<path, card, block>>, told' \in {0, told, turn}
  PROVE  OnTheDesk' /\ reloaded' \in BOOLEAN
<1>1. /\ reloaded' \in BOOLEAN
      /\ ~ reloaded' => card = Blank \/ UNCHANGED <<panel, reloaded>>
  BY DEF Reloaded, DeskTypeOK
<1>2. turn' = turn
  BY DEF turn
<1>3. PanelsAgree'
  <2>1. Blank.event = 0
    BY DEF Blank
  <2> QED BY <1>1, <2>1 DEF OnTheDesk, PanelsAgree
<1>4. {shown', panel'.turn} \subseteq {0, turn} \cup strays'
  <2>1. shown' \in {0, v}
    BY DEF Reloaded
  <2>2. panel' = panel \/ panel'.turn = v
    BY DEF Reloaded
  <2>3. panel.turn \in {0, turn} \cup strays
    BY DEF OnTheDesk, DeskIsOfThisVisit
  <2> QED BY <2>1, <2>2, <2>3
<1>5. DeskIsOfThisVisit'
  BY <1>2, <1>4 DEF OnTheDesk, DeskIsOfThisVisit
<1> QED BY <1>1, <1>3, <1>5 DEF OnTheDesk

(* The block takes a half of this visit's, or nothing.                     *)
LEMMA HalfShown ==
  ASSUME DeskTypeOK, OnTheDesk, NEW half \in {"chain", "document"},
         block' = block \/ \E w \in {0, turn} : block' = [block EXCEPT ![half] = w],
         UNCHANGED <<path, shown, panel, card, reloaded, strays>>, told' \in {0, told, turn}
  PROVE  OnTheDesk' /\ block' \in [chain : {0} \cup Turns, document : {0} \cup Turns]
<1>1. /\ block \in [chain : {0} \cup Turns, document : {0} \cup Turns]
      /\ turn \in Turns /\ turn' = turn
  BY DEF DeskTypeOK, turn
<1>2. block.chain \in {0, turn} /\ block.document \in {0, turn}
  BY DEF OnTheDesk, DeskIsOfThisVisit
<1>3. /\ block' \in [chain : {0} \cup Turns, document : {0} \cup Turns]
      /\ block'.chain \in {0, turn} /\ block'.document \in {0, turn}
  <2>1. CASE block' = block
    BY <1>1, <1>2, <2>1
  <2>2. ASSUME NEW w \in {0, turn}, block' = [block EXCEPT ![half] = w]
        PROVE  /\ block' \in [chain : {0} \cup Turns, document : {0} \cup Turns]
               /\ block'.chain \in {0, turn} /\ block'.document \in {0, turn}
    <3>1. CASE half = "chain"
      <4>1. block' = [block EXCEPT !.chain = w]
        BY <2>2, <3>1
      <4> QED BY <1>1, <1>2, <4>1
    <3>2. CASE half = "document"
      <4>1. block' = [block EXCEPT !.document = w]
        BY <2>2, <3>2
      <4> QED BY <1>1, <1>2, <4>1
    <3> QED BY <3>1, <3>2
  <2> QED BY <2>1, <2>2
<1>4. DeskIsOfThisVisit'
  BY <1>1, <1>3 DEF OnTheDesk, DeskIsOfThisVisit
<1>5. PanelsAgree'
  BY DEF OnTheDesk, PanelsAgree
<1> QED BY <1>3, <1>4, <1>5 DEF OnTheDesk

(* Steps that touch neither keys nor panels: what is served, and answers   *)
(* that are dropped, refused or only told.                                 *)
LEMMA QuietStep ==
  ASSUME DeskInv, UNCHANGED <<path, shown, panel, card, block, reloaded, strays, keysHeld, usedBy, confirmed>>,
         told' \in {0, told, turn}
  PROVE  DeskInv'
<1>1. DeskTypeOK'
  BY DEF DeskInv, DeskTypeOK, turn
<1>2. KeysInv'
  BY QuietKeys DEF DeskInv, keysHeld
<1>3. OnTheDesk'
  BY QuietDesk DEF DeskInv, OnTheDesk
<1> QED BY <1>1, <1>2, <1>3 DEF DeskInv, OnTheDesk

(* A button's attempt belongs to the turn it is pressed in (RunDecision,   *)
(* RunAssistant).                                                          *)
LEMMA ButtonsStep ==
  ASSUME DeskInv, NEW k \in RunIds, RunDecision(k) \/ RunAssistant(k)
  PROVE  DeskInv'
<1>1. KeysInv'
  BY RunDecisionKeys, RunAssistantKeys DEF DeskInv
<1>2. usedBy' \in [RunIds -> Use]
  BY MintTypes DEF DeskInv, RunDecision, RunAssistant
<1>3. UNCHANGED <<path, shown, panel, card, block, confirmed, reloaded, strays>> /\ told' = 0
  BY DEF RunDecision, RunAssistant, Begin
<1>4. DeskTypeOK'
  BY <1>2, <1>3 DEF DeskInv, DeskTypeOK, turn
<1>5. OnTheDesk'
  BY <1>3, QuietDesk DEF DeskInv, OnTheDesk
<1> QED BY <1>1, <1>4, <1>5 DEF DeskInv, OnTheDesk

(* A file is opened with empty panels (Open).                              *)
LEMMA OpenStep == ASSUME DeskInv, NEW a \in Files, Open(a) PROVE DeskInv'
<1>1. /\ turn < MaxTurns /\ path' = Append(path, a)
      /\ shown' = 0 /\ panel' = Blank /\ card' = Blank
      /\ block' = [chain |-> 0, document |-> 0]
      /\ told' = 0 /\ reloaded' = FALSE
      /\ UNCHANGED <<usedBy, confirmed>>
  BY DEF Open
<1>2. path' \in Seq(Files) /\ turn' \in Turns
  BY <1>1, DeskAssumption DEF DeskInv, DeskTypeOK, turn, Turns
<1>3. DeskTypeOK'
  BY <1>1, <1>2 DEF DeskInv, DeskTypeOK
<1>4. PanelsAgree' /\ DeskIsOfThisVisit'
  BY <1>1 DEF PanelsAgree, DeskIsOfThisVisit, Blank
<1> QED BY <1>3, <1>4, OpenKeys DEF DeskInv

(* A load of an earlier turn is dropped, but for a re-check's, which       *)
(* strays (LoadLands, RecheckLands).                                       *)
LEMMA LoadsStep ==
  ASSUME DeskInv, NEW v \in Turns, LoadLands(v) \/ RecheckLands(v)
  PROVE  DeskInv'
<1>1. UNCHANGED <<path, card, block, keysHeld, usedBy, confirmed>> /\ told' \in {0, told, turn}
  BY DEF LoadLands, RecheckLands, Done, OnScreen
<1>2. KeysInv'
  BY <1>1, QuietKeys DEF DeskInv, keysHeld
<1>3. \/ Reloaded(v) /\ strays \subseteq strays' /\ v \in {turn} \cup strays'
      \/ UNCHANGED <<shown, panel, reloaded, strays>>
  BY DEF LoadLands, RecheckLands, OnScreen
<1>4. CASE Reloaded(v) /\ strays \subseteq strays' /\ v \in {turn} \cup strays'
  <2>1. OnTheDesk' /\ reloaded' \in BOOLEAN
    BY <1>1, <1>4, ReloadedDesk DEF DeskInv, OnTheDesk
  <2>2. DeskTypeOK'
    BY <1>1, <2>1 DEF DeskInv, DeskTypeOK, turn
  <2> QED BY <1>2, <2>1, <2>2 DEF DeskInv, OnTheDesk
<1>5. CASE UNCHANGED <<shown, panel, reloaded, strays>>
  BY <1>1, <1>5, QuietStep
<1> QED BY <1>3, <1>4, <1>5

(* And so is each half of a disclosure's load (ChainLands, DocumentLands). *)
LEMMA HalvesStep ==
  ASSUME DeskInv, NEW v \in Turns,
         ChainLands(v) \/ DocumentLands(v) \/ DisclosureReloads(v) \/ DisclosureLands(v)
  PROVE  DeskInv'
<1>1. /\ UNCHANGED <<path, shown, panel, card, reloaded, strays, keysHeld, usedBy, confirmed>>
      /\ told' \in {0, told, turn}
  BY DEF ChainLands, DocumentLands, DisclosureReloads, DisclosureLands, ShowHalf, Done,
         OnScreen, past
<1>2. PICK half \in {"chain", "document"} :
         block' = block \/ \E w \in {0, turn} : block' = [block EXCEPT ![half] = w]
  BY DEF ChainLands, DocumentLands, DisclosureReloads, DisclosureLands, ShowHalf, OnScreen
<1>3. OnTheDesk' /\ block' \in [chain : {0} \cup Turns, document : {0} \cup Turns]
  BY <1>1, <1>2, HalfShown DEF DeskInv, OnTheDesk
<1>4. DeskTypeOK'
  BY <1>1, <1>3 DEF DeskInv, DeskTypeOK, turn
<1>5. KeysInv'
  BY <1>1, QuietKeys DEF DeskInv, keysHeld
<1> QED BY <1>3, <1>4, <1>5 DEF DeskInv, OnTheDesk

(* And so is an attempt's answer (DecisionLands, AssistantLands).          *)
LEMMA AnswersStep ==
  ASSUME DeskInv, NEW v \in Turns, DecisionLands(v) \/ AssistantLands(v)
  PROVE  DeskInv'
<1>1. /\ v = turn /\ told' = v /\ reloaded' = FALSE
      /\ UNCHANGED <<path, shown, block, usedBy, strays>>
  BY DEF DecisionLands, AssistantLands, Done, OnScreen
<1>2. confirmed' \in [Turns -> Nat]
  BY DEF DecisionLands, AssistantLands, DeskInv, DeskTypeOK
<1>3. DeskTypeOK'
  BY <1>1, <1>2 DEF DeskInv, DeskTypeOK, turn
<1>4. KeysInv'
  <2>1. CASE AssistantLands(v)
    BY <2>1, AssistantKeys DEF DeskInv
  <2>2. CASE DecisionLands(v)
    BY <2>2, QuietKeys DEF DecisionLands, DeskInv, keysHeld
  <2> QED BY <2>1, <2>2
<1>5. PanelsAgree'
  <2>1. CASE AssistantLands(v)
    BY <2>1 DEF AssistantLands, PanelsAgree
  <2>2. CASE DecisionLands(v)
    BY <2>2 DEF DecisionLands, PanelsAgree, Blank
  <2> QED BY <2>1, <2>2
<1>6. panel'.turn \in {0, turn} \cup strays /\ card'.turn \in {0, turn}
  <2>1. CASE AssistantLands(v)
    BY <1>1, <2>1 DEF AssistantLands, DeskInv, DeskIsOfThisVisit
  <2>2. CASE DecisionLands(v)
    BY <1>1, <2>2 DEF DecisionLands, Blank
  <2> QED BY <2>1, <2>2
<1>7. DeskIsOfThisVisit'
  BY <1>1, <1>6 DEF DeskInv, DeskIsOfThisVisit, turn
<1> QED BY <1>3, <1>4, <1>5, <1>7 DEF DeskInv

(* So the officer's page's invariant holds in every state.                 *)
LEMMA DeskInvHolds == DeskSpec => []DeskInv
<1>1. DeskInv /\ [DeskNext]_deskVars => DeskInv'
  <2> SUFFICES ASSUME DeskInv, [DeskNext]_deskVars PROVE DeskInv'
    OBVIOUS
  <2>1. CASE UNCHANGED deskVars
    BY <2>1, QuietStep DEF deskVars, desk, past
  <2>2. ASSUME \/ \E a \in Files : DecideElsewhere(a)
               \/ \E op \in {"explain", "recheck", "disclose", "plain"} : Ask(op)
               \/ \E r \in adrift : ServeLate(r)
        PROVE  DeskInv'
    <3>1. /\ UNCHANGED <<path, shown, panel, card, block, reloaded, strays, keysHeld, usedBy, confirmed>>
          /\ told' \in {0, told, turn}
      BY <2>2 DEF DecideElsewhere, Ask, Begin, ServeLate, desk, past
    <3> QED BY <3>1, QuietStep
  <2>3. ASSUME NEW v \in Turns,
               \/ ServeRun(v) \/ ServeExplain(v) \/ ServeOther(v) \/ FailTask(v)
               \/ LeftBehind(v) \/ Fails(v) \/ PlainLands(v)
               \/ AwaitsPapers(v) \/ AwaitsLoad(v)
        PROVE  DeskInv'
    <3>1. /\ UNCHANGED <<path, shown, panel, card, block, reloaded, strays, keysHeld, usedBy, confirmed>>
          /\ told' \in {0, told, turn}
      BY <2>3 DEF ServeRun, ServeExplain, ServeOther, FailTask, LeftBehind, Fails,
                  PlainLands, AwaitsPapers, AwaitsLoad, Done, OnScreen, desk, past
    <3> QED BY <3>1, QuietStep
  <2>4. CASE DeskNext
    BY <2>2, <2>3, <2>4, OpenStep, ButtonsStep, LoadsStep, HalvesStep, AnswersStep
       DEF DeskNext
  <2> QED BY <2>1, <2>4
<1> QED BY <1>1, DeskStarts, PTL DEF DeskSpec

(* However answers land, the decision panel and the assistant's card never *)
(* report two decisions, but for a load beside the card (runDecision takes *)
(* the card away, applyRecordedDecision sets both).                        *)
THEOREM OneDecisionOnTheDesk == DeskSpec => []PanelsAgree
<1>1. DeskInv => PanelsAgree
  BY DEF DeskInv
<1> QED BY <1>1, DeskInvHolds, PTL

(* What is on the officer's screen was loaded or answered for the visit it *)
(* is on, however often the officer goes and comes back (routeGenRef), but *)
(* for the application and the decision that the re-check of an earlier    *)
(* visit loads on this one (recheckKyc).                                   *)
THEOREM DeskShowsThisVisit == DeskSpec => []DeskIsOfThisVisit
<1>1. DeskInv => DeskIsOfThisVisit
  BY DEF DeskInv
<1> QED BY <1>1, DeskInvHolds, PTL

(* For every number of visits, keys and lost answers: a visit's Run        *)
(* decision records one event, and its assistant one per answered run and  *)
(* the one under way, as decisionKeyRef and assistantKeyRef are kept until *)
(* a run is confirmed.                                                     *)
THEOREM AttemptsRecordOnce == DeskSpec => []OneEventPerAttempt
<1>1. DeskInv => OneEventPerAttempt
  <2> SUFFICES ASSUME DeskInv, NEW v \in 1 .. turn
               PROVE  /\ Cardinality(By(v, "decide")) <= 1
                      /\ Cardinality(By(v, "assist")) <= confirmed[v] + 1
    BY DEF OneEventPerAttempt
  <2>1. v \in Turns /\ confirmed[v] \in Nat
    BY DeskAssumption DEF DeskInv, DeskTypeOK, Turns
  <2>2. \A op : By(v, op) \subseteq MintedBy(v, op)
    BY DEF By, MintedBy
  <2>3. Cardinality(By(v, "decide")) <= 1
    <3>1. \A j, k \in By(v, "decide") : j = k
      BY <2>1, <2>2 DEF DeskInv, KeysInv, OneDecisionKey
    <3>2. CASE By(v, "decide") = {}
      BY <3>2, FS_EmptySet
    <3>3. ASSUME NEW k \in By(v, "decide") PROVE Cardinality(By(v, "decide")) = 1
      <4>1. By(v, "decide") = {k}
        BY <3>1, <3>3
      <4> QED BY <4>1, FS_Singleton
    <3> QED BY <3>2, <3>3
  <2>4. Cardinality(By(v, "assist")) <= confirmed[v] + 1
    <3>1. PICK M : M = MintedBy(v, "assist")
      OBVIOUS
    <3>2. IsFiniteSet(M) /\ Cardinality(M) <= confirmed[v] + 1
      BY <2>1, <3>1 DEF DeskInv, KeysInv, AKeyPerAnswer
    <3>3. PICK B \in SUBSET M : B = By(v, "assist")
      BY <2>2, <3>1
    <3>4. IsFiniteSet(B) /\ Cardinality(B) <= Cardinality(M)
      BY <3>2, FS_Subset
    <3>5. Cardinality(B) \in Nat /\ Cardinality(M) \in Nat
      BY <3>2, <3>4, FS_CardinalityType
    <3> QED BY <2>1, <3>2, <3>3, <3>4, <3>5
  <2> QED BY <2>3, <2>4
<1> QED BY <1>1, DeskInvHolds, PTL

-----------------------------------------------------------------------------
(* The application wizard (apply).                                         *)

Known == 0 .. Len(apps)
Steps == Kinds \cup {"accept"}
Application == [sum : Sums, has : SUBSET (Kinds \cup {"loan", "delivered"})]

ApplyTypeOK ==
    /\ form \in Sums
    /\ step \in {"form", "offer"}
    /\ app \in Known /\ saved \in Known /\ cookie \in Known
    /\ apps \in Seq(Application)
    /\ job \in {None} \cup [pc : {"sent", "created", "answered"},
                            op : {"submit"} \cup Steps, app : Known]
    /\ resume \in {None} \cup [pc : {"sent"}, app : Known]
                         \cup [pc : {"served"}, app : Known, has : SUBSET Kinds]
    /\ resumed \in BOOLEAN

(* The job that was answered is of the application the cookie names, but   *)
(* for an acceptance, which may have given the cookie back.                *)
AnsweredIsHeld ==
    job.pc = "answered" /\ job.op # "accept" => cookie = job.app

(* The form is that of the application submitted from it.                  *)
FormOfTheJob ==
    job.pc \in {"created", "answered"} /\ job.op = "submit"
        => job.app # 0 /\ form = apps[job.app].sum

CreatedIsSubmitted == job.pc = "created" => job.op = "submit"

StepOfTheJob ==
    job.pc # "idle" /\ job.op # "submit"
        => step = "offer" /\ (~resumed => job.app = app)

FormOfTheStep ==
    /\ "offer" \in facts => step = "offer"
    /\ step = "offer" /\ ~resumed => app # 0 /\ form = apps[app].sum

ApplyInv ==
    /\ ApplyTypeOK /\ AnsweredIsHeld /\ RefreshComesBack
    /\ CreatedIsSubmitted /\ FormOfTheJob /\ StepOfTheJob /\ FormOfTheStep

Job(n) == [pc : {"sent", "created", "answered"}, op : {"submit"} \cup Steps, app : 0 .. n]
Asked(n) == [pc : {"sent"}, app : 0 .. n]
Served(n) == [pc : {"served"}, app : 0 .. n, has : SUBSET Kinds]

(* A handler that runs is a record of the job's, and so with the resume.   *)
LEMMA JobShape ==
  ASSUME ApplyTypeOK
  PROVE  /\ Len(apps) \in Nat
         /\ job \in {None} \cup Job(Len(apps))
         /\ job.pc # "idle" => job \in Job(Len(apps))
         /\ resume \in {None} \cup Asked(Len(apps)) \cup Served(Len(apps))
         /\ resume.pc # "idle" => resume.app \in Known
         /\ resume.pc = "served" => resume \in Served(Len(apps))
<1>1. None.pc = "idle"
  BY DEF None
<1>2. Len(apps) \in Nat
  BY DEF ApplyTypeOK
<1>3. job \in {None} \cup Job(Len(apps))
  BY DEF ApplyTypeOK, Job, Known
<1>4. resume \in {None} \cup Asked(Len(apps)) \cup Served(Len(apps))
  BY DEF ApplyTypeOK, Asked, Served, Known
<1>5. resume.pc # "idle" => resume.app \in Known
  BY <1>1, <1>4 DEF Asked, Served, Known
<1>6. resume.pc = "served" => resume \in Served(Len(apps))
  BY <1>1, <1>4 DEF Asked
<1> QED BY <1>1, <1>2, <1>3, <1>4, <1>5, <1>6

(* The form is empty at first (ApplyInit).                                 *)
LEMMA ApplyStarts == ApplyInit => ApplyInv
<1> SUFFICES ASSUME ApplyInit PROVE ApplyInv
  OBVIOUS
<1>1. None.pc = "idle" /\ "idle" # "answered" /\ "idle" # "created"
  BY DEF None
<1>2. ApplyTypeOK
  <2>1. 0 \in Known /\ apps \in Seq(Application)
    BY DEF ApplyInit, Known
  <2>2. job = None /\ resume = None
    BY DEF ApplyInit
  <2> QED BY <2>1, <2>2, DefaultIsASum DEF ApplyInit, ApplyTypeOK
<1>3. AnsweredIsHeld /\ FormOfTheJob /\ StepOfTheJob /\ FormOfTheStep /\ CreatedIsSubmitted
  BY <1>1 DEF ApplyInit, AnsweredIsHeld, FormOfTheJob, StepOfTheJob, FormOfTheStep,
              CreatedIsSubmitted
<1>4. RefreshComesBack
  BY DEF ApplyInit, RefreshComesBack, Ids
<1> QED BY <1>2, <1>3, <1>4 DEF ApplyInv

(* Steps that leave the job, the cookie and what is saved where they are.  *)
LEMMA QuietTab ==
  ASSUME ApplyInv, ApplyTypeOK',
         UNCHANGED <<form, step, app, job, resumed, browser, apps, lost>>,
         "offer" \in facts' => "offer" \in facts
  PROVE  ApplyInv'
BY DEF ApplyInv, AnsweredIsHeld, RefreshComesBack, Submitted, FormOfTheJob, StepOfTheJob,
       FormOfTheStep, CreatedIsSubmitted, Ids, Holds, browser, lost

(* A reload asks for what the cookie stands for (Reload).                  *)
LEMMA ReloadStep == ASSUME ApplyInv, Reload PROVE ApplyInv'
<1>1. /\ form' = Default /\ step' = "form" /\ app' = 0 /\ facts' = {}
      /\ job' = None /\ resume' = Mount(saved) /\ resumed' = FALSE
      /\ forgotten' = forgotten \cup ({cookie} \ {0, saved})
      /\ UNCHANGED <<saved, cookie, apps>>
  BY DEF Reload, browser
<1>2. None.pc = "idle" /\ "idle" # "answered" /\ "idle" # "created"
  BY DEF None
<1>3. resume' \in {None} \cup [pc : {"sent"}, app : Known]
  BY <1>1 DEF Mount, ApplyInv, ApplyTypeOK
<1>4. ApplyTypeOK'
  <2>1. Known' = Known /\ 0 \in Known
    BY <1>1 DEF Known, ApplyInv, ApplyTypeOK
  <2> QED BY <1>1, <1>3, <2>1, DefaultIsASum DEF ApplyInv, ApplyTypeOK
<1>5. RefreshComesBack'
  <2>1. ASSUME NEW id \in Ids, id = cookie PROVE saved = id \/ id \in forgotten'
    <3>1. id # 0
      BY DEF Ids
    <3> QED BY <1>1, <2>1, <3>1
  <2> QED BY <1>1, <2>1 DEF RefreshComesBack, Ids, Holds
<1> QED BY <1>1, <1>2, <1>4, <1>5
        DEF ApplyInv, AnsweredIsHeld, FormOfTheJob, StepOfTheJob, FormOfTheStep,
            CreatedIsSubmitted

(* It is answered with what there is (ResumeIsServed).                     *)
LEMMA ResumeServedStep == ASSUME ApplyInv, ResumeIsServed PROVE ApplyInv'
<1>1. /\ resume.pc = "sent"
      /\ resume' = [pc |-> "served", app |-> resume.app,
                    has |-> apps[resume.app].has \cap Kinds]
      /\ UNCHANGED <<form, step, app, facts, job, resumed, browser, apps, lost>>
  BY DEF ResumeIsServed
<1>2. resume.app \in Known
  BY <1>1, JobShape DEF ApplyInv
<1>3. resume' \in [pc : {"served"}, app : Known, has : SUBSET Kinds]
  BY <1>1, <1>2
<1>4. ApplyTypeOK'
  BY <1>1, <1>3 DEF ApplyInv, ApplyTypeOK, Known, browser
<1> QED BY <1>1, <1>4, QuietTab

(* And what it was answered is shown (ResumeLands).                        *)
LEMMA ResumeLandsStep == ASSUME ApplyInv, ResumeLands PROVE ApplyInv'
<1>1. /\ resume.pc = "served" /\ resume' = None
      /\ app' = resume.app /\ step' = "offer" /\ resumed' = TRUE
      /\ forgotten' = forgotten \cup (unsaved \ {resume.app})
      /\ UNCHANGED <<form, job, saved, cookie, apps, unsaved>>
  BY DEF ResumeLands, browser
<1>2. resume.app \in Known
  BY <1>1, JobShape DEF ApplyInv
<1>3. ApplyTypeOK'
  BY <1>1, <1>2 DEF ApplyInv, ApplyTypeOK, Known
<1>4. RefreshComesBack' /\ AnsweredIsHeld' /\ FormOfTheJob' /\ CreatedIsSubmitted'
  BY <1>1 DEF ApplyInv, RefreshComesBack, AnsweredIsHeld, FormOfTheJob, CreatedIsSubmitted,
              Submitted, Ids, Holds
<1>5. StepOfTheJob' /\ FormOfTheStep'
  BY <1>1 DEF StepOfTheJob, FormOfTheStep
<1> QED BY <1>3, <1>4, <1>5 DEF ApplyInv

(* Or it fails, and the saved id is cleared (ResumeFails).                 *)
LEMMA ResumeFailsStep == ASSUME ApplyInv, ResumeFails PROVE ApplyInv'
<1>1. /\ resume' = None /\ saved' \in {0, saved}
      /\ forgotten' = forgotten \cup ({saved} \ {saved'})
      /\ UNCHANGED <<form, step, app, facts, job, resumed, cookie, apps, unsaved>>
  BY DEF ResumeFails, Clears
<1>2. ApplyTypeOK'
  <2>1. 0 \in Known
    BY JobShape DEF Known, ApplyInv
  <2> QED BY <1>1, <2>1 DEF ApplyInv, ApplyTypeOK, Known
<1>3. RefreshComesBack'
  <2>1. \A id \in Ids : saved = id => saved' = id \/ id \in forgotten'
    BY <1>1 DEF Ids
  <2> QED BY <1>1, <2>1 DEF ApplyInv, RefreshComesBack, Submitted, Ids, Holds
<1> QED BY <1>1, <1>2, <1>3
        DEF ApplyInv, AnsweredIsHeld, FormOfTheJob, StepOfTheJob, FormOfTheStep,
            CreatedIsSubmitted

(* An edit touches the form alone (Edits).                                 *)
LEMMA EditsStep == ASSUME ApplyInv, NEW n \in Sums, Edits(n) PROVE ApplyInv'
<1>1. /\ step = "form" /\ job.pc = "idle" /\ form' = n
      /\ UNCHANGED <<step, app, facts, job, resume, resumed, saved, cookie, apps, lost>>
  BY DEF Edits, browser
<1>2. ApplyTypeOK'
  BY <1>1 DEF ApplyInv, ApplyTypeOK, Known
<1> QED BY <1>1, <1>2
        DEF ApplyInv, AnsweredIsHeld, RefreshComesBack, Submitted, FormOfTheJob, StepOfTheJob,
            FormOfTheStep, CreatedIsSubmitted, Ids, Holds, lost

(* One job is begun, for the application on screen (Begins).               *)
LEMMA BeginsStep ==
  ASSUME ApplyInv, NEW op \in {"submit"} \cup Steps, NEW id \in Known, Begins(op, id),
         op # "submit" => step = "offer" /\ id = app
  PROVE  ApplyInv'
<1>1. /\ job.pc = "idle" /\ job' = [pc |-> "sent", op |-> op, app |-> id]
      /\ UNCHANGED <<form, step, app, facts, resume, resumed, saved, cookie, apps, lost>>
  BY DEF Begins, browser
<1>2. ApplyTypeOK'
  <2>1. job' \in [pc : {"sent", "created", "answered"}, op : {"submit"} \cup Steps, app : Known]
    BY <1>1
  <2> QED BY <1>1, <2>1 DEF ApplyInv, ApplyTypeOK, Known
<1>3. job'.pc = "sent" /\ job'.op = op /\ job'.app = id
  BY <1>1
<1> QED BY <1>1, <1>2, <1>3
        DEF ApplyInv, AnsweredIsHeld, RefreshComesBack, Submitted, FormOfTheJob, StepOfTheJob,
            FormOfTheStep, CreatedIsSubmitted, Ids, Holds, lost

(* A submission makes one application (Creates).                           *)
LEMMA CreatesStep == ASSUME ApplyInv, Creates PROVE ApplyInv'
<1>1. /\ job.pc = "sent" /\ job.op = "submit"
      /\ job' = [job EXCEPT !.pc = "created", !.app = Len(apps) + 1]
      /\ UNCHANGED <<form, step, app, facts, resume, resumed, saved, cookie, lost>>
  BY DEF Creates, browser
<1>2. PICK has \in {{}, {"kyc"}} : apps' = Append(apps, [sum |-> form, has |-> has])
  BY DEF Creates
<1>3. PICK a \in Application : a = [sum |-> form, has |-> has]
  BY <1>2 DEF Application, Kinds, ApplyInv, ApplyTypeOK
<1>4. /\ apps \in Seq(Application) /\ Len(apps) \in Nat /\ apps' = Append(apps, a)
  BY <1>2, <1>3 DEF ApplyInv, ApplyTypeOK
<1>5. /\ apps' \in Seq(Application) /\ Len(apps') = Len(apps) + 1
      /\ \A i \in 1 .. Len(apps) : apps'[i] = apps[i]
      /\ apps'[Len(apps) + 1] = a
  BY <1>4
<1>6. /\ job \in Job(Len(apps))
      /\ job' = [pc |-> "created", op |-> "submit", app |-> Len(apps) + 1]
  BY <1>1, JobShape DEF ApplyInv, Job
<1>7. Known \subseteq Known' /\ Len(apps) + 1 \in Known'
  BY <1>4, <1>5 DEF Known
<1>8. ApplyTypeOK'
  <2>1. job' \in [pc : {"sent", "created", "answered"}, op : {"submit"} \cup Steps,
                  app : Known]'
    BY <1>6, <1>7
  <2>2. (resume \in {None} \cup [pc : {"sent"}, app : Known]
                           \cup [pc : {"served"}, app : Known, has : SUBSET Kinds])'
    <3>1. resume = None \/ resume \in [pc : {"sent"}, app : Known]
            \/ resume \in [pc : {"served"}, app : Known, has : SUBSET Kinds]
      BY DEF ApplyInv, ApplyTypeOK
    <3> QED BY <1>1, <1>7, <3>1
  <2>3. app' \in Known' /\ saved' \in Known' /\ cookie' \in Known'
    BY <1>1, <1>7 DEF ApplyInv, ApplyTypeOK
  <2> QED BY <1>1, <1>5, <2>1, <2>2, <2>3 DEF ApplyInv, ApplyTypeOK
<1>9. RefreshComesBack'
  <2>1. ASSUME NEW id \in Ids', id = cookie, "loan" \notin apps'[id].has
        PROVE  saved = id \/ (id \in unsaved /\ app = id) \/ id \in forgotten
    <3>1. id \in Ids /\ apps'[id] = apps[id]
      BY <1>4, <1>5, <2>1 DEF Ids, Known, ApplyInv, ApplyTypeOK
    <3>2. ~ Submitted
      BY <1>1 DEF Submitted
    <3> QED BY <2>1, <3>1, <3>2 DEF ApplyInv, RefreshComesBack, Holds, lost
  <2> QED BY <1>1, <2>1 DEF RefreshComesBack, Holds, lost
<1>10. FormOfTheJob' /\ AnsweredIsHeld' /\ StepOfTheJob' /\ CreatedIsSubmitted'
  BY <1>1, <1>3, <1>4, <1>5, <1>6
     DEF FormOfTheJob, AnsweredIsHeld, StepOfTheJob, CreatedIsSubmitted
<1>11. FormOfTheStep'
  <2>1. app # 0 => apps'[app] = apps[app]
    BY <1>4, <1>5 DEF ApplyInv, ApplyTypeOK, Known
  <2> QED BY <1>1, <2>1 DEF ApplyInv, FormOfTheStep
<1> QED BY <1>8, <1>9, <1>10, <1>11 DEF ApplyInv

(* The cookie is of the newest session (CookieArrives).                    *)
LEMMA CookieStep == ASSUME ApplyInv, CookieArrives PROVE ApplyInv'
<1>1. /\ job.pc = "created" /\ cookie' = job.app
      /\ job' = [job EXCEPT !.pc = "answered"]
      /\ UNCHANGED <<form, step, app, facts, resume, resumed, saved, apps, lost>>
  BY DEF CookieArrives
<1>2. job \in Job(Len(apps)) /\ job.op = "submit"
  BY <1>1, JobShape DEF ApplyInv, CreatedIsSubmitted
<1>3. /\ job' \in Job(Len(apps)) /\ job'.pc = "answered" /\ job'.op = "submit"
      /\ job'.app = job.app
  BY <1>1, <1>2 DEF Job
<1>4. ApplyTypeOK'
  BY <1>1, <1>2, <1>3 DEF ApplyInv, ApplyTypeOK, Known, Job
<1>5. AnsweredIsHeld' /\ RefreshComesBack' /\ CreatedIsSubmitted'
  BY <1>1, <1>3 DEF AnsweredIsHeld, RefreshComesBack, Submitted, CreatedIsSubmitted
<1> QED BY <1>1, <1>2, <1>3, <1>4, <1>5
        DEF ApplyInv, FormOfTheJob, StepOfTheJob, FormOfTheStep

(* Its answer shows the application it made (SubmissionLands).             *)
LEMMA SubmissionStep == ASSUME ApplyInv, SubmissionLands PROVE ApplyInv'
<1>1. /\ job.pc = "answered" /\ job.op = "submit"
      /\ app' = job.app /\ step' = "offer" /\ job' = None
      /\ \/ saved' = job.app
         \/ saved' = saved /\ job.app \in unsaved' \cup {saved}
      /\ UNCHANGED <<form, resume, resumed, cookie, apps, forgotten>>
  BY DEF SubmissionLands, Saves
<1>2. job \in Job(Len(apps)) /\ cookie = job.app /\ None.pc = "idle"
  BY <1>1, JobShape DEF ApplyInv, AnsweredIsHeld, None
<1>3. job.app # 0 /\ form = apps[job.app].sum
  BY <1>1 DEF ApplyInv, FormOfTheJob
<1>4. ApplyTypeOK'
  BY <1>1, <1>2 DEF ApplyInv, ApplyTypeOK, Known, Job
<1>5. RefreshComesBack'
  BY <1>1, <1>2 DEF RefreshComesBack, Ids, Holds
<1>6. AnsweredIsHeld' /\ FormOfTheJob' /\ StepOfTheJob' /\ CreatedIsSubmitted'
  BY <1>1, <1>2 DEF AnsweredIsHeld, FormOfTheJob, StepOfTheJob, CreatedIsSubmitted
<1>7. FormOfTheStep'
  BY <1>1, <1>3 DEF FormOfTheStep
<1> QED BY <1>4, <1>5, <1>6, <1>7 DEF ApplyInv

(* A job that fails shows its failure (JobFails).                          *)
LEMMA JobFailsStep == ASSUME ApplyInv, JobFails PROVE ApplyInv'
<1>1. /\ job' = None
      /\ forgotten' = IF Submitted THEN forgotten \cup {job.app} ELSE forgotten
      /\ UNCHANGED <<form, step, app, facts, resume, resumed, saved, cookie, apps, unsaved>>
  BY DEF JobFails, browser
<1>2. None.pc = "idle" /\ (Submitted => cookie = job.app)
  BY DEF ApplyInv, AnsweredIsHeld, Submitted, None
<1>3. ApplyTypeOK'
  BY <1>1 DEF ApplyInv, ApplyTypeOK, Known
<1>4. RefreshComesBack'
  BY <1>1, <1>2 DEF ApplyInv, RefreshComesBack, Ids, Holds
<1> QED BY <1>1, <1>2, <1>3, <1>4
        DEF ApplyInv, AnsweredIsHeld, FormOfTheJob, StepOfTheJob, FormOfTheStep,
            CreatedIsSubmitted

(* What an application gains changes neither what it asked for nor what a  *)
(* refresh finds.                                                          *)
LEMMA GainsShape ==
  ASSUME ApplyTypeOK, NEW id \in Known, NEW what \in Kinds \cup {"loan", "delivered"},
         Gains(id, what)
  PROVE  /\ apps' \in Seq(Application) /\ Len(apps') = Len(apps)
         /\ \A i \in Ids : /\ apps'[i].sum = apps[i].sum
                           /\ apps[i].has \subseteq apps'[i].has
         /\ id \in Ids => what \in apps'[id].has
<1>1. apps \in Seq(Application) /\ Len(apps) \in Nat
  BY DEF ApplyTypeOK
<1> DEFINE new == [apps[id] EXCEPT !.has = apps[id].has \cup {what}]
<1>2. apps' = [apps EXCEPT ![id] = new]
  BY DEF Gains
<1>3. \A i \in Ids : apps[i] \in Application
  BY <1>1 DEF Ids
<1>4. id \in Ids =>
         new \in Application /\ new.sum = apps[id].sum /\ new.has = apps[id].has \cup {what}
  BY <1>3 DEF Application
<1> HIDE DEF new
<1>5. apps' \in Seq(Application) /\ Len(apps') = Len(apps)
  <2>1. CASE id \in Ids
    BY <1>1, <1>2, <1>4, <2>1, ExceptSeq DEF Ids
  <2>2. CASE id \notin Ids
    <3>1. apps' = apps
      BY <1>1, <1>2, <2>2 DEF Ids
    <3> QED BY <1>1, <3>1
  <2> QED BY <2>1, <2>2
<1>6. \A i \in Ids : apps'[i] = IF i = id THEN new ELSE apps[i]
  BY <1>1, <1>2 DEF Ids
<1> QED BY <1>4, <1>5, <1>6

(* A service acts on the application it was asked for (Serves).            *)
LEMMA ServesStep == ASSUME ApplyInv, Serves PROVE ApplyInv'
<1>1. /\ job.pc = "sent" /\ job.op # "submit" /\ job.app = cookie
      /\ cookie' \in IF job.op = "accept" THEN {0, cookie} ELSE {cookie}
      /\ job' = [job EXCEPT !.pc = "answered"]
      /\ UNCHANGED <<form, step, app, facts, resume, resumed, saved, lost>>
  BY DEF Serves, Holds
<1>2. job \in Job(Len(apps))
  BY <1>1, JobShape DEF ApplyInv
<1>3. PICK what \in Kinds \cup {"loan", "delivered"} :
         Gains(job.app, what) /\ (job.op = "accept" => what = "loan")
  BY <1>1, <1>2 DEF Serves, Job, Steps
<1>4. job.app \in Known /\ Len(apps) \in Nat
  BY <1>2, JobShape DEF Job, Known, ApplyInv
<1>5. /\ apps' \in Seq(Application) /\ Len(apps') = Len(apps)
      /\ \A i \in Ids : apps'[i].sum = apps[i].sum /\ apps[i].has \subseteq apps'[i].has
      /\ job.app \in Ids => what \in apps'[job.app].has
  BY <1>3, <1>4, GainsShape DEF ApplyInv
<1>6. /\ job' \in Job(Len(apps)) /\ job'.pc = "answered" /\ job'.op = job.op
      /\ job'.app = job.app
  BY <1>1, <1>2 DEF Job
<1>7. Known' = Known /\ Ids' = Ids
  BY <1>5 DEF Known, Ids
<1>8. ApplyTypeOK'
  <2>1. cookie' \in Known
    BY <1>1, <1>4 DEF Known
  <2>2. job' \in [pc : {"sent", "created", "answered"}, op : {"submit"} \cup Steps, app : Known]
    BY <1>6 DEF Job, Known
  <2>3. resume \in {None} \cup [pc : {"sent"}, app : Known]
                          \cup [pc : {"served"}, app : Known, has : SUBSET Kinds]
    BY DEF ApplyInv, ApplyTypeOK
  <2> QED BY <1>1, <1>5, <1>7, <2>1, <2>2, <2>3 DEF ApplyInv, ApplyTypeOK
<1>9. AnsweredIsHeld' /\ CreatedIsSubmitted' /\ FormOfTheJob' /\ StepOfTheJob'
  BY <1>1, <1>6
     DEF ApplyInv, AnsweredIsHeld, CreatedIsSubmitted, FormOfTheJob, StepOfTheJob
<1>10. RefreshComesBack'
  <2>1. ASSUME NEW id \in Ids, id = cookie', "loan" \notin apps'[id].has
        PROVE  saved = id \/ (id \in unsaved /\ app = id) \/ id \in forgotten
    <3>1. id # 0 /\ id = cookie
      BY <1>1, <2>1 DEF Ids
    <3>2. "loan" \notin apps[id].has /\ ~ Submitted
      BY <1>1, <1>5, <2>1 DEF Submitted
    <3> QED BY <3>1, <3>2 DEF ApplyInv, RefreshComesBack, Holds, lost
  <2> QED BY <1>1, <1>7, <2>1 DEF RefreshComesBack, Holds, lost
<1>11. FormOfTheStep'
  <2>1. app # 0 => app \in Ids
    BY <1>4 DEF ApplyInv, ApplyTypeOK, Known, Ids
  <2> QED BY <1>1, <1>5, <2>1 DEF ApplyInv, FormOfTheStep
<1> QED BY <1>8, <1>9, <1>10, <1>11 DEF ApplyInv

(* What lands is of the application on screen (StepLands).                 *)
LEMMA StepLandsStep == ASSUME ApplyInv, StepLands PROVE ApplyInv'
<1>1. /\ job.pc = "answered" /\ job.op \in Kinds /\ job' = None
      /\ \/ app' = job.app /\ Saves(job.app)
         \/ UNCHANGED <<app, saved, unsaved>>
      /\ UNCHANGED <<form, step, resume, resumed, cookie, apps, forgotten>>
  BY DEF StepLands
<1>2. /\ job \in Job(Len(apps)) /\ cookie = job.app /\ None.pc = "idle"
      /\ job.op # "submit"
  BY <1>1, JobShape DEF ApplyInv, AnsweredIsHeld, None, Kinds
<1>3. step = "offer" /\ (~resumed => job.app = app)
  BY <1>1, <1>2 DEF ApplyInv, StepOfTheJob
<1>4. ApplyTypeOK'
  BY <1>1, <1>2 DEF ApplyInv, ApplyTypeOK, Known, Job, Saves
<1>5. RefreshComesBack'
  <2>1. ~ Submitted
    BY <1>2 DEF Submitted
  <2>2. CASE app' = job.app /\ Saves(job.app)
    BY <1>1, <1>2, <2>1, <2>2 DEF ApplyInv, RefreshComesBack, Ids, Holds, Saves
  <2>3. CASE UNCHANGED <<app, saved, unsaved>>
    BY <1>1, <2>1, <2>3 DEF ApplyInv, RefreshComesBack, Ids, Holds
  <2> QED BY <1>1, <2>2, <2>3
<1>6. AnsweredIsHeld' /\ FormOfTheJob' /\ StepOfTheJob' /\ CreatedIsSubmitted'
  BY <1>1, <1>2 DEF AnsweredIsHeld, FormOfTheJob, StepOfTheJob, CreatedIsSubmitted
<1>7. FormOfTheStep'
  BY <1>1, <1>3 DEF ApplyInv, FormOfTheStep
<1> QED BY <1>4, <1>5, <1>6, <1>7 DEF ApplyInv

(* And so is an acceptance (AcceptLands).                                  *)
LEMMA AcceptStep == ASSUME ApplyInv, AcceptLands PROVE ApplyInv'
<1>1. /\ job.pc = "answered" /\ job.op = "accept" /\ job' = None
      /\ facts' = facts \cup {"loan"} /\ saved' \in {0, saved} /\ cookie' = 0
      /\ UNCHANGED <<form, step, app, resume, resumed, apps, lost>>
  BY DEF AcceptLands, Clears
<1>2. None.pc = "idle"
  BY DEF None
<1>3. ApplyTypeOK'
  <2>1. 0 \in Known
    BY JobShape DEF Known, ApplyInv
  <2> QED BY <1>1, <2>1 DEF ApplyInv, ApplyTypeOK, Known
<1>4. RefreshComesBack'
  BY <1>1 DEF RefreshComesBack, Ids, Holds
<1>5. "offer" \in facts' => "offer" \in facts
  BY <1>1
<1> QED BY <1>1, <1>2, <1>3, <1>4, <1>5
        DEF ApplyInv, AnsweredIsHeld, FormOfTheJob, StepOfTheJob, FormOfTheStep,
            CreatedIsSubmitted

(* And the check for a delivered disclosure (Checks, CheckLands).          *)
LEMMA CheckStep ==
  ASSUME ApplyInv, Checks \/ ChainIsDelivered \/ CheckLands PROVE ApplyInv'
<1>1. /\ UNCHANGED <<form, step, app, job, resume, resumed, browser, apps, lost>>
      /\ "offer" \in facts' => "offer" \in facts
  BY DEF Checks, ChainIsDelivered, CheckLands
<1>2. ApplyTypeOK'
  BY <1>1 DEF ApplyInv, ApplyTypeOK, Known, browser
<1> QED BY <1>1, <1>2, QuietTab

(* An officer's delivery is of one application (OfficerDelivers).          *)
LEMMA DeliveryStep == ASSUME ApplyInv, NEW id \in Ids, OfficerDelivers(id) PROVE ApplyInv'
<1>1. UNCHANGED <<form, step, app, facts, job, resume, resumed, saved, cookie, lost>>
  BY DEF OfficerDelivers, tab, browser
<1>2. id \in Known /\ Len(apps) \in Nat
  BY JobShape DEF ApplyInv, Ids, Known
<1>3. /\ apps' \in Seq(Application) /\ Len(apps') = Len(apps)
      /\ \A i \in Ids : apps'[i].sum = apps[i].sum /\ apps[i].has \subseteq apps'[i].has
  BY <1>2, GainsShape DEF ApplyInv, OfficerDelivers
<1>4. Known' = Known /\ Ids' = Ids
  BY <1>3 DEF Known, Ids
<1>5. ApplyTypeOK'
  <2>1. /\ resume \in {None} \cup [pc : {"sent"}, app : Known]
                          \cup [pc : {"served"}, app : Known, has : SUBSET Kinds]
        /\ job \in {None} \cup [pc : {"sent", "created", "answered"},
                            op : {"submit"} \cup Steps, app : Known]
    BY DEF ApplyInv, ApplyTypeOK
  <2> QED BY <1>1, <1>3, <1>4, <2>1 DEF ApplyInv, ApplyTypeOK
<1>6. RefreshComesBack'
  BY <1>1, <1>3, <1>4 DEF ApplyInv, RefreshComesBack, Submitted, Holds, lost
<1>7. /\ app # 0 => app \in Ids
      /\ FormOfTheJob => (job.pc \in {"created", "answered"} /\ job.op = "submit"
                            => job.app \in Ids)
  BY <1>2, JobShape DEF ApplyInv, ApplyTypeOK, Known, Ids, Job, FormOfTheJob
<1>8. FormOfTheStep' /\ FormOfTheJob'
  BY <1>1, <1>3, <1>7 DEF ApplyInv, FormOfTheStep, FormOfTheJob
<1> QED BY <1>1, <1>5, <1>6, <1>8 DEF ApplyInv, AnsweredIsHeld, StepOfTheJob, CreatedIsSubmitted

(* So the wizard's invariant holds in every state.                         *)
LEMMA ApplyInvHolds == ApplySpec => []ApplyInv
<1>1. ApplyInv /\ [ApplyNext]_applyVars => ApplyInv'
  <2> SUFFICES ASSUME ApplyInv, [ApplyNext]_applyVars PROVE ApplyInv'
    OBVIOUS
  <2>1. CASE UNCHANGED applyVars
    <3>1. ApplyTypeOK'
      BY <2>1 DEF ApplyInv, ApplyTypeOK, Known, applyVars, tab, browser
    <3> QED BY <2>1, <3>1, QuietTab DEF applyVars, tab
  <2>2. ASSUME SubmitApplication PROVE ApplyInv'
    <3>1. 0 \in Known /\ "submit" \in {"submit"} \cup Steps
      BY JobShape DEF Known, ApplyInv
    <3>2. Begins("submit", 0)
      BY <2>2 DEF SubmitApplication
    <3> QED BY <3>1, <3>2, BeginsStep
  <2>3. ASSUME NEW op \in Kinds \cup {"accept"}, Asks(op) PROVE ApplyInv'
    <3>1. step = "offer" /\ app \in Known /\ Begins(op, app) /\ op \in {"submit"} \cup Steps
      BY <2>3 DEF Asks, ApplyInv, ApplyTypeOK, Steps
    <3> QED BY <3>1, BeginsStep
  <2>4. CASE ApplyNext
    BY <2>2, <2>3, <2>4, ReloadStep, ResumeServedStep, ResumeLandsStep, ResumeFailsStep,
       EditsStep, CreatesStep, CookieStep, SubmissionStep, JobFailsStep, ServesStep,
       StepLandsStep, AcceptStep, CheckStep, DeliveryStep DEF ApplyNext
  <2> QED BY <2>1, <2>4
<1> QED BY <1>1, ApplyStarts, PTL DEF ApplySpec

(* What the wizard, localStorage and the cookie hold is of applications    *)
(* there are (ApplyPage, RESUME_KEY).                                      *)
THEOREM ApplyTypeHolds == ApplySpec => []ApplyTypeOK
BY ApplyInvHolds, PTL DEF ApplyInv

(* Wherever the tab goes, or answers are lost: the application the cookie  *)
(* names is the one a refresh finds, with the exceptions the property      *)
(* lists; the page saves the id with the answer that carries the cookie    *)
(* (submitApplication), and with no other application's.                   *)
THEOREM RefreshFindsTheApplication == ApplySpec => []RefreshComesBack
<1>1. ApplyInv => RefreshComesBack
  BY DEF ApplyInv
<1> QED BY <1>1, ApplyInvHolds, PTL

(* The amount OfferPanel is given is that of the application, as step 5    *)
(* has no way back to the form it was submitted from.                      *)
THEOREM OfferIsOfItsForm == ApplySpec => []OfferShowsItsTerms
<1>1. ApplyInv => OfferShowsItsTerms
  BY DEF ApplyInv, FormOfTheStep, OfferShowsItsTerms
<1> QED BY <1>1, ApplyInvHolds, PTL

-----------------------------------------------------------------------------
(* Whatever the pages' visits, loans and files, neither page shows what an *)
(* earlier visit left behind (the turn checks of both page.tsx), but for   *)
(* the application and decision that recheckKyc's load brings in.          *)
THEOREM NoScreenOfAnotherVisit == PagesSpec => []ScreensAreOfThisVisit
<1> QED BY PaymentScreenIsOfThisVisit, DeskShowsThisVisit, PTL
        DEF PagesSpec, ScreensAreOfThisVisit

=============================================================================
