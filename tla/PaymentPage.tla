---------------------------- MODULE PaymentPage -----------------------------
(***************************************************************************)
(* The servicing page of a loan (frontend app/servicing/[loanId]/page.tsx).*)
(* One component is reused for every loan, so a handler may outlive the    *)
(* loan it was started for: `route' holds the loan of each visit, and the  *)
(* number of visits is the page's route generation.  A visit has the load  *)
(* of its mount and at most one action, as actionBusy disables the buttons.*)
(* Behind the page, a key is charged once until it lapses (Payments), and  *)
(* a balance is the number of movements it has had.                        *)
(***************************************************************************)
EXTENDS Naturals, Sequences

CONSTANTS Loans,      \* the accounts the user goes between
          PayKeys,    \* the keys crypto.randomUUID mints
          Charges,    \* the amounts the form is filled with
          MaxVisits,  \* bound on navigations
          MaxMoves,   \* bound on the movements of a balance
          Nil         \* no attempt, no balance, no body

Body == [key : PayKeys, loan : Loans, amount : Charges]

ASSUME PayPageAssumption ==
    /\ MaxVisits \in Nat \ {0} /\ MaxMoves \in Nat
    /\ Nil \notin [visit : 1..MaxVisits, read : Nat] \cup Nat
    /\ Nil \notin [body : Body, state : {"unresolved", "captured", "resolved"}]

VARIABLES
    route,    \* the loan of each visit; the last one is on screen
    balance,  \* the balance on screen, with the visit whose handler set it
    last,     \* lastPayment
    busy,     \* actionBusy
    notice,   \* actionMsg or actionErr, with the visit whose handler set it
    act,      \* per visit: the action under way
    mount,    \* per visit: loadAll
    wire,     \* charges whose sender has given up and that may still arrive
    charge,   \* per key: what payment-service holds of it
    moves,    \* per loan: the movements of its balance
    charged,  \* per key: how often the card was charged (history)
    minted,   \* per key: the visit that minted it, or 0 (history)
    settled,  \* keys answered 2xx or given up by the reset (history)
    lapsed    \* keys whose TTL has passed

screen == <<route, balance, last, busy, notice>>
bank == <<wire, charge, moves, charged>>
intents == <<minted, settled, lapsed>>
payPageVars == <<screen, act, mount, bank, intents>>

Visits == 1..MaxVisits
visit == Len(route)

Quiet == [text |-> "none", visit |-> 0, since |-> 0]
Idle == [pc |-> "idle"]

PayPageInit ==
    /\ \E l \in Loans : route = <<l>>
    /\ balance = Nil /\ last = Nil
    /\ busy = FALSE /\ notice = Quiet
    /\ act = [v \in Visits |-> Idle]
    /\ mount = [v \in Visits |-> [pc |-> IF v = 1 THEN "get" ELSE "idle", since |-> 0]]
    /\ wire = {} /\ charge = [k \in PayKeys |-> "none"]
    /\ moves = [l \in Loans |-> 0]
    /\ charged = [k \in PayKeys |-> 0]
    /\ minted = [k \in PayKeys |-> 0] /\ settled = {} /\ lapsed = {}

(* Slip: the loan is compared, not the generation.                         *)
CurrentByLoan(v) == route[v] = route[visit]

(* routeGenRef.current === gen *)
Current(v) == v = visit

-----------------------------------------------------------------------------
(* The route, and the load of a mount.                                     *)

(* The per-loan reset, which runs while the next loan is rendered.         *)
Navigate(l) ==
    /\ visit < MaxVisits /\ l # route[visit]
    /\ route' = Append(route, l)
    /\ balance' = Nil /\ last' = Nil /\ busy' = FALSE /\ notice' = Quiet
    /\ mount' = [mount EXCEPT ![visit + 1] = [pc |-> "get", since |-> moves[l]]]
    /\ UNCHANGED <<act, bank, intents>>

(* A figure served at some moment since it was asked for.                  *)
Read(v, since) == since..moves[route[v]]

(* A load that fails leaves a page without buttons.                        *)
LandLoan(v) ==
    /\ mount[v].pc = "get"
    /\ mount' = [mount EXCEPT ![v] = [pc |-> "done", since |-> 0]]
    /\ \/ UNCHANGED balance
       \/ /\ Current(v)
          /\ \E n \in Read(v, mount[v].since) : balance' = [visit |-> v, read |-> n]
    /\ UNCHANGED <<route, last, busy, notice, act, bank, intents>>

-----------------------------------------------------------------------------
(* The buttons.                                                            *)

Ready == balance # Nil /\ ~busy

Send(a) ==
    /\ act' = [act EXCEPT ![visit] = a]
    /\ busy' = TRUE /\ notice' = Quiet
    /\ UNCHANGED <<route, balance, mount, bank>>

(* Slip: another amount is taken for another intent.                       *)
BlocksSameCharge(a) ==
    last # Nil /\ last.state # "resolved" /\ last.body.amount = a

BlocksNewIntent(a) == last # Nil /\ last.state # "resolved"

Submit(body) ==
    /\ last' = [body |-> body, state |-> "unresolved"]
    /\ Send([pc |-> "sent", op |-> "pay", body |-> body])

MakePayment(k, a) ==
    /\ Ready /\ ~BlocksNewIntent(a)
    /\ minted[k] = 0
    /\ Submit([key |-> k, loan |-> route[visit], amount |-> a])
    /\ minted' = [minted EXCEPT ![k] = visit]
    /\ UNCHANGED <<settled, lapsed>>

RetryPayment ==
    /\ Ready /\ last # Nil /\ last.state # "captured"
    /\ Submit(last.body)
    /\ UNCHANGED intents

StartNewPayment ==
    /\ Ready /\ last # Nil /\ last.state = "unresolved"
    /\ last' = Nil
    /\ settled' = settled \cup {last.body.key}
    /\ UNCHANGED <<route, balance, busy, notice, act, mount, bank, minted, lapsed>>

AdjustBalance ==
    /\ Ready
    /\ Send([pc |-> "sent", op |-> "adjust", body |-> Nil, quote |-> balance.read])
    /\ UNCHANGED <<last, intents>>

WaiveFee ==
    /\ Ready
    /\ Send([pc |-> "sent", op |-> "waive", body |-> Nil])
    /\ UNCHANGED <<last, intents>>

-----------------------------------------------------------------------------
(* What the services do with what was sent.                                *)

Moved(l) == moves' = [moves EXCEPT ![l] = @ + 1]

(* A key that is new, or was credited and has lapsed, is charged; its apply*)
(* succeeds or is refused.                                                 *)
Charge(b, got) ==
    /\ \/ charge[b.key] = "none"
       \/ charge[b.key] = "captured" /\ b.key \in lapsed
    /\ charged[b.key] < 2
    /\ charged' = [charged EXCEPT ![b.key] = @ + 1]
    /\ charge' = [charge EXCEPT ![b.key] = got]
    /\ IF got = "captured" /\ moves[b.loan] < MaxMoves THEN Moved(b.loan)
       ELSE UNCHANGED moves

Replay(b, got) ==
    /\ charge[b.key] = got
    /\ b.key \in lapsed => got = "unapplied"
    /\ UNCHANGED <<charge, charged, moves>>

Outcome(b, got) ==
    \/ got \in {"captured", "unapplied"} /\ (Charge(b, got) \/ Replay(b, got))
    \/ got = "error" /\ UNCHANGED <<charge, charged, moves>>

Answer(v, got) ==
    act' = [act EXCEPT ![v] = [pc |-> "answered", op |-> act[v].op, body |-> act[v].body,
                               got |-> got, since |-> moves'[route[v]]]]

ServePayment(v) ==
    /\ act[v].pc = "sent" /\ act[v].op = "pay"
    /\ \E got \in {"captured", "unapplied", "error"} :
           Outcome(act[v].body, got) /\ Answer(v, got)
    /\ UNCHANGED <<screen, mount, wire, intents>>

(* The compare-and-set of adjust_balance.                                  *)
ServeAdjust(v) ==
    LET l == route[v] IN
    /\ act[v].pc = "sent" /\ act[v].op = "adjust"
    /\ \/ /\ act[v].quote = moves[l] /\ moves[l] < MaxMoves
          /\ Moved(l) /\ Answer(v, "done")
       \/ /\ act[v].quote # moves[l]
          /\ UNCHANGED moves /\ Answer(v, "conflict")
    /\ UNCHANGED <<screen, mount, wire, charge, charged, intents>>

ServeWaiver(v) ==
    /\ act[v].pc = "sent" /\ act[v].op = "waive"
    /\ UNCHANGED moves /\ Answer(v, "done")
    /\ UNCHANGED <<screen, mount, wire, charge, charged, intents>>

(* The page is told of a network error; the charge may arrive all the same.*)
Lose(v) ==
    /\ act[v].pc \in {"sent", "answered"}
    /\ UNCHANGED moves /\ Answer(v, "error")
    /\ wire' = IF act[v].pc = "sent" /\ act[v].op = "pay"
               THEN wire \cup {act[v].body} ELSE wire
    /\ UNCHANGED <<screen, mount, charge, charged, intents>>

Arrive(b) ==
    /\ \E got \in {"captured", "unapplied", "error"} : Outcome(b, got)
    /\ wire' = wire \ {b}
    /\ UNCHANGED <<screen, act, mount, intents>>

(* Another writer of the balance.                                          *)
Move(l) ==
    /\ moves[l] < MaxMoves /\ Moved(l)
    /\ UNCHANGED <<screen, act, mount, wire, charge, charged, intents>>

Lapse(k) ==
    /\ charge[k] = "captured" /\ k \notin lapsed
    /\ lapsed' = lapsed \cup {k}
    /\ UNCHANGED <<screen, act, mount, bank, minted, settled>>

-----------------------------------------------------------------------------
(* The handlers, resumed.                                                  *)

(* An answer of an earlier visit changes nothing on screen.                *)
Drop(v) ==
    /\ act[v].pc \in {"answered", "refresh"} /\ ~Current(v)
    /\ act' = [act EXCEPT ![v] = Idle]
    /\ UNCHANGED <<screen, mount, bank, intents>>

Say(v, text, since) == notice' = [text |-> text, visit |-> v, since |-> since]

Finish(v, text, since) ==
    /\ Say(v, text, since)
    /\ busy' = FALSE
    /\ act' = [act EXCEPT ![v] = Idle]

Await(v) == act' = [act EXCEPT ![v] = [pc |-> "refresh", op |-> act[v].got,
                                       since |-> act[v].since]]

PaymentLands(v) ==
    /\ act[v].pc = "answered" /\ Current(v) /\ act[v].op = "pay"
    /\ \/ /\ act[v].got = "captured"
          /\ last' = [body |-> act[v].body, state |-> "resolved"]
          /\ settled' = settled \cup {act[v].body.key}
          /\ Say(v, "paid", 0) /\ Await(v) /\ UNCHANGED busy
       \/ /\ act[v].got = "unapplied"
          /\ last' = [body |-> act[v].body, state |-> "captured"]
          /\ Finish(v, "contact", 0) /\ UNCHANGED settled
       \/ /\ act[v].got = "error"
          /\ Finish(v, "failed", 0) /\ UNCHANGED <<last, settled>>
    /\ UNCHANGED <<route, balance, mount, bank, minted, lapsed>>

RepActionLands(v) ==
    /\ act[v].pc = "answered" /\ Current(v) /\ act[v].op # "pay"
    /\ \/ act[v].got = "done" /\ Say(v, "done", 0) /\ Await(v) /\ UNCHANGED busy
       \/ act[v].got = "conflict" /\ Await(v) /\ UNCHANGED <<busy, notice>>
       \/ act[v].got = "error" /\ Finish(v, "failed", 0)
    /\ UNCHANGED <<route, balance, last, mount, bank, intents>>

(* Slip: a failed refresh is taken for a landed one.                       *)
AnyConflictText(read) == "review"

(* Only a balance that was read again may be called current.               *)
ConflictText(read) == IF read = Nil THEN "reload" ELSE "review"

RefreshLands(v) ==
    /\ act[v].pc = "refresh" /\ Current(v)
    /\ \E read \in Read(v, act[v].since) \cup {Nil} :
          /\ balance' = IF read = Nil THEN balance ELSE [visit |-> v, read |-> read]
          /\ IF act[v].op = "conflict"
             THEN Say(v, ConflictText(read), act[v].since)
             ELSE UNCHANGED notice
    /\ busy' = FALSE
    /\ act' = [act EXCEPT ![v] = Idle]
    /\ UNCHANGED <<route, last, mount, bank, intents>>

-----------------------------------------------------------------------------
PayPageNext ==
    \/ \E l \in Loans : Navigate(l) \/ Move(l)
    \/ \E k \in PayKeys : Lapse(k) \/ \E a \in Charges : MakePayment(k, a)
    \/ RetryPayment \/ StartNewPayment \/ AdjustBalance \/ WaiveFee
    \/ \E v \in Visits :
          \/ LandLoan(v)
          \/ ServePayment(v) \/ ServeAdjust(v) \/ ServeWaiver(v) \/ Lose(v)
          \/ Drop(v) \/ PaymentLands(v) \/ RepActionLands(v)
          \/ RefreshLands(v)
    \/ \E b \in wire : Arrive(b)

PayPageSpec == PayPageInit /\ [][PayPageNext]_payPageVars

-----------------------------------------------------------------------------
(* However calls are lost, late or retried: of the keys of a visit whose   *)
(* cards were charged, all but one were answered with a success or given up*)
(* by the user, and no key is charged twice before it lapses ("a fresh key *)
(* would risk a second claim and a second capture", blocksNewIntent).      *)
NoUnmeantCharge ==
    /\ \A k \in PayKeys : charged[k] > 1 => k \in lapsed
    /\ \A j, k \in PayKeys :
          /\ j # k /\ minted[j] = minted[k]
          /\ charged[j] > 0 /\ charged[k] > 0
          => j \in settled \/ k \in settled

(* Balance, result and attempt on screen are of this visit, whatever answers*)
(* after the user has gone to another loan and come back (routeGenRef); and *)
(* where the officer is told to review the current balance above, that      *)
(* balance was read after the movement his correction was refused for       *)
(* (adjustBalance's 409 branch).                                            *)
ScreenIsOfThisVisit ==
    /\ balance # Nil => balance.visit = visit
    /\ notice.visit \in {0, visit}
    /\ last # Nil => minted[last.body.key] = visit
    /\ notice.text = "review" => balance.read >= notice.since

=============================================================================
