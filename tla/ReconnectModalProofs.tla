------------------------ MODULE ReconnectModalProofs ------------------------
(***************************************************************************)
(* What holds of the reconnect dialog for any number of overlapping        *)
(* retries, lost connections and outages.                                  *)
(***************************************************************************)
EXTENDS ReconnectModal, TLAPS

\* A lost page waits for its user, retries or reloads; an open dialog offers it.
DialogInv == ReconnectTypeOK /\ RetryArmed /\ DialogOffersWayBack

USE ReconnectAssumption

LEMMA IdleIsAttempt == Idle \in Attempt
  BY DEF Idle, Attempt

\* A page that was just loaded is connected and has no dialog.
LEMMA DialogInit == ReconnectInit => DialogInv
<1> SUFFICES ASSUME ReconnectInit PROVE DialogInv
  OBVIOUS
<1> USE DEF ReconnectInit
<1>1. attempts \in [Attempts -> Attempt]
  BY IdleIsAttempt
<1>2. {reachable, open, listening, visible, reloading} \subseteq BOOLEAN
  OBVIOUS
<1>3. losses \in 0..MaxLosses /\ outages \in 0..MaxOutages
  OBVIOUS
<1> QED
  BY <1>1, <1>2, <1>3 DEF DialogInv, ReconnectTypeOK, RetryArmed, DialogOffersWayBack

\* The start of a retry takes over from the listener it removes.
LEMMA StartKeeps ==
  ASSUME DialogInv, NEW a \in Attempts, StartRetry(a), visible' \in BOOLEAN,
         UNCHANGED <<link, dialogVars, reloading, serverVars>>
  PROVE  DialogInv'
<1>1. attempts' \in [Attempts -> Attempt]
  BY DEF DialogInv, ReconnectTypeOK, StartRetry, Await, Attempt
<1>2. attempts'[a].awaits = "Reconnect"
  BY DEF DialogInv, ReconnectTypeOK, StartRetry, Await
<1>3. listening' = FALSE
  BY DEF StartRetry
<1> QED
  BY <1>1, <1>2, <1>3
  DEF DialogInv, ReconnectTypeOK, RetryArmed, DialogOffersWayBack, dialogVars, serverVars

\* Whatever the framework and the server do, and whenever the page is reloaded.
LEMMA OutsideKeeps ==
  ASSUME DialogInv,
         LoseConnection \/ PauseSession \/ TryToReconnect \/ ExpireSession
           \/ LoseServer \/ ServerReturns \/ Reload
  PROVE  DialogInv'
<1> USE DEF DialogInv, ReconnectTypeOK, RetryArmed, DialogOffersWayBack, dialogVars
<1>1. CASE LoseConnection
  BY <1>1 DEF LoseConnection, Show
<1>2. CASE PauseSession
  BY <1>2 DEF PauseSession, Show
<1>3. CASE TryToReconnect
  <2>1. CASE Connect /\ UNCHANGED <<listening, reloading>>
    BY <1>3, <2>1 DEF TryToReconnect, Connect
  <2>2. CASE link' = "GaveUp" /\ Rejected /\ UNCHANGED session
    BY <1>3, <2>2 DEF TryToReconnect, Rejected
  <2>3. CASE link' = "GaveUp" /\ Failed /\ UNCHANGED session
    BY <1>3, <2>3 DEF TryToReconnect, Failed
  <2> QED
    BY <1>3, <2>1, <2>2, <2>3 DEF TryToReconnect
<1>4. CASE ExpireSession
  BY <1>4 DEF ExpireSession
<1>5. CASE LoseServer
  <2>1. outages' \in 0..MaxOutages
    <3>1. outages \in 0..MaxOutages
      OBVIOUS
    <3>2. outages < MaxOutages /\ outages' = outages + 1
      BY <1>5 DEF LoseServer
    <3> HIDE DEF DialogInv
    <3> QED
      BY <3>1, <3>2
  <2>2. UNCHANGED <<link, open, class, session, listening, visible, attempts, reloading, losses>>
    BY <1>5 DEF LoseServer
  <2>3. reachable' = FALSE
    BY <1>5 DEF LoseServer
  <2> QED
    BY <2>1, <2>2, <2>3
<1>6. CASE ServerReturns
  BY <1>6 DEF ServerReturns
<1>7. CASE Reload
  BY <1>7, IdleIsAttempt DEF Reload, Connect
<1> QED
  BY <1>1, <1>2, <1>3, <1>4, <1>5, <1>6, <1>7

\* The user's steps.
LEMMA UserKeeps ==
  ASSUME DialogInv,
         ChangeVisibility \/ Dismiss \/ \E a \in Attempts : ClickRetry(a) \/ ClickResume(a)
  PROVE  DialogInv'
<1>1. CASE ChangeVisibility
  <2>1. visible' \in BOOLEAN
    BY <1>1 DEF ChangeVisibility, DialogInv, ReconnectTypeOK
  <2>2. CASE listening /\ visible'
    BY <1>1, <2>1, <2>2, StartKeeps DEF ChangeVisibility
  <2>3. CASE ~(listening /\ visible')
    BY <1>1, <2>1, <2>3
    DEF ChangeVisibility, dialogVars, serverVars,
        DialogInv, ReconnectTypeOK, RetryArmed, DialogOffersWayBack
  <2> QED
    BY <2>2, <2>3
<1>2. ASSUME NEW a \in Attempts, ClickRetry(a) PROVE DialogInv'
  <2>1. visible' \in BOOLEAN
    BY <1>2 DEF ClickRetry, DialogInv, ReconnectTypeOK
  <2> QED
    BY <1>2, <2>1, StartKeeps DEF ClickRetry
<1>3. ASSUME NEW a \in Attempts, ClickResume(a) PROVE DialogInv'
  <2>1. attempts' \in [Attempts -> Attempt]
    BY <1>3 DEF ClickResume, Await, Attempt, DialogInv, ReconnectTypeOK
  <2>2. \A b \in Attempts : attempts[b].awaits # "Nothing" => attempts'[b] = attempts[b]
    BY <1>3 DEF ClickResume, Await, Idle, DialogInv, ReconnectTypeOK
  <2> QED
    BY <1>3, <2>1, <2>2
    DEF ClickResume, dialogVars, serverVars,
        DialogInv, ReconnectTypeOK, RetryArmed, DialogOffersWayBack
<1>4. CASE Dismiss
  BY <1>4
  DEF Dismiss, serverVars, DialogInv, ReconnectTypeOK, RetryArmed, DialogOffersWayBack
<1> QED
  BY <1>1, <1>2, <1>3, <1>4

\* An attempt that ends without an exception has connected the page or reloads
\* it; with one it listens again, or was not a retry.
LEMMA AnswerKeeps ==
  ASSUME DialogInv, NEW a \in Attempts, Answer(a)
  PROVE  DialogInv'
<1> USE DEF DialogInv, ReconnectTypeOK
<1>1. attempts' \in [Attempts -> Attempt]
  BY IdleIsAttempt
  DEF Answer, DecideNegative, Succeed, ReconnectRefused, ResumeRefused, RetryThrows,
      ResumeThrows, Finish, Await, Attempt
<1>2. \A b \in Attempts \ {a} : attempts'[b] = attempts[b]
  BY DEF Answer, DecideNegative, Succeed, ReconnectRefused, ResumeRefused, RetryThrows,
         ResumeThrows, Finish, Await
<1>3. CASE DecideNegative(a)
  <2>1. attempts'[a].awaits = attempts[a].awaits
    BY <1>3 DEF DecideNegative, Attempt
  <2> QED
    BY <1>1, <1>2, <1>3, <2>1
    DEF DecideNegative, dialogVars, serverVars, RetryArmed, DialogOffersWayBack
<1>4. CASE Succeed(a)
  BY <1>1, <1>4 DEF Succeed, Connect, RetryArmed, DialogOffersWayBack
<1>5. CASE ReconnectRefused(a)
  <2>1. attempts'[a].awaits = "ResumeInRetry"
    BY <1>5 DEF ReconnectRefused, Await
  <2> QED
    BY <1>1, <1>5, <2>1
    DEF ReconnectRefused, dialogVars, serverVars, RetryArmed, DialogOffersWayBack
<1>6. CASE ResumeRefused(a)
  BY <1>1, <1>6 DEF ResumeRefused, dialogVars, serverVars, RetryArmed, DialogOffersWayBack
<1>7. CASE RetryThrows(a)
  BY <1>1, <1>7 DEF RetryThrows, dialogVars, serverVars, RetryArmed, DialogOffersWayBack
<1>8. CASE ResumeThrows(a)
  <2>1. attempts[a].awaits = "Resume"
    BY <1>8 DEF ResumeThrows, Answered
  <2> QED
    BY <1>1, <1>2, <1>8, <2>1
    DEF ResumeThrows, serverVars, RetryArmed, DialogOffersWayBack
<1> QED
  BY <1>3, <1>4, <1>5, <1>6, <1>7, <1>8 DEF Answer

LEMMA DialogStep == DialogInv /\ [ReconnectNext]_reconnectVars => DialogInv'
<1> SUFFICES ASSUME DialogInv, [ReconnectNext]_reconnectVars PROVE DialogInv'
  OBVIOUS
<1>1. CASE UNCHANGED reconnectVars
  BY <1>1 DEF reconnectVars, dialogVars, serverVars, DialogInv, ReconnectTypeOK, RetryArmed,
              DialogOffersWayBack
<1>2. CASE ReconnectNext
  BY <1>2, OutsideKeeps, UserKeeps, AnswerKeeps DEF ReconnectNext
<1> QED
  BY <1>1, <1>2

LEMMA DialogAlways == ReconnectSpec => []DialogInv
  BY DialogInit, DialogStep, PTL DEF ReconnectSpec

\* The variables of the dialog keep their types, and an open one shows a state.
THEOREM ReconnectTypeCorrect == ReconnectSpec => []ReconnectTypeOK
<1>1. DialogInv => ReconnectTypeOK
  BY DEF DialogInv
<1> QED
  BY <1>1, DialogAlways, PTL

\* However many retries overlap, a page the framework has given up on is
\* retried, listens for its user or is reloaded.
THEOREM RetryAlwaysArmed == ReconnectSpec => []RetryArmed
<1>1. DialogInv => RetryArmed
  BY DEF DialogInv
<1> QED
  BY <1>1, DialogAlways, PTL

\* However the answers of overlapping attempts are ordered, the dialog, while it
\* is open, offers the button that leads out of the state the page is in.
THEOREM DialogAlwaysOffersWayBack == ReconnectSpec => []DialogOffersWayBack
<1>1. DialogInv => DialogOffersWayBack
  BY DEF DialogInv
<1> QED
  BY <1>1, DialogAlways, PTL
=============================================================================
