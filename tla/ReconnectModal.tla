--------------------------- MODULE ReconnectModal ---------------------------
(***************************************************************************)
(* The script behind the dialog a page shows when it has lost its          *)
(* connection to the server (ReconnectModal.razor.js).  The framework      *)
(* raises the state events and answers Blazor.reconnect and                *)
(* Blazor.resumeCircuit; retries may overlap, because nothing disables     *)
(* the buttons, and a negative answer may be stale when it arrives.  The   *)
(* dialog is modal, and the user may close it as the browser lets one.     *)
(***************************************************************************)
EXTENDS Naturals

CONSTANTS Attempts,     \* calls of retry and resume that may be in flight at a time
          MaxLosses,    \* bound on lost connections and paused sessions
          MaxOutages    \* bound on the times the server becomes unreachable

ASSUME ReconnectAssumption == MaxLosses \in Nat /\ MaxOutages \in Nat

VARIABLES
    link,        \* the framework: connected, trying by itself, given up, paused
    session,     \* the server: "Held" to reconnect to, "Kept" to resume, "Gone"
    reachable,   \* the server can be reached
    open,        \* the dialog is open
    class,       \* the class components-reconnect-... the dialog has
    listening,   \* retryWhenDocumentBecomesVisible listens to visibilitychange
    visible,     \* document.visibilityState
    attempts,    \* the calls of retry and resume
    reloading,   \* location.reload() was called
    losses, outages

dialogVars == <<open, class>>
serverVars == <<session, reachable, losses, outages>>
reconnectVars == <<link, dialogVars, listening, visible, attempts, reloading, serverVars>>

\* awaits: the call that is awaited, in retry (its reconnect, then its resume)
\* or in resume; answer: a negative one that is on its way.
Attempt == [awaits : {"Nothing", "Reconnect", "ResumeInRetry", "Resume"},
            answer : {"None", "Refused", "Unreachable"}]

Idle == [awaits |-> "Nothing", answer |-> "None"]
Awaiting(a, call) == attempts[a] = [awaits |-> call, answer |-> "None"]
Answered(a, call, answer) == attempts[a] = [awaits |-> call, answer |-> answer]
Await(a, call) == attempts' = [attempts EXCEPT ![a] = [awaits |-> call, answer |-> "None"]]
Finish(a) == attempts' = [attempts EXCEPT ![a] = Idle]

\* A page as it is loaded: connected, its three handlers registered.
ReconnectInit ==
    /\ link = "Up"
    /\ session = "Held"
    /\ open = FALSE
    /\ class = "hide"
    /\ listening = FALSE
    /\ attempts = [a \in Attempts |-> Idle]
    /\ reloading = FALSE
    /\ reachable = TRUE
    /\ visible \in BOOLEAN
    /\ losses = 0
    /\ outages = 0

-----------------------------------------------------------------------------
(* What the handler of the state events does.                              *)

\* The framework sets the class and raises "show"; a pause is shown as well.
Show(shown) == open' = TRUE /\ class' = shown

\* Connected again: the framework raises "hide".
Connect ==
    /\ link' = "Up"
    /\ session' = "Held"
    /\ open' = FALSE
    /\ class' = "hide"

\* Mutant: the page does not wait to become visible.
FailedUnheard ==
    /\ class' = "failed"
    /\ UNCHANGED <<open, listening, reloading>>

Failed ==
    /\ class' = "failed"
    /\ listening' = TRUE
    /\ UNCHANGED <<open, reloading>>

Rejected ==
    /\ class' = "rejected"
    /\ reloading' = TRUE
    /\ UNCHANGED <<open, listening>>

-----------------------------------------------------------------------------
(* The framework and the server.                                           *)

LoseConnection ==
    /\ link = "Up" /\ losses < MaxLosses
    /\ link' = "Trying"
    /\ losses' = losses + 1
    /\ Show("show")
    /\ UNCHANGED <<session, reachable, listening, visible, attempts, reloading, outages>>

PauseSession ==
    /\ link = "Up" /\ losses < MaxLosses
    /\ link' = "Paused"
    /\ session' = "Kept"
    /\ losses' = losses + 1
    /\ Show("paused")
    /\ UNCHANGED <<reachable, listening, visible, attempts, reloading, outages>>

\* The framework's own attempts end: reconnected (or resumed, if the framework
\* tries that), rejected by the server, or without having reached it.
TryToReconnect ==
    /\ link = "Trying"
    /\ \/ reachable /\ session # "Gone" /\ Connect /\ UNCHANGED <<listening, reloading>>
       \/ reachable /\ session # "Held" /\ link' = "GaveUp" /\ Rejected /\ UNCHANGED session
       \/ ~reachable /\ link' = "GaveUp" /\ Failed /\ UNCHANGED session
    /\ UNCHANGED <<reachable, visible, attempts, losses, outages>>

\* The server does not hold the session of a disconnected page for ever.
ExpireSession ==
    /\ link # "Up"
    /\ \/ session = "Held" /\ session' \in {"Kept", "Gone"}
       \/ session = "Kept" /\ session' = "Gone"
    /\ UNCHANGED <<link, dialogVars, reachable, listening, visible, attempts, reloading, losses, outages>>

LoseServer ==
    /\ reachable /\ outages < MaxOutages
    /\ reachable' = FALSE
    /\ outages' = outages + 1
    /\ UNCHANGED <<link, dialogVars, session, listening, visible, attempts, reloading, losses>>

ServerReturns ==
    /\ ~reachable
    /\ reachable' = TRUE
    /\ UNCHANGED <<link, dialogVars, session, listening, visible, attempts, reloading, losses, outages>>

\* The browser loads the page anew; what the old one awaited is gone.
Reload ==
    /\ reloading /\ reachable
    /\ Connect
    /\ listening' = FALSE
    /\ attempts' = [a \in Attempts |-> Idle]
    /\ reloading' = FALSE
    /\ UNCHANGED <<reachable, visible, losses, outages>>

-----------------------------------------------------------------------------
(* retry, resume and what calls them.                                      *)

\* Up to the first await.
StartRetry(a) ==
    /\ attempts[a] = Idle
    /\ listening' = FALSE
    /\ Await(a, "Reconnect")

ClickRetry(a) ==
    /\ open /\ class = "failed"
    /\ StartRetry(a)
    /\ UNCHANGED <<link, dialogVars, visible, reloading, serverVars>>

ClickResume(a) ==
    /\ open /\ class \in {"paused", "resume-failed"}
    /\ attempts[a] = Idle
    /\ Await(a, "Resume")
    /\ UNCHANGED <<link, dialogVars, listening, visible, reloading, serverVars>>

\* showModal() opened the dialog, so that the browser closes it on Esc; no
\* handler of the script prevents that or hears of it.
Dismiss ==
    /\ open
    /\ open' = FALSE
    /\ UNCHANGED <<link, class, listening, visible, attempts, reloading, serverVars>>

\* The user leaves the page or comes back to it.
ChangeVisibility ==
    /\ visible' = ~visible
    /\ IF listening /\ visible'
       THEN \E a \in Attempts : StartRetry(a)
       ELSE UNCHANGED <<listening, attempts>>
    /\ UNCHANGED <<link, dialogVars, reloading, serverVars>>

\* The server or the network decides on a call, to the negative.  Whether it
\* resumes a session that it holds already is left open.
DecideNegative(a) ==
    /\ \E call \in {"Reconnect", "ResumeInRetry", "Resume"}, answer \in {"Refused", "Unreachable"} :
        /\ Awaiting(a, call)
        /\ IF answer = "Unreachable"
           THEN ~reachable
           ELSE /\ reachable
                /\ IF call = "Reconnect" THEN session # "Held" ELSE session # "Kept"
        /\ call = "Reconnect" => link # "Up"
        /\ attempts' = [attempts EXCEPT ![a].answer = answer]
    /\ UNCHANGED <<link, dialogVars, listening, visible, reloading, serverVars>>

\* A call succeeds, and the code after its await runs: the framework has hidden
\* the dialog, unless the page was connected already.
Succeed(a) ==
    /\ \/ /\ Awaiting(a, "Reconnect")
          /\ link = "Up" \/ (reachable /\ session = "Held")
       \/ /\ Awaiting(a, "ResumeInRetry") \/ Awaiting(a, "Resume")
          /\ reachable /\ session # "Gone"
    /\ Connect
    /\ Finish(a)
    /\ UNCHANGED <<listening, visible, reloading, reachable, losses, outages>>

\* The server refused to reconnect: retry tries to resume.
ReconnectRefused(a) ==
    /\ Answered(a, "Reconnect", "Refused")
    /\ Await(a, "ResumeInRetry")
    /\ UNCHANGED <<link, dialogVars, listening, visible, reloading, serverVars>>

ResumeRefused(a) ==
    /\ Answered(a, "ResumeInRetry", "Refused") \/ Answered(a, "Resume", "Refused")
    /\ reloading' = TRUE
    /\ Finish(a)
    /\ UNCHANGED <<link, dialogVars, listening, visible, serverVars>>

\* Mutant: the exception is swallowed.
RetryThrowsQuietly(a) ==
    /\ Answered(a, "Reconnect", "Unreachable") \/ Answered(a, "ResumeInRetry", "Unreachable")
    /\ Finish(a)
    /\ UNCHANGED <<link, dialogVars, listening, visible, reloading, serverVars>>

RetryThrows(a) ==
    /\ Answered(a, "Reconnect", "Unreachable") \/ Answered(a, "ResumeInRetry", "Unreachable")
    /\ listening' = TRUE
    /\ Finish(a)
    /\ UNCHANGED <<link, dialogVars, visible, reloading, serverVars>>

\* Mutant: the class is taken away, and no button is left.
ResumeThrowsBare(a) ==
    /\ Answered(a, "Resume", "Unreachable")
    /\ class' = IF class = "paused" THEN "hide" ELSE class
    /\ Finish(a)
    /\ UNCHANGED <<link, open, listening, visible, reloading, serverVars>>

\* Mutant: the class is set, whatever has become of the page since.
ResumeThrowsLate(a) ==
    /\ Answered(a, "Resume", "Unreachable")
    /\ class' = "resume-failed"
    /\ Finish(a)
    /\ UNCHANGED <<link, open, listening, visible, reloading, serverVars>>

ResumeThrows(a) ==
    /\ Answered(a, "Resume", "Unreachable")
    /\ class' = IF class = "paused" THEN "resume-failed" ELSE class
    /\ Finish(a)
    /\ UNCHANGED <<link, open, listening, visible, reloading, serverVars>>

Answer(a) ==
    \/ DecideNegative(a) \/ Succeed(a) \/ ReconnectRefused(a)
    \/ ResumeRefused(a) \/ RetryThrows(a) \/ ResumeThrows(a)

ReconnectNext ==
    \/ LoseConnection \/ PauseSession \/ TryToReconnect \/ ExpireSession
    \/ LoseServer \/ ServerReturns \/ Reload \/ ChangeVisibility \/ Dismiss
    \/ \E a \in Attempts : ClickRetry(a) \/ ClickResume(a) \/ Answer(a)

ReconnectSpec == ReconnectInit /\ [][ReconnectNext]_reconnectVars

(***************************************************************************)
(* The framework goes on trying, the server comes back, every call is      *)
(* answered and a reload ends.  The user comes back to the page again and  *)
(* again, and clicks Resume as long as it is offered; nobody clicks Retry, *)
(* and whether the dialog is closed unanswered is left open.               *)
(***************************************************************************)
ReconnectFairness ==
    /\ WF_reconnectVars(TryToReconnect) /\ WF_reconnectVars(ServerReturns)
    /\ WF_reconnectVars(Reload) /\ WF_reconnectVars(ChangeVisibility)
    /\ \A a \in Attempts : WF_reconnectVars(Answer(a)) /\ WF_reconnectVars(ClickResume(a))

FairReconnectSpec == ReconnectSpec /\ ReconnectFairness

-----------------------------------------------------------------------------
\* The variables keep their types, and a dialog that is open has a state to show.
ReconnectTypeOK ==
    /\ link \in {"Up", "Trying", "GaveUp", "Paused"}
    /\ session \in {"Held", "Kept", "Gone"}
    /\ class \in {"hide", "show", "failed", "rejected", "paused", "resume-failed"}
    /\ attempts \in [Attempts -> Attempt]
    /\ {reachable, open, listening, visible, reloading} \subseteq BOOLEAN
    /\ losses \in 0..MaxLosses
    /\ outages \in 0..MaxOutages
    /\ open => class # "hide"

\* A page the framework has given up on is never forgotten: it waits for the
\* user to come back, a retry is under way, or it is being reloaded, however
\* the retries overlap (ReconnectModal.razor.js:17, 24, 44).
RetryArmed ==
    link = "GaveUp" =>
        \/ listening
        \/ reloading
        \/ \E a \in Attempts : attempts[a].awaits \in {"Reconnect", "ResumeInRetry"}

\* The dialog, while it is open, offers the way back that there is: Resume on a
\* paused page, also after a resume that failed, Retry on one the framework has
\* given up on unless it is being reloaded, and no button while the framework
\* tries.  No late answer of an earlier attempt, whose page has been connected
\* and lost again since, puts another one there (ReconnectModal.razor.js:44, 54
\* and 55; the buttons in ReconnectModal.razor:18 and 27).
DialogOffersWayBack ==
    open =>
        /\ link = "Paused" => class \in {"paused", "resume-failed"}
        /\ link = "GaveUp" => class = "failed" \/ reloading
        /\ link = "Trying" => class = "show"

\* A page that lost its connection gets one again, by itself, by the user
\* coming back to it, or by a reload; all but a paused one whose dialog the user
\* has closed: nothing has to be listening there (ReconnectModal.razor.js:13, 17
\* and 48).
Recovers == link # "Up" ~> link = "Up" \/ (link = "Paused" /\ ~open)
=============================================================================
