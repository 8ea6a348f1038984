------------------------------- MODULE Updater -------------------------------
(***************************************************************************)
(* updater.ts, on Windows: the check that is made again by a timer, the    *)
(* download of a newer version and its verification, the calls that        *)
(* install it, and the end of the application, which installs it too.      *)
(*                                                                         *)
(* The portable application is replaced by a script it leaves behind; the  *)
(* installed one by electron-updater (external), at quitAndInstall or, if  *)
(* autoInstallOnAppQuit allows it, when it ends.                           *)
(***************************************************************************)
CONSTANTS
  Distributions,  \* those chosen from: "portable", "installed"
  InstallCalls,   \* calls of installUpdate, each made once
  QuitCalls       \* before-quit events, each handled once

VARIABLES
  distribution,
  status,         \* state.status
  check,          \* a check is under way
  retryTimer,     \* the next check is scheduled
  download,       \* "none", "fetching" or "verifying"
  genuine,        \* the downloaded binary is the publisher's
  path,           \* the path of a downloaded binary is known
  autoInstallOnAppQuit,
  portableInstallTriggered,
  installer,      \* per call: its step
  phase,          \* "runs", "quits" or "ended"
  replaced        \* what replaced the application: "none", "genuine" or "other"

updaterVars == <<distribution, status, check, retryTimer, download, genuine, path,
                 autoInstallOnAppQuit, portableInstallTriggered, installer, phase, replaced>>

Callers == InstallCalls \cup QuitCalls
Portable == distribution = "portable"
Runs == phase # "ended"

\* initializeUpdater.
Init ==
  /\ distribution \in Distributions
  /\ status = "checking" /\ check = TRUE /\ retryTimer = FALSE
  /\ download = "none" /\ genuine = FALSE /\ path = FALSE
  /\ autoInstallOnAppQuit = (distribution = "installed")
  /\ portableInstallTriggered = FALSE
  /\ installer = [c \in Callers |-> "new"]
  /\ phase = "runs" /\ replaced = "none"

Installing == <<autoInstallOnAppQuit, portableInstallTriggered, installer, phase, replaced>>
Downloading == <<download, genuine, path>>

-----------------------------------------------------------------------------
(* The check *)

\* No token, no answer, nothing usable in it, or nothing newer.
CheckEnds ==
  /\ Runs /\ check
  /\ check' = FALSE
  /\ status' \in {"error", "idle"}
  /\ retryTimer' = TRUE
  /\ UNCHANGED <<distribution, Installing, Downloading>>

\* A newer version is downloaded at once.
CheckFinds ==
  /\ Runs /\ check /\ download = "none"
  /\ check' = FALSE
  /\ status' = "downloading" /\ download' = "fetching"
  /\ UNCHANGED <<distribution, retryTimer, genuine, path, Installing>>

\* checkForUpdatesWithRetry leaves a download alone, and schedules nothing.
TimerFires ==
  /\ Runs /\ retryTimer
  /\ retryTimer' = FALSE
  /\ check' = (status \notin {"downloading", "downloaded"})
  /\ UNCHANGED <<distribution, status, Installing, Downloading>>

-----------------------------------------------------------------------------
(* The download *)

\* Only electron-updater's error schedules another check.
DownloadFails ==
  /\ Runs /\ download # "none"
  /\ download = "verifying" => Portable
  /\ download' = "none" /\ status' = "error"
  /\ retryTimer' = (retryTimer \/ ~Portable)
  /\ UNCHANGED <<distribution, check, genuine, path, Installing>>

Downloaded_MayInstall ==
  /\ Runs /\ download = "fetching"
  /\ download' = "verifying"
  /\ genuine' \in BOOLEAN
  /\ path' = (path \/ ~Portable)
  /\ UNCHANGED <<distribution, status, check, retryTimer, Installing>>

\* The binary is here, and its hash is right.  While its signature is verified
\* an end of the application must not install it.
Downloaded ==
  /\ Runs /\ download = "fetching"
  /\ download' = "verifying"
  /\ genuine' \in BOOLEAN
  /\ path' = (path \/ ~Portable)
  /\ autoInstallOnAppQuit' = FALSE
  /\ UNCHANGED <<distribution, status, check, retryTimer, portableInstallTriggered, installer, phase, replaced>>

Verified ==
  /\ Runs /\ download = "verifying" /\ genuine
  /\ download' = "none" /\ status' = "downloaded"
  /\ path' = TRUE
  /\ autoInstallOnAppQuit' = ~Portable
  /\ UNCHANGED <<distribution, check, retryTimer, genuine, portableInstallTriggered, installer, phase, replaced>>

\* rejectInstalledUpdate; the verification may also fail for other reasons.
RejectInstalled ==
  /\ Runs /\ ~Portable /\ download = "verifying"
  /\ download' = "none" /\ status' = "error"
  /\ autoInstallOnAppQuit' = FALSE
  /\ UNCHANGED <<distribution, check, retryTimer, genuine, path, portableInstallTriggered, installer, phase, replaced>>

-----------------------------------------------------------------------------
(* The installation: installUpdate, and handleAppQuitPortableUpdate. *)

Step(c, to) == installer' = [installer EXCEPT ![c] = to]

Ready == status = "downloaded" /\ path /\ ~portableInstallTriggered

Install(c) ==
  /\ Runs /\ installer[c] = "new"
  /\ Step(c, IF Ready THEN "verifying" ELSE "refused")
  /\ UNCHANGED <<distribution, status, check, retryTimer, Downloading,
                 autoInstallOnAppQuit, portableInstallTriggered, phase, replaced>>

\* before-quit, of the user, of an installation, or once more after the drains:
\* a portable application is installed as by a call.
Quit(c) ==
  /\ Runs /\ installer[c] = "new"
  /\ Step(c, IF Ready /\ Portable THEN "verifying" ELSE "refused")
  /\ phase' = "quits"
  /\ retryTimer' = FALSE
  /\ UNCHANGED <<distribution, status, check, Downloading,
                 autoInstallOnAppQuit, portableInstallTriggered, replaced>>

\* The binary is verified again.  quitAndInstall ends the application.
InstallVerified(c) ==
  /\ Runs /\ installer[c] = "verifying" /\ genuine
  /\ IF Portable
     THEN /\ Step(c, "launching")
          /\ portableInstallTriggered' = TRUE
          /\ UNCHANGED <<phase, replaced>>
     ELSE /\ Step(c, "done")
          /\ phase' = "ended"
          /\ replaced' = "genuine"
          /\ UNCHANGED portableInstallTriggered
  /\ UNCHANGED <<distribution, status, check, retryTimer, Downloading, autoInstallOnAppQuit>>

\* It is not the publisher's, or could not be read or verified.
InstallRejected(c) ==
  /\ Runs /\ installer[c] = "verifying"
  /\ Step(c, "refused")
  /\ \/ status' = "error" /\ autoInstallOnAppQuit' = FALSE
     \/ Portable /\ UNCHANGED <<status, autoInstallOnAppQuit>>
  /\ UNCHANGED <<distribution, check, retryTimer, Downloading, portableInstallTriggered, phase, replaced>>

\* The script is written and started, which may fail; a call then quits.
Launch(c) ==
  /\ Runs /\ installer[c] = "launching"
  /\ \E to \in {"launched", "refused"} :
       /\ Step(c, to)
       /\ phase' = IF c \in InstallCalls /\ to = "launched" THEN "quits" ELSE phase
  /\ UNCHANGED <<distribution, status, check, retryTimer, Downloading,
                 autoInstallOnAppQuit, portableInstallTriggered, replaced>>

\* The application ends, without waiting for what it began.  The scripts it
\* started replace it by the downloaded binary.
End ==
  /\ phase = "quits"
  /\ phase' = "ended"
  /\ replaced' = IF (\E c \in Callers : installer[c] = "launched")
                    \/ (autoInstallOnAppQuit /\ path)
                 THEN (IF genuine THEN "genuine" ELSE "other") ELSE replaced
  /\ UNCHANGED <<distribution, status, check, retryTimer, Downloading,
                 autoInstallOnAppQuit, portableInstallTriggered, installer>>

Next ==
  \/ CheckEnds \/ CheckFinds \/ TimerFires
  \/ DownloadFails \/ Downloaded \/ Verified \/ RejectInstalled
  \/ \E c \in InstallCalls : Install(c)
  \/ \E c \in QuitCalls : Quit(c)
  \/ \E c \in Callers : InstallVerified(c) \/ InstallRejected(c) \/ Launch(c)
  \/ End

\* A verification ends in one way or the other, and so does the script's start.
Progress(c) == InstallVerified(c) \/ InstallRejected(c) \/ Launch(c)

Spec == Init /\ [][Next]_updaterVars /\ \A c \in Callers : WF_updaterVars(Progress(c))

-----------------------------------------------------------------------------

Unfinished(c) == Runs /\ installer[c] \in {"verifying", "launching"}

\* Whatever order checks, downloads, verifications, installs and quits come in,
\* nothing but a verified binary replaces the application, or is offered to.
OnlyVerifiedInstalls ==
  /\ replaced # "other"
  /\ status = "downloaded" => genuine
  /\ autoInstallOnAppQuit /\ path => genuine
=============================================================================
