----------------------------- MODULE MCWatcher ------------------------------
EXTENDS Watcher, TLC

CONSTANTS a, k, s, t

TwoAccounts == {a, k}
OneKnown == {k}
Mails == <<s, s, t>>

\* Of the day and the messages the check sees the clock, once, and the counter of
\* an earlier day, once: a message kept, or a midnight, in between tells the two
\* apart, and everything else may as well come before the check or after it.
MailsApart ==
  \/ UNCHANGED <<day, feedbackVars>>
  \/ run.at = "idle"
  \/ run.at = "compared" /\ (day' # day \/ daily' # daily)

\* The third message, or lost reply, is there for the limits of the inbox, to which
\* the runs that are cut off make no difference.
Bounded == stops' > 0 => (Sent + unheard)' <= 2
=============================================================================
