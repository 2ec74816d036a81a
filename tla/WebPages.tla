------------------------------ MODULE WebPages ------------------------------
(***************************************************************************)
(* The two pages of web/static/app.js in one browser tab.  Both documents  *)
(* load the same script, which sets up the page that it finds; what it     *)
(* keeps goes when the tab leaves the page, and with it the requests whose *)
(* answers it awaits.                                                      *)
(***************************************************************************)
EXTENDS JobsPage, SubmitPage

VARIABLE page     \* the open one, "submit" or "jobs"

pages == <<page, jvars, svars>>

PagesInit == page = "submit" /\ SInit /\ JInit

OpenJobs(q) ==
  /\ page = "submit" /\ page' = "jobs"
  /\ OpenWith(q) /\ Reset

OpenSubmit ==
  /\ page = "jobs" /\ page' = "submit"
  /\ Close /\ UNCHANGED svars

\* With a 201 the browser leaves for the job page, without filters.
SubmissionSucceeds ==
  /\ submission # None
  /\ OpenJobs(Unfiltered)

OnJobs(A) == page = "jobs" /\ A /\ UNCHANGED <<page, svars>>
OnSubmit(A) == page = "submit" /\ A /\ UNCHANGED <<page, jvars>>

PagesNext ==
  \/ OnJobs(JNext)
  \/ OnSubmit(SNext)
  \/ \E q \in Queries : OpenJobs(q)
  \/ OpenSubmit \/ SubmissionSucceeds
  \/ Change /\ UNCHANGED <<page, svars>>

\* The interval timer fires as long as the jobs page is open, and every request is
\* settled, by the server or by the browser.
PagesSpec ==
  /\ PagesInit /\ [][PagesNext]_pages
  /\ WF_pages(OnJobs(Poll))
  /\ WF_pages(OnJobs(Settle))
  /\ WF_pages(OnSubmit(InspectionAnswers \/ InspectionFails))
  /\ WF_pages(OnSubmit(SubmissionFails) \/ SubmissionSucceeds)
-----------------------------------------------------------------------------
\* Properties.

\* Once the user stays on the jobs page and leaves the filters and the sort alone,
\* the page comes to show the list they ask for and goes on showing it, with every
\* change of the table (such as the job just submitted), although a load that was
\* under way when they changed swallowed the reload, and requests may fail.
ComesToShowWhatIsAsked ==
  \A q \in Queries : <>[](page = "jobs" /\ query = q) => <>[]Shows(q)
=============================================================================
