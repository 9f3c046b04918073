----------------------------- MODULE MCUiServer -----------------------------
\* Two requests of the UI and one command on a database that is current, or that
\* they race to create or to migrate; or the command comes when no request has the
\* file open, and finds what the race of the two made of it.  A page of one run is
\* shorter than the history; a second that passes or not tells runs apart or leaves
\* them tied.
EXTENDS UiServer

CONSTANTS s1, s2, s3

MCShared == {[file |-> file, alone |-> {}] : file \in {"no_file", "old", "current"}}
              \cup {[file |-> file, alone |-> {s3}] : file \in {"no_file", "old"}}

\* The two forms that are right, and one for each thing that can be wrong.
MCForms ==
  {Form("/diagnose", FALSE, TRUE), Form("/api/diagnose", FALSE, TRUE),
   Form("/api/diagnose", TRUE, TRUE), Form("/api/diagnose", FALSE, FALSE)}
=============================================================================
