------------------------------- MODULE MCJobs -------------------------------
\* Three jobs, one of them an operation whose result is its own row.
EXTENDS Jobs
=============================================================================
