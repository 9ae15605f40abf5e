----------------------------- MODULE MCBrowser -----------------------------
(* A small instance of Browser: seven findings of four severities. *)
EXTENDS Browser

Finding(r, n, s) == [rank |-> r, rule |-> n, service |-> s]
SevenFindings ==
    <<Finding(3, 1, "s3"), Finding(0, 2, "iam"), Finding(2, 1, "s3"), Finding(1, 1, "iam"),
      Finding(3, 2, "iam"), Finding(0, 1, "s3"), Finding(3, 2, "s3")>>
TwoServices == <<"iam", "s3">>

\* One text that some contain, one that a single finding contains, one that none does.
Has(f, t) == t = "" \/ (t = "a" /\ f.rule = 1) \/ (t = "ab" /\ f.rule = 1 /\ f.rank = 3)
=============================================================================
