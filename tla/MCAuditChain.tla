----------------------------- MODULE MCAuditChain -----------------------------
\* Contents for TLC: the first two have one text.
EXTENDS AuditChain

C(t, d) == [type |-> t, data |-> d]
MCContents == {C(<<"x">>, <<Bar, "x">>), C(<<"x", Bar>>, <<"x">>), C(<<"x">>, <<>>)}
=============================================================================
