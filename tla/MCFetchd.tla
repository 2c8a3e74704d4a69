-------------------------------- MODULE MCFetchd -------------------------------
\* FetchdPool for TLC: the requests.  "a" and "aa" are profiles, "a" a proxy too.
EXTENDS FetchdPool

A == <<97>>
AA == <<97, 97>>
NoText == <<>>
NoTable == [h \in {} |-> NoText]
\* The host "b" at "1" and, where it is another table, the host "c" at "2".
TableB == [h \in {<<98>>} |-> <<49>>]
TableBC == [h \in {<<98>>, <<99>>} |-> IF h = <<98>> THEN <<49>> ELSE <<50>>]

Ask(profile, proxy, resolve, timeout) ==
    [profile |-> profile, proxy |-> proxy, resolve |-> resolve, timeout |-> timeout]
\* A profile with and without a timeout that is the default, with another, with
\* a proxy, and with each table.
SomeRequests ==
    { Ask(AA, NoText, NoTable, 30), Ask(AA, NoText, NoTable, 0), Ask(AA, NoText, NoTable, 1),
      Ask(A, A, NoTable, 30), Ask(AA, NoText, TableB, 30), Ask(AA, NoText, TableBC, 30) }
\* The first of them in the pool of profiles of which one is exact.
FewRequests == {r \in SomeRequests : r.resolve = NoTable}
ExactProfiles == {A}
\* The parts of these can be told apart.
ASSUME NoSeparators

================================================================================
