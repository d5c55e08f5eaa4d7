------------------------------- MODULE MCSignIn -------------------------------
EXTENDS SignIn, TLC
Perms == Permutations(Requests) \cup Permutations(Ids)
===============================================================================
