------------------------------ MODULE MCSignUp ------------------------------
EXTENDS SignUp
=============================================================================
