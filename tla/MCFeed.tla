------------------------------- MODULE MCFeed -------------------------------
EXTENDS Feed

MCPrice == [c \in Car |-> (3 * c) % 5]
MCYear  == [c \in Car |-> (2 * c) % 5]
=============================================================================
