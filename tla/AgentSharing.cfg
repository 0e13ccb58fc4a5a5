\* One agent; two people, one of whom may be given the other's address; two requests at a
\* time, one of which may die.
CONSTANTS
    ada = ada
    bob = bob
    mailB = mailB
    mailC = mailC
    u1 = u1
    u2 = u2
    u3 = u3
    r1 = r1
    r2 = r2
    People <- MCPeople
    TokensOf <- MCTokensOf
    UserIds <- MCUserIds
    Agents = {g}
    Addresses = {mailB, mailC}
    Calls <- MCCalls
    MaxOps = 3
    MaxTroubles = 1
SPECIFICATION SharingSpec
SYMMETRY MCSymmetry
INVARIANTS OneAccount GivenByTheEntitled NothingLeftWaiting
PROPERTY SignInTakesNothing
