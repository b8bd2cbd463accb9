\* Three handles on a pool of two slots.
SPECIFICATION LoanSpec
CONSTANTS
  Slots = {s1, s2}
  Handles = {h1, h2, h3}
  Payloads = {a, b}
  MaxFailures = 1
SYMMETRY Symmetry
INVARIANTS OneOwner SlotStableOnLoan
