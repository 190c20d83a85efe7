\* Two attachments with different defaults, three elements.
SPECIFICATION PipeSpec
CONSTANTS
    at1 = at1
    at2 = at2
    zero = zero
    one = one
    Elems = {e1, e2, e3}
    Attachments = {at1, at2}
    Values = {zero, one}
    Default <- PairDefault
    Sizes = {1, 3}
INVARIANTS
    IndicesAreDistinct
    UnusedEntriesAreDefault
PROPERTIES
    ImplementsElementTable
