\* Three callbacks for two types of messages, posts within posts.
CONSTANTS
  r1 = r1
  r2 = r2
  r3 = r3
  Registrations <- Three
  Types <- TwoTypes
  MaxPosts = 2
SPECIFICATION Spec
SYMMETRY Alike
INVARIANTS
    NoDanglingPointers
    NoCallAfterAutoFree
    PostsCallInOrder
CHECK_DEADLOCK FALSE
