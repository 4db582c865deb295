\* Background and another thread change rows.
CONSTANTS
  Tables = {"Account", "Clientinfo"}
  Ignored = {"Account"}
  Handlers = {"h1"}
  Background = "background"
  Writers = {"background", "app"}
  MaxChanges = 3
SPECIFICATION FairSpec
INVARIANTS TypeOK NoChangeLost InOrder
PROPERTY ChangeIsDelivered
CHECK_DEADLOCK FALSE
