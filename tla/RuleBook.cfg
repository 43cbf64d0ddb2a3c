SPECIFICATION Spec
CONSTANTS
    l1 = l1
    e1 = e1
    e2 = e2
    Lister <- MCLister
    Evaluator <- MCEvaluator
    Draft <- MCDraft
    Transaction <- MCTransaction
    Plain <- MCPlain
    Join <- MCJoin
    Limit = 1
    MaxRequests = 4
INVARIANTS ListedOnce EnvironmentsAgree RewardsAsShown
SYMMETRY Symmetry
