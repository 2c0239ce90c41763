CONSTANTS
    f1 = f1
    f2 = f2
    e1 = e1
    e2 = e2
    a1 = a1
    a2 = a2
    a3 = a3
    s1 = s1
    s2 = s2
    None = None
    Phones <- TwoPhones
    Emails <- TwoEmails
    Subs <- TwoSubs
    Slots <- OneSlot
SPECIFICATION Spec
SYMMETRY Symmetry
PROPERTIES
    UndoneAccountIsOwn
