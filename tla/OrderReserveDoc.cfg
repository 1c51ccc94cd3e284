SPECIFICATION Spec
CONSTANTS
    p1 = p1
    za = za
    zb = zb
    e1 = e1
    OrderIds = {o1, o2}
    MaxTs = 4
    MaxQty = 2
    Types = {"PRODUCT_RECEIVED", "PRODUCT_SHIPPED", "PRODUCT_MOVED",
             "PRODUCT_RESERVED", "PRODUCT_RELEASED", "INVENTORY_COUNTED",
             "ORDER_CREATED", "ORDER_COMPLETED"}
    Products <- MCProducts
    Zones <- MCZones
    EventIds <- MCEventIds
    Messages <- MCMessages
INVARIANTS
    OrdersReserveLikeEvents
